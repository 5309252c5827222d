--------------------------- MODULE EventLogProofs ---------------------------
(***************************************************************************)
(* The bounded buffer of the event log keeps its limits, whichever file    *)
(* operations fail and wherever the process stops; what a replay of its    *)
(* files returns is what the lossy log of RecordLog has stored; and what a *)
(* run loses between its lines is counted.  The bytes of lines and the     *)
(* events of files are folds, so what is known of folds says how they      *)
(* split where the buffer is cut or a file removed.                        *)
(***************************************************************************)
EXTENDS EventLogProperties, SequenceTheorems, FiniteSetTheorems, TLAPS

SizeOp(p, total, line) == total + line.size

Sizing == INSTANCE FoldTheorems WITH Op <- SizeOp

-----------------------------------------------------------------------------
(* Bytes                                                                   *)

LEMMA BytesIs ==
  ASSUME NEW lines
  PROVE  Bytes(lines) = Sizing!Fold(0, 0, lines)
BY DEF Bytes, SumOver, Sizing!Fold, FoldLeft, MapThenFoldSet, Max, Sizing!FoldLeft, Sizing!MapThenFoldSet,
       Sizing!Max, SizeOp

(* Lines have a size, so their bytes are a number.                         *)
LEMMA BytesTyped ==
  ASSUME NEW lines \in Seq(Line)
  PROVE  Bytes(lines) \in Nat
<1>1. Len(lines) \in Nat /\ DOMAIN lines = 1..Len(lines)
  OBVIOUS
<1>2. \A e \in Nat, i \in 1..Len(lines) : SizeOp(0, e, lines[i]) \in Nat
  <2>1. \A i \in 1..Len(lines) : lines[i] \in Line
    OBVIOUS
  <2> QED
    BY <2>1 DEF SizeOp, Line
<1>3. Sizing!Fold(0, 0, lines) \in Nat
  BY <1>1, <1>2, Sizing!FoldStaysIn
<1> QED
  BY <1>3, BytesIs

(* The bytes counted before are added to those that follow.                *)
LEMMA BytesShift ==
  ASSUME NEW lines \in Seq(Line), NEW base \in Nat
  PROVE  Sizing!Fold(0, base, lines) = base + Bytes(lines)
<1> DEFINE n == Len(lines)
<1>1. n \in Nat /\ DOMAIN lines = 1..n /\ \A i \in 1..n : lines[i].size \in Nat
  <2>1. \A i \in 1..n : lines[i] \in Line
    OBVIOUS
  <2> QED
    BY <2>1 DEF Line
<1> HIDE DEF n
<1>2. PICK h : Sizing!IsRun(h, 0, 0, lines, n) /\ h[n] = Sizing!Fold(0, 0, lines)
  BY <1>1, Sizing!FoldHasRun
<1>3. \A e \in Nat, i \in 1..n : SizeOp(0, e, lines[i]) \in Nat
  BY <1>1 DEF SizeOp
<1>4. \A i \in 0..n : h[i] \in Nat
  BY <1>1, <1>2, <1>3, Sizing!RunStaysIn
<1> DEFINE k == [i \in 0..n |-> base + h[i]]
<1>5. Sizing!IsRun(k, 0, base, lines, n)
  <2>1. k[0] = base
    BY <1>1, <1>2 DEF Sizing!IsRun
  <2>2. ASSUME NEW i \in 1..n
        PROVE  k[i] = SizeOp(0, k[i - 1], lines[i])
    <3>1. h[i] = h[i - 1] + lines[i].size
      BY <1>2 DEF Sizing!IsRun, SizeOp
    <3>2. k[i] = base + h[i] /\ k[i - 1] = base + h[i - 1]
      BY <1>1
    <3>3. h[i - 1] \in Nat /\ lines[i].size \in Nat
      BY <1>1, <1>4
    <3> HIDE DEF k
    <3> QED
      BY <3>1, <3>2, <3>3 DEF SizeOp
  <2> HIDE DEF k
  <2> QED
    BY <2>1, <2>2 DEF Sizing!IsRun
<1>6. k[n] = base + h[n]
  BY <1>1
<1> HIDE DEF k
<1>7. Sizing!Fold(0, base, lines) = k[n]
  BY <1>1, <1>5, Sizing!FoldOfRun
<1> QED
  BY <1>2, <1>6, <1>7, BytesIs

(* The bytes of two runs of lines add up.                                  *)
LEMMA BytesConcat ==
  ASSUME NEW s \in Seq(Line), NEW t \in Seq(Line)
  PROVE  Bytes(s \o t) = Bytes(s) + Bytes(t)
<1>1. Sizing!Fold(0, 0, s \o t) = Sizing!Fold(0, Sizing!Fold(0, 0, s), t)
  BY Sizing!FoldConcat
<1>2. Bytes(s) \in Nat
  BY BytesTyped
<1>3. Sizing!Fold(0, Bytes(s), t) = Bytes(s) + Bytes(t)
  BY <1>2, BytesShift
<1> QED
  BY <1>1, <1>3, BytesIs

LEMMA BytesEmpty == Bytes(<<>>) = 0
BY BytesIs, Sizing!FoldEmpty

LEMMA BytesOne ==
  ASSUME NEW line \in Line
  PROVE  Bytes(<<line>>) = line.size
<1>1. Sizing!Fold(0, 0, <<line>>) = SizeOp(0, 0, line)
  BY Sizing!FoldOne
<1>2. line.size \in Nat
  BY DEF Line
<1> QED
  BY <1>1, <1>2, BytesIs DEF SizeOp

(* The lines a cut leaves on its two sides are all the lines.              *)
LEMMA Cut ==
  ASSUME NEW S, NEW lines \in Seq(S), NEW n \in 0..Len(lines)
  PROVE  /\ SubSeq(lines, 1, n) \in Seq(S) /\ Len(SubSeq(lines, 1, n)) = n
         /\ SubSeq(lines, n + 1, Len(lines)) \in Seq(S)
         /\ Len(SubSeq(lines, n + 1, Len(lines))) = Len(lines) - n
         /\ lines = SubSeq(lines, 1, n) \o SubSeq(lines, n + 1, Len(lines))
<1> DEFINE a == SubSeq(lines, 1, n)  b == SubSeq(lines, n + 1, Len(lines))
<1>1. a \in Seq(S) /\ Len(a) = n /\ \A i \in 1..n : a[i] = lines[i]
  OBVIOUS
<1>2. b \in Seq(S) /\ Len(b) = Len(lines) - n /\ \A i \in 1..(Len(lines) - n) : b[i] = lines[n + i]
  OBVIOUS
<1> HIDE DEF a, b
<1>3. /\ Len(a \o b) = Len(a) + Len(b)
      /\ \A i \in 1..(Len(a) + Len(b)) : (a \o b)[i] = IF i <= Len(a) THEN a[i] ELSE b[i - Len(a)]
  BY <1>1, <1>2, ConcatProperties
<1>4. \A i \in 1..Len(lines) : (a \o b)[i] = lines[i]
  <2> TAKE i \in 1..Len(lines)
  <2>1. CASE i <= n
    BY <1>1, <1>2, <1>3, <2>1
  <2>2. CASE i > n
    <3>1. (a \o b)[i] = b[i - n] /\ i - n \in 1..(Len(lines) - n)
      BY <1>1, <1>2, <1>3, <2>2
    <3>2. b[i - n] = lines[n + (i - n)]
      BY <1>2, <3>1
    <3>3. n + (i - n) = i
      OBVIOUS
    <3> QED
      BY <3>1, <3>2, <3>3
  <2>3. i <= n \/ i > n
    <3>1. Len(lines) \in Nat
      OBVIOUS
    <3> QED
      BY <3>1
  <2> QED
    BY <2>1, <2>2, <2>3
<1>5. a \o b \in Seq(S)
  BY <1>1, <1>2
<1>6. lines = a \o b
  <2>1. Len(a \o b) = Len(lines)
    BY <1>1, <1>2, <1>3
  <2> QED
    BY <2>1, <1>4, <1>5, SeqEqual
<1> QED
  BY <1>1, <1>2, <1>6 DEF a, b

LEMMA BytesCut ==
  ASSUME NEW lines \in Seq(Line), NEW n \in 0..Len(lines)
  PROVE  /\ Bytes(SubSeq(lines, 1, n)) \in Nat
         /\ Bytes(SubSeq(lines, n + 1, Len(lines))) \in Nat
         /\ Bytes(lines) = Bytes(SubSeq(lines, 1, n)) + Bytes(SubSeq(lines, n + 1, Len(lines)))
<1> DEFINE a == SubSeq(lines, 1, n)  b == SubSeq(lines, n + 1, Len(lines))
<1>1. a \in Seq(Line) /\ b \in Seq(Line) /\ lines = a \o b
  BY Cut
<1> HIDE DEF a, b
<1>2. Bytes(a \o b) = Bytes(a) + Bytes(b)
  BY <1>1, BytesConcat
<1> QED
  BY <1>1, <1>2, BytesTyped DEF a, b

-----------------------------------------------------------------------------
(* Files and the buffer                                                    *)

(* Nothing, or one line that does not parse.                               *)
IsPiece(s) == s = <<>> \/ \E n \in Nat \ {0} : s = <<Garbage(n)>>

(* What is kept of the file and of the lines by an append: a last line     *)
(* without newline goes, and takes the first line that is appended with it.*)
Parts(file, lines, old, mid, l, tail) ==
  /\ IsPiece(mid) /\ IsPiece(tail)
  /\ file.lines = old \/ (file.torn /\ \E x : file.lines = old \o <<x>>)
  /\ l = lines \/ (file.torn /\ lines # <<>> /\ l = Tail(lines))

Composed(file, lines, new, old, mid, l, tail, torn) ==
  /\ new = [lines |-> (old \o mid) \o (l \o tail), torn |-> torn]
  /\ torn => (old \o mid) \o (l \o tail) # <<>>
  /\ Parts(file, lines, old, mid, l, tail)

(* An append, part by part, whatever is known of the lines beside their    *)
(* sizes.                                                                  *)
LinesOf(S) == (\A n \in Nat \ {0} : Garbage(n) \in S) /\ (\A x \in S : x.size \in Nat \ {0})
FileOf(S) == {file \in [lines : Seq(S), torn : BOOLEAN] : file.torn => file.lines # <<>>}
Appended(S, file, lines, new) ==
  \E old, mid, l, tail \in Seq(S), torn \in BOOLEAN :
    Composed(file, lines, new, old, mid, l, tail, torn)

LEMMA AppendParts ==
  ASSUME NEW S, LinesOf(S), NEW file \in FileOf(S), NEW lines \in Seq(S), NEW end \in Ends
  PROVE  Appended(S, file, lines, AppendLines(file, lines, end))
<1> DEFINE tail == IF end = "part" THEN <<Garbage(2)>> ELSE <<>>
           text == lines \o tail
           L    == file.lines
           new  == AppendLines(file, lines, end)
<1>1. tail \in Seq(S) /\ IsPiece(tail) /\ <<>> \in Seq(S) /\ IsPiece(<<>>)
      /\ (tail = <<>> \/ tail = <<Garbage(2)>>)
  <2>1. 2 \in Nat \ {0}
    OBVIOUS
  <2>2. Garbage(2) \in S
    BY <2>1 DEF LinesOf
  <2>3. <<Garbage(2)>> \in Seq(S)
    BY <2>2
  <2> QED
    BY <2>1, <2>3 DEF IsPiece
<1>2. L \in Seq(S) /\ file.torn \in BOOLEAN /\ file = [lines |-> L, torn |-> file.torn]
      /\ (end # "line") \in BOOLEAN
      /\ (file.torn => L # <<>>)
  BY DEF FileOf
<1>3. new = IF text = <<>> THEN file
            ELSE [lines |-> IF file.torn
                            THEN Front(L) \o <<Garbage(Last(L).size - 1 + text[1].size)>> \o Tail(text)
                            ELSE L \o text,
                  torn  |-> end # "line"]
  BY DEF AppendLines
<1> HIDE DEF tail, new, L
<1>4. text \in Seq(S) /\ (text = <<>> <=> lines = <<>> /\ tail = <<>>)
  BY <1>1
<1>5. L \o <<>> = L /\ lines \o <<>> = lines /\ <<>> \o <<>> = <<>>
  BY <1>2, ConcatEmptySeq
<1>6. CASE text = <<>>
  <2>1. new = [lines |-> (L \o <<>>) \o (<<>> \o <<>>), torn |-> file.torn] /\ lines = <<>>
    BY <1>2, <1>3, <1>4, <1>5, <1>6
  <2>2. Parts(file, lines, L, <<>>, <<>>, <<>>)
    BY <1>1, <2>1 DEF Parts, L
  <2>3. file.torn => (L \o <<>>) \o (<<>> \o <<>>) # <<>>
    BY <1>2, <1>5
  <2> QED
    BY <1>1, <1>2, <2>1, <2>2, <2>3 DEF new, Composed, Appended
<1>7. CASE text # <<>> /\ ~file.torn
  <2>1. new = [lines |-> (L \o <<>>) \o (lines \o tail), torn |-> end # "line"]
    BY <1>3, <1>5, <1>7
  <2>2. Parts(file, lines, L, <<>>, lines, tail)
    BY <1>1 DEF Parts, L
  <2>3. (L \o <<>>) \o (lines \o tail) # <<>>
    <3>1. L \o text # <<>>
      BY <1>2, <1>4, <1>7
    <3> QED
      BY <1>5, <3>1
  <2> QED
    BY <1>1, <1>2, <2>1, <2>2, <2>3 DEF new, Composed, Appended
<1>8. CASE text # <<>> /\ file.torn
  <2> DEFINE old == Front(L)  x == Last(L)  k == x.size - 1 + text[1].size  g == Garbage(k)
  <2>1. L # <<>>
    BY <1>2, <1>8
  <2>2. old \in Seq(S) /\ x \in S /\ L = old \o <<x>>
    BY <1>2, <2>1 DEF Front, Last
  <2>3. text[1] \in S
    BY <1>4, <1>8
  <2>4. k \in Nat \ {0}
    <3> DEFINE a == x.size  b == text[1].size
    <3>1. a \in Nat \ {0} /\ b \in Nat \ {0}
      BY <2>2, <2>3 DEF LinesOf
    <3> HIDE DEF a, b
    <3>2. a - 1 + b \in Nat \ {0}
      BY <3>1
    <3> QED
      BY <3>2 DEF a, b
  <2>5. new = [lines |-> (old \o <<g>>) \o Tail(text), torn |-> end # "line"]
    BY <1>3, <1>8
  <2> HIDE DEF old, x, k
  <2>6. g \in S /\ IsPiece(<<g>>)
    BY <2>4 DEF IsPiece, LinesOf
  <2> HIDE DEF g
  <2>7. <<g>> \in Seq(S) /\ old \o <<g>> \in Seq(S)
    BY <2>2, <2>6
  <2>8. \A z \in Seq(S) : (old \o <<g>>) \o z # <<>>
    <3> TAKE z \in Seq(S)
    <3>1. Len(old \o <<g>>) = Len(old) + 1 /\ Len(old) \in Nat /\ Len(z) \in Nat
      BY <2>2, <2>7
    <3> DEFINE u == old \o <<g>>
    <3> HIDE DEF u
    <3>2. Len(u \o z) = Len(u) + Len(z)
      BY <2>7 DEF u
    <3>3. Len(u \o z) # 0
      BY <3>1, <3>2 DEF u
    <3> QED
      BY <3>3 DEF u
  <2>9. CASE lines = <<>>
    <3>1. text = <<Garbage(2)>>
      BY <1>1, <1>8, <2>9
    <3>2. Tail(text) = <<>> \o <<>>
      BY <3>1
    <3>3. Parts(file, lines, old, <<g>>, <<>>, <<>>)
      BY <1>1, <1>8, <2>2, <2>6, <2>9 DEF Parts, L
    <3>4. <<>> \o <<>> \in Seq(S)
      BY <1>1
    <3> QED
      BY <1>1, <1>2, <2>2, <2>5, <2>7, <2>8, <3>2, <3>3, <3>4 DEF new, Composed, Appended
  <2>10. CASE lines # <<>>
    <3>1. Tail(lines) \in Seq(S) /\ Tail(text) = Tail(lines) \o tail
      BY <1>1, <2>10
    <3>2. Parts(file, lines, old, <<g>>, Tail(lines), tail)
      BY <1>1, <1>8, <2>2, <2>6, <2>10 DEF Parts, L
    <3>3. Tail(lines) \o tail \in Seq(S)
      BY <1>1, <3>1
    <3> QED
      BY <1>1, <1>2, <2>2, <2>5, <2>7, <2>8, <3>1, <3>2, <3>3 DEF new, Composed, Appended
  <2> QED
    BY <2>9, <2>10
<1> QED
  BY <1>2, <1>6, <1>7, <1>8

LEMMA AppendTyped ==
  ASSUME NEW file \in File, NEW lines \in Seq(Line), NEW end \in Ends
  PROVE  AppendLines(file, lines, end) \in File
<1> DEFINE new == AppendLines(file, lines, end)
<1>1. file \in FileOf(Line)
  BY DEF File, FileOf
<1>2. LinesOf(Line)
  BY DEF Garbage, Line, LinesOf
<1>3. PICK old, mid, l, tail \in Seq(Line), torn \in BOOLEAN :
        Composed(file, lines, new, old, mid, l, tail, torn)
  <2>1. Appended(Line, file, lines, new)
    BY <1>1, <1>2, AppendParts
  <2> QED
    BY <2>1 DEF Appended
<1>4. (old \o mid) \o (l \o tail) \in Seq(Line)
  <2>1. old \o mid \in Seq(Line) /\ l \o tail \in Seq(Line)
    BY ConcatProperties
  <2> QED
    BY <2>1, ConcatProperties
<1> QED
  BY <1>3, <1>4 DEF File, Composed

LEMMA FileSizeTyped ==
  ASSUME NEW file \in File
  PROVE  FileSize(file) \in Nat
<1>1. file.lines \in Seq(Line)
  BY DEF File
<1>2. Bytes(file.lines) \in Nat
  BY <1>1, BytesTyped
<1> QED
  BY <1>2 DEF FileSize, Minus

LEMMA RemoveTyped ==
  ASSUME NEW S, NEW s \in Seq(S), NEW i \in DOMAIN s
  PROVE  RemoveAt(s, i) \in Seq(S)
<1>1. SubSeq(s, 1, i - 1) \in Seq(S) /\ SubSeq(s, i + 1, Len(s)) \in Seq(S)
  OBVIOUS
<1> QED
  BY <1>1, ConcatProperties DEF RemoveAt

LEMMA MinusTyped ==
  ASSUME NEW a \in Nat, NEW b \in Nat
  PROVE  Minus(a, b) \in Nat
BY DEF Minus

(* push_line evicts the fewest lines that make room, or all of them.       *)
LEMMA EvictedEnough ==
  ASSUME buffer \in Seq(Line), NEW size
  PROVE  /\ Evicted(size) \in 0..Len(buffer)
         /\ \/ Evicted(size) = Len(buffer)
            \/ /\ Len(buffer) - Evicted(size) < MaxEvents
               /\ Minus(bufferBytes, Bytes(SubSeq(buffer, 1, Evicted(size)))) + size <= MaxBytes
<1> DEFINE Fits(n) ==
      /\ Len(buffer) - n < MaxEvents
      /\ Minus(bufferBytes, Bytes(SubSeq(buffer, 1, n))) + size <= MaxBytes
    enough == {n \in 0..Len(buffer) : Fits(n)}
    fewest == CHOOSE n \in enough : \A m \in enough : n <= m
<1>1. Evicted(size) = IF enough = {} THEN Len(buffer) ELSE fewest
  BY DEF Evicted
<1>2. Len(buffer) \in 0..Len(buffer)
  OBVIOUS
<1>3. CASE enough # {}
  <2>1. enough \subseteq Nat
    OBVIOUS
  <2>2. \E n \in enough : \A m \in enough : n <= m
    <3> HIDE DEF enough
    <3> QED
      BY <1>3, <2>1, Sizing!SmallestNat
  <2>3. fewest \in enough
    <3> HIDE DEF enough
    <3> QED
      BY <2>2
  <2> HIDE DEF fewest
  <2>4. fewest \in 0..Len(buffer) /\ Fits(fewest)
    BY <2>3
  <2>5. Evicted(size) = fewest
    <3> HIDE DEF enough
    <3> QED
      BY <1>1, <1>3
  <2> QED
    BY <2>4, <2>5
<1>4. CASE enough = {}
  <2> HIDE DEF fewest
  <2> QED
    BY <1>1, <1>2, <1>4
<1> QED
  BY <1>3, <1>4

-----------------------------------------------------------------------------
(* Types                                                                   *)

LEMMA InitTyped == Init => TypeOK
BY LogAssumption DEF Init, TypeOK, NoFile, File

LEMMA OfferTyped ==
  ASSUME TypeOK, NEW size \in Sizes, Offer(size)
  PROVE  TypeOK'
<1>1. recorded' \in Nat
  BY DEF Offer, TypeOK
<1>2. channel' \in Seq(Event)
  <2> DEFINE event == [id |-> recorded', size |-> size]
  <2>1. event \in Event
    BY <1>1 DEF Event
  <2>2. channel' = Append(channel, event) \/ channel' = channel
    BY DEF Offer
  <2> HIDE DEF event
  <2> QED
    BY <2>1, <2>2 DEF TypeOK
<1> QED
  BY <1>1, <1>2 DEF Offer, TypeOK, disk

(* The line that push_line appends, and what is left of the buffer.        *)
LEMMA LineTyped ==
  ASSUME NEW id \in Nat, NEW r \in Nat, NEW q \in Nat, NEW size \in Nat \ {0}
  PROVE  [id |-> id, run |-> r, seq |-> q, size |-> size] \in Line
BY DEF Line

LEMMA HandleTyped ==
  ASSUME TypeOK, NEW sampled, Handle(sampled)
  PROVE  TypeOK'
<1> USE LogAssumption
<1>1. channel # <<>> /\ channel \in Seq(Event) /\ channel' = Tail(channel)
  BY DEF Handle, TypeOK
<1>2. Head(channel) \in Event /\ channel' \in Seq(Event)
  BY <1>1
<1> DEFINE size == Head(channel).size
           line == [id |-> Head(channel).id, run |-> run, seq |-> seq + 1, size |-> size]
           n    == Evicted(size)
           gone == SubSeq(buffer, 1, n)
           kept == SubSeq(buffer, n + 1, Len(buffer))
<1>3. size \in Nat \ {0}
  BY <1>2 DEF LogAssumption, Event
<1>4. line \in Line
  <2>1. Head(channel).id \in Nat /\ run \in Nat /\ seq + 1 \in Nat
    BY <1>2 DEF TypeOK, Event
  <2> QED
    BY <1>3, <2>1, LineTyped
<1>5. n \in 0..Len(buffer)
  BY EvictedEnough DEF TypeOK
<1>6. kept \in Seq(Line) /\ Bytes(gone) \in Nat
  BY <1>5, Cut, BytesCut DEF TypeOK
<1>7. \/ UNCHANGED <<buffer, bufferBytes, dropped, seq>>
      \/ seq' = seq + 1 /\ dropped' = dropped + 1 /\ UNCHANGED <<buffer, bufferBytes>>
      \/ /\ seq' = seq + 1 /\ dropped' = dropped + n
         /\ buffer' = Append(kept, line)
         /\ bufferBytes' = Minus(bufferBytes, Bytes(gone)) + size
  BY DEF Handle
<1>8. pc' \in {"idle", "write"} /\ UNCHANGED <<recorded, written, disk, up, scan, run, hit>>
  BY DEF Handle
<1> HIDE DEF size, line, n, gone, kept
<1>9. n \in Nat
  BY <1>5 DEF TypeOK
<1>10. Append(kept, line) \in Seq(Line)
  BY <1>4, <1>6
<1>11. Minus(bufferBytes, Bytes(gone)) + size \in Nat
  <2>1. Minus(bufferBytes, Bytes(gone)) \in Nat
    BY <1>6, MinusTyped DEF TypeOK
  <2> QED
    BY <1>3, <2>1
<1>12. buffer' \in Seq(Line) /\ bufferBytes' \in Nat /\ dropped' \in Nat /\ seq' \in Nat
  <2>1. dropped + 1 \in Nat /\ dropped + n \in Nat /\ seq + 1 \in Nat
    BY <1>9 DEF TypeOK
  <2> QED
    BY <1>7, <1>10, <1>11, <2>1 DEF TypeOK
<1> QED
  BY <1>2, <1>8, <1>12 DEF TypeOK, disk

LEMMA ReturnTyped ==
  ASSUME TypeOK, Return
  PROVE  /\ up' \in {"down", "starting", "running", "stopping", "dead"}
         /\ pc' \in {"idle", "write", "rotate", "prune"} /\ scan' \in Nat \ {0}
BY DEF Return

LEMMA ReturnErrorTyped ==
  ASSUME TypeOK, ReturnError
  PROVE  /\ up' \in {"down", "starting", "running", "stopping", "dead"}
         /\ pc' \in {"idle", "write", "rotate", "prune"} /\ scan' \in Nat \ {0}
         /\ channel' \in Seq(Event)
<1>1. CASE up = "starting"
  <2>1. up' = "dead" /\ pc' = "idle" /\ scan' = 1 /\ channel' = <<>>
    BY <1>1 DEF ReturnError
  <2>2. channel' \in Seq(Event)
    BY <2>1
  <2> QED
    BY <2>1, <2>2
<1>2. CASE up # "starting"
  <2>1. Return /\ channel' = channel
    BY <1>2 DEF ReturnError
  <2> QED
    BY <2>1, ReturnTyped DEF TypeOK
<1> QED
  BY <1>1, <1>2

LEMMA LeftTyped ==
  ASSUME NEW lines \in Seq(Line), NEW bytes \in Nat, Left(lines, bytes)
  PROVE  buffer' \in Seq(Line) /\ bufferBytes' \in Nat
<1>1. (buffer' = <<>> /\ bufferBytes' = 0) \/ (buffer' = lines /\ bufferBytes' = bytes)
  BY DEF Left
<1>2. <<>> \in Seq(Line) /\ 0 \in Nat
  OBVIOUS
<1> QED
  BY <1>1, <1>2

(* A write empties the buffer, or cuts it.                                 *)
LEMMA WriteTyped ==
  ASSUME TypeOK, Write \/ OpenFails
  PROVE  TypeOK'
<1>1. Bytes(buffer) \in Nat
  BY BytesTyped DEF TypeOK
<1>2. CASE Write
  <2>1. current' \in File
    BY <1>2, AppendTyped DEF Write, TypeOK, Ends
  <2>2. buffer' \in Seq(Line) /\ bufferBytes' \in Nat
    <3>1. buffer' = <<>> /\ bufferBytes' = Minus(bufferBytes, Bytes(buffer)) /\ bufferBytes \in Nat
      BY <1>2 DEF Write, TypeOK
    <3> QED
      BY <1>1, <3>1, MinusTyped
  <2>3. written' \in Nat
    BY <1>1, <1>2 DEF Write, TypeOK
  <2> QED
    BY <1>2, <2>1, <2>2, <2>3 DEF Write, TypeOK
<1>3. CASE OpenFails
  <2>1. hit' \subseteq Faults
    BY <1>3 DEF OpenFails, Hit, TypeOK
  <2>2. buffer' \in Seq(Line) /\ bufferBytes' \in Nat
    <3>1. Left(buffer, bufferBytes)
      BY <1>3 DEF OpenFails
    <3> QED
      BY <3>1, LeftTyped DEF TypeOK
  <2>3. /\ up' \in {"down", "starting", "running", "stopping", "dead"}
        /\ pc' \in {"idle", "write", "rotate", "prune"} /\ scan' \in Nat \ {0}
    BY <1>3, ReturnTyped DEF OpenFails
  <2> QED
    BY <1>3, <2>1, <2>2, <2>3 DEF OpenFails, TypeOK, disk
<1> QED
  BY <1>2, <1>3

LEMMA WriteFailsTyped ==
  ASSUME TypeOK, NEW i \in 1..MaxEvents, NEW n \in 0..MaxEvents, NEW end \in Ends,
         WriteFails(i, n, end)
  PROVE  TypeOK'
<1> USE LogAssumption
<1>1. i \in 1..Len(buffer) /\ n \in 0..Len(buffer) /\ i - 1 \in 0..Len(buffer)
  <2>1. Len(buffer) \in Nat /\ DOMAIN buffer = 1..Len(buffer)
    BY DEF TypeOK
  <2>2. i \in DOMAIN buffer /\ n <= i /\ n \in Nat
    BY DEF WriteFails
  <2> QED
    BY <2>1, <2>2
<1>2. SubSeq(buffer, 1, n) \in Seq(Line) /\ SubSeq(buffer, i + 1, Len(buffer)) \in Seq(Line)
  <2>1. buffer \in Seq(Line) /\ i \in 0..Len(buffer)
    BY <1>1 DEF TypeOK
  <2> QED
    BY <1>1, <2>1, Cut
<1>3. Bytes(SubSeq(buffer, 1, i - 1)) \in Nat
  BY <1>1, BytesCut DEF TypeOK
<1>4. current' \in File
  BY <1>2, AppendTyped DEF WriteFails, TypeOK
<1>5. buffer' \in Seq(Line) /\ bufferBytes' \in Nat
  <2>1. Left(SubSeq(buffer, i + 1, Len(buffer)),
             Minus(bufferBytes, Bytes(SubSeq(buffer, 1, i - 1))))
    BY DEF WriteFails
  <2>2. Minus(bufferBytes, Bytes(SubSeq(buffer, 1, i - 1))) \in Nat
    BY <1>3, MinusTyped DEF TypeOK
  <2> QED
    BY <1>2, <2>1, <2>2, LeftTyped
<1>6. written' \in Nat /\ hit' \subseteq Faults
  <2> DEFINE gone == Bytes(SubSeq(buffer, 1, i - 1))
  <2>1. gone \in Nat /\ written' = written + gone /\ written \in Nat
    BY <1>3 DEF WriteFails, TypeOK
  <2> HIDE DEF gone
  <2>2. written' \in Nat
    BY <2>1
  <2>3. hit' \subseteq Faults
    BY DEF WriteFails, Hit, TypeOK
  <2> QED
    BY <2>2, <2>3
<1>7. /\ up' \in {"down", "starting", "running", "stopping", "dead"}
      /\ pc' \in {"idle", "write", "rotate", "prune"} /\ scan' \in Nat \ {0}
  BY ReturnTyped DEF WriteFails
<1> QED
  BY <1>4, <1>5, <1>6, <1>7 DEF WriteFails, TypeOK

LEMMA FlushFailsTyped ==
  ASSUME TypeOK, NEW n \in 0..MaxEvents, NEW end \in Ends, FlushFails(n, end)
  PROVE  TypeOK'
<1>1. n \in 0..Len(buffer)
  BY LogAssumption DEF FlushFails, TypeOK, LogAssumption
<1>2. SubSeq(buffer, 1, n) \in Seq(Line)
  BY <1>1, Cut DEF TypeOK
<1>3. Bytes(buffer) \in Nat
  BY BytesTyped DEF TypeOK
<1>4. current' \in File
  BY <1>2, AppendTyped DEF FlushFails, TypeOK
<1>5. buffer' \in Seq(Line) /\ bufferBytes' \in Nat
  BY <1>3, MinusTyped DEF FlushFails, TypeOK
<1>6. written' \in Nat /\ hit' \subseteq Faults
  <2> DEFINE gone == Bytes(buffer)
  <2>1. gone \in Nat /\ written' = written + gone /\ written \in Nat
    BY <1>3 DEF FlushFails, TypeOK
  <2> HIDE DEF gone
  <2>2. written' \in Nat
    BY <2>1
  <2>3. hit' \subseteq Faults
    BY DEF FlushFails, Hit, TypeOK
  <2> QED
    BY <2>2, <2>3
<1>7. /\ up' \in {"down", "starting", "running", "stopping", "dead"}
      /\ pc' \in {"idle", "write", "rotate", "prune"} /\ scan' \in Nat \ {0}
  BY ReturnTyped DEF FlushFails
<1> QED
  BY <1>4, <1>5, <1>6, <1>7 DEF FlushFails, TypeOK

(* A rotation moves the file to the rotated ones, or over the last of them.*)
LEMMA RotationTyped ==
  ASSUME TypeOK, Rotate \/ RotateOver \/ RenameFails
  PROVE  TypeOK'
<1>1. NoFile \in File
  BY DEF NoFile, File
<1>2. CASE Rotate
  <2>1. written' \in {0, written} /\ current' \in {NoFile, current}
        /\ rotated' \in {rotated, Append(rotated, current)}
    BY <1>2 DEF Rotate, disk
  <2>2. Append(rotated, current) \in Seq(File)
    BY DEF TypeOK
  <2>3. written' \in Nat /\ current' \in File /\ rotated' \in Seq(File)
    BY <1>1, <2>1, <2>2 DEF TypeOK
  <2> QED
    BY <1>2, <2>3 DEF Rotate, TypeOK, memory
<1>3. CASE RotateOver
  <2>1. rotated' \in Seq(File)
    BY <1>3 DEF RotateOver, TypeOK
  <2>2. hit' \subseteq Faults
    BY <1>3 DEF RotateOver, Hit, TypeOK
  <2> QED
    BY <1>1, <1>3, <2>1, <2>2 DEF RotateOver, TypeOK, memory
<1>4. CASE RenameFails
  <2>1. hit' \subseteq Faults
    BY <1>4 DEF RenameFails, Hit, TypeOK
  <2> QED
    BY <1>4, <2>1, ReturnErrorTyped DEF RenameFails, TypeOK, disk
<1> QED
  BY <1>2, <1>3, <1>4

LEMMA PruningTyped ==
  ASSUME TypeOK, RemoveOldest \/ RemoveFails \/ ListFails \/ PruneDone
  PROVE  TypeOK'
<1>1. CASE RemoveOldest
  <2>1. rotated' \in Seq(File)
    BY <1>1, RemoveTyped DEF RemoveOldest, TypeOK
  <2> QED
    BY <1>1, <2>1 DEF RemoveOldest, TypeOK, memory
<1>2. CASE RemoveFails
  BY <1>2 DEF RemoveFails, Hit, TypeOK, memory, disk
<1>3. CASE ListFails
  <2>1. hit' \subseteq Faults
    BY <1>3 DEF ListFails, Hit, TypeOK
  <2> QED
    BY <1>3, <2>1, ReturnErrorTyped DEF ListFails, TypeOK, disk
<1>4. CASE PruneDone
  BY <1>4, ReturnTyped DEF PruneDone, TypeOK, memory, disk
<1> QED
  BY <1>1, <1>2, <1>3, <1>4

LEMMA ProcessTyped ==
  ASSUME TypeOK, Start \/ Stop \/ FlushTick
  PROVE  TypeOK'
<1>1. CASE Start
  <2>1. FileSize(current) \in Nat
    BY FileSizeTyped DEF TypeOK
  <2>2. written' \in Nat /\ hit' \subseteq Faults
    BY <1>1, <2>1 DEF Start, Hit, TypeOK
  <2> QED
    BY <1>1, <2>2 DEF Start, Forget, TypeOK, disk
<1>2. CASE Stop
  BY <1>2 DEF Stop, TypeOK, disk
<1>3. CASE FlushTick
  BY <1>3 DEF FlushTick, TypeOK, memory, disk
<1> QED
  BY <1>1, <1>2, <1>3

LEMMA CrashTyped ==
  ASSUME TypeOK, NEW n \in 0..MaxEvents, NEW end \in Ends, Crash(n, end)
  PROVE  TypeOK'
<1>1. current' \in File
  <2>1. CASE pc = "write"
    <3>1. n \in 0..Len(buffer)
      BY <2>1, LogAssumption DEF Crash, TypeOK, LogAssumption
    <3>2. SubSeq(buffer, 1, n) \in Seq(Line)
      BY <3>1, Cut DEF TypeOK
    <3>3. current' = AppendLines(current, SubSeq(buffer, 1, n), end)
      BY <2>1 DEF Crash
    <3> QED
      BY <3>2, <3>3, AppendTyped DEF TypeOK
  <2>2. CASE pc # "write"
    BY <2>2 DEF Crash, TypeOK
  <2> QED
    BY <2>1, <2>2
<1> QED
  BY <1>1 DEF Crash, Forget, TypeOK

LEMMA NextTyped ==
  ASSUME TypeOK, [Next]_vars
  PROVE  TypeOK'
<1>1. CASE UNCHANGED vars
  BY <1>1 DEF vars, memory, disk, TypeOK
<1>2. CASE \E size \in Sizes : Offer(size)
  BY <1>2, OfferTyped
<1>3. CASE \E sampled \in SampleAnswers : Handle(sampled)
  BY <1>3, HandleTyped
<1>4. CASE FileStep
  BY <1>4, WriteTyped, WriteFailsTyped, FlushFailsTyped, RotationTyped, PruningTyped DEF FileStep
<1>5. CASE FlushTick \/ Start \/ Stop
  BY <1>5, ProcessTyped
<1>6. CASE \E n \in 0..MaxEvents, end \in Ends : Crash(n, end)
  BY <1>6, CrashTyped
<1> QED
  BY <1>1, <1>2, <1>3, <1>4, <1>5, <1>6 DEF Next, LoggerStep

(***************************************************************************)
(* Every variable of the event log keeps its type: the files stay          *)
(* sequences of lines of which only the last may lack its newline, and the *)
(* counters of EventLogger never go below zero (saturating_sub).           *)
(***************************************************************************)
THEOREM LogTyped == Spec => []TypeOK
<1>1. Init => TypeOK
  BY InitTyped
<1>2. TypeOK /\ [Next]_vars => TypeOK'
  BY NextTyped
<1> QED
  BY <1>1, <1>2, PTL DEF Spec

-----------------------------------------------------------------------------
(* The limits of the buffer                                                *)

LEMMA InitCovered == Init => BufferBytesCoverBuffer
BY BytesEmpty, LogAssumption DEF Init, BufferBytesCoverBuffer, LogAssumption

(* A step that leaves the buffer alone leaves it covered.                  *)
LEMMA SameCovered ==
  ASSUME BufferBytesCoverBuffer, UNCHANGED <<buffer, bufferBytes>>, hit \subseteq hit'
  PROVE  BufferBytesCoverBuffer'
BY DEF BufferBytesCoverBuffer

(* So does one that empties it and the count.                              *)
LEMMA EmptyCovered ==
  ASSUME buffer' = <<>>, bufferBytes' = 0
  PROVE  BufferBytesCoverBuffer'
<1>1. Bytes(buffer') = 0 /\ Len(buffer') = 0
  BY BytesEmpty
<1>2. MaxEvents \in Nat /\ MaxBytes \in Nat
  BY LogAssumption DEF LogAssumption
<1> QED
  BY <1>1, <1>2 DEF BufferBytesCoverBuffer

(* What saturating_sub leaves of the count of a longer buffer.             *)
LEMMA MinusCovers ==
  ASSUME NEW count \in Nat, NEW gone \in Nat, NEW kept \in Nat, count >= gone + kept
  PROVE  /\ Minus(count, gone) >= kept
         /\ count = gone + kept => Minus(count, gone) = kept
BY DEF Minus

(* push_line makes room for the line before it appends it.  A line that no *)
(* eviction makes room for finds an empty buffer, and fits in it alone.    *)
LEMMA HandleCovered ==
  ASSUME MaxEvents >= 1, TypeOK, BufferBytesCoverBuffer, NEW sampled, Handle(sampled)
  PROVE  BufferBytesCoverBuffer'
<1> DEFINE size == Head(channel).size
           line == [id |-> Head(channel).id, run |-> run, seq |-> seq + 1, size |-> size]
           n    == Evicted(size)
           gone == SubSeq(buffer, 1, n)
           kept == SubSeq(buffer, n + 1, Len(buffer))
<1>1. size \in Nat \ {0} /\ line \in Line /\ line.size = size
  <2>1. channel # <<>> /\ channel \in Seq(Event)
    BY DEF Handle, TypeOK
  <2>2. Head(channel) \in Event
    BY <2>1
  <2>3. size \in Nat \ {0} /\ Head(channel).id \in Nat /\ run \in Nat /\ seq + 1 \in Nat
    <3>1. Head(channel).size \in Sizes /\ Head(channel).id \in Nat
      BY <2>2 DEF Event
    <3>2. Sizes \subseteq Nat \ {0}
      BY LogAssumption DEF LogAssumption
    <3>3. run \in Nat /\ seq + 1 \in Nat
      BY DEF TypeOK
    <3> QED
      BY <3>1, <3>2, <3>3
  <2>4. line \in Line
    BY <2>3, LineTyped
  <2> QED
    BY <2>3, <2>4
<1>2. /\ buffer \in Seq(Line) /\ Len(buffer) \in Nat /\ bufferBytes \in Nat
      /\ MaxEvents \in Nat /\ MaxBytes \in Nat
  BY LogAssumption DEF TypeOK, LogAssumption
<1>3. /\ n \in 0..Len(buffer)
      /\ \/ n = Len(buffer)
         \/ /\ Len(buffer) - n < MaxEvents
            /\ Minus(bufferBytes, Bytes(gone)) + size <= MaxBytes
  BY <1>2, EvictedEnough
<1>4. /\ kept \in Seq(Line) /\ Len(kept) = Len(buffer) - n
      /\ Bytes(gone) \in Nat /\ Bytes(kept) \in Nat
      /\ Bytes(buffer) = Bytes(gone) + Bytes(kept)
  BY <1>2, <1>3, Cut, BytesCut
<1>5. \/ UNCHANGED <<buffer, bufferBytes>>
      \/ /\ size <= MaxBytes
         /\ buffer' = Append(kept, line)
         /\ bufferBytes' = Minus(bufferBytes, Bytes(gone)) + size
  BY DEF Handle
<1>6. hit' = hit
  BY DEF Handle
<1> HIDE DEF size, line, n, gone, kept
<1>7. CASE UNCHANGED <<buffer, bufferBytes>>
  BY <1>6, <1>7, SameCovered
<1>8. CASE /\ size <= MaxBytes
           /\ buffer' = Append(kept, line)
           /\ bufferBytes' = Minus(bufferBytes, Bytes(gone)) + size
  <2>1. Bytes(buffer') = Bytes(kept) + size
    <3> DEFINE one == <<line>>
    <3>1. one \in Seq(Line) /\ Append(kept, line) = kept \o one
      BY <1>1, <1>4
    <3>2. Bytes(one) = size
      BY <1>1, BytesOne
    <3> HIDE DEF one
    <3>3. Bytes(kept \o one) = Bytes(kept) + Bytes(one)
      BY <1>4, <3>1, BytesConcat
    <3> QED
      BY <1>8, <3>1, <3>2, <3>3
  <2>2. Len(buffer') = (Len(buffer) - n) + 1
    BY <1>1, <1>4, <1>8
  <2>3. /\ Minus(bufferBytes, Bytes(gone)) \in Nat
        /\ Minus(bufferBytes, Bytes(gone)) >= Bytes(kept)
        /\ bufferBytes = Bytes(buffer) => Minus(bufferBytes, Bytes(gone)) = Bytes(kept)
    <3>1. bufferBytes >= Bytes(gone) + Bytes(kept)
      BY <1>4 DEF BufferBytesCoverBuffer
    <3>2. Minus(bufferBytes, Bytes(gone)) \in Nat
      BY <1>2, <1>4, MinusTyped
    <3>3. /\ Minus(bufferBytes, Bytes(gone)) >= Bytes(kept)
          /\ bufferBytes = Bytes(gone) + Bytes(kept)
               => Minus(bufferBytes, Bytes(gone)) = Bytes(kept)
      BY <1>2, <1>4, <3>1, MinusCovers
    <3> QED
      BY <1>4, <3>2, <3>3
  <2>4. Len(buffer') <= MaxEvents
    BY <1>2, <1>3, <2>2
  <2>5. Bytes(buffer') <= MaxBytes
    <3>1. CASE n = Len(buffer)
      <4>1. Len(kept) = 0
        BY <1>2, <1>4, <3>1
      <4>2. kept = <<>>
        BY <1>4, <4>1
      <4> QED
        BY <1>1, <1>8, <2>1, <4>2, BytesEmpty
    <3>2. CASE Minus(bufferBytes, Bytes(gone)) + size <= MaxBytes
      BY <1>1, <1>2, <1>4, <2>1, <2>3, <3>2
    <3> QED
      BY <1>3, <3>1, <3>2
  <2>6. bufferBytes' >= Bytes(buffer')
    BY <1>1, <1>4, <1>8, <2>1, <2>3
  <2>7. "write" \notin hit' => bufferBytes' = Bytes(buffer')
    BY <1>6, <1>8, <2>1, <2>3 DEF BufferBytesCoverBuffer
  <2> QED
    BY <2>4, <2>5, <2>6, <2>7 DEF BufferBytesCoverBuffer
<1> QED
  BY <1>5, <1>7, <1>8

(* flush_buffer counts down what it writes; after its last line nothing is *)
(* left, but what a cut write did not count down.                          *)
LEMMA WriteCovered ==
  ASSUME TypeOK, BufferBytesCoverBuffer,
         buffer' = <<>>, bufferBytes' = Minus(bufferBytes, Bytes(buffer)), hit \subseteq hit'
  PROVE  BufferBytesCoverBuffer'
<1>1. Bytes(buffer) \in Nat /\ bufferBytes \in Nat
  BY BytesTyped DEF TypeOK
<1>2. /\ bufferBytes' \in Nat
      /\ bufferBytes = Bytes(buffer) => bufferBytes' = 0
  BY <1>1 DEF Minus
<1>3. Bytes(buffer') = 0 /\ Len(buffer') = 0
  BY BytesEmpty
<1>4. MaxEvents \in Nat /\ MaxBytes \in Nat
  BY LogAssumption DEF LogAssumption
<1> QED
  BY <1>2, <1>3, <1>4 DEF BufferBytesCoverBuffer

LEMMA LeftCovered ==
  ASSUME NEW lines \in Seq(Line), NEW bytes \in Nat, Left(lines, bytes),
         Len(lines) <= MaxEvents, Bytes(lines) <= MaxBytes, bytes >= Bytes(lines),
         "write" \notin hit' => bytes = Bytes(lines)
  PROVE  BufferBytesCoverBuffer'
<1>1. CASE buffer' = <<>> /\ bufferBytes' = 0
  BY <1>1, EmptyCovered
<1>2. CASE buffer' = lines /\ bufferBytes' = bytes
  BY <1>2 DEF BufferBytesCoverBuffer
<1> QED
  BY <1>1, <1>2 DEF Left

(* The line of a failed write leaves the buffer and stays counted.         *)
LEMMA WriteFailsCovered ==
  ASSUME TypeOK, BufferBytesCoverBuffer, NEW i, NEW n, NEW end, WriteFails(i, n, end)
  PROVE  BufferBytesCoverBuffer'
<1> DEFINE kept  == SubSeq(buffer, i + 1, Len(buffer))
           upTo  == SubSeq(buffer, 1, i)
           popped == SubSeq(buffer, 1, i - 1)
           bytes == Minus(bufferBytes, Bytes(popped))
<1>1. /\ buffer \in Seq(Line) /\ Len(buffer) \in Nat /\ bufferBytes \in Nat
      /\ MaxEvents \in Nat /\ MaxBytes \in Nat
  BY LogAssumption DEF TypeOK, LogAssumption
<1>2. i \in 1..Len(buffer) /\ "write" \in hit' /\ Left(kept, bytes)
  BY <1>1 DEF WriteFails, Hit
<1>3. /\ kept \in Seq(Line) /\ Len(kept) = Len(buffer) - i
      /\ Bytes(kept) \in Nat /\ Bytes(upTo) \in Nat
      /\ Bytes(buffer) = Bytes(upTo) + Bytes(kept)
  BY <1>1, <1>2, Cut, BytesCut
<1>4. Bytes(popped) \in Nat /\ Bytes(popped) <= Bytes(upTo)
  <2>1. upTo \in Seq(Line) /\ Len(upTo) = i /\ i - 1 \in 0..i
    BY <1>1, <1>2, Cut
  <2>2. SubSeq(upTo, 1, i - 1) = popped
    BY <1>1, <1>2
  <2> HIDE DEF upTo, popped
  <2>3. /\ Bytes(SubSeq(upTo, 1, i - 1)) \in Nat
        /\ Bytes(SubSeq(upTo, (i - 1) + 1, Len(upTo))) \in Nat
        /\ Bytes(upTo) = Bytes(SubSeq(upTo, 1, i - 1))
                           + Bytes(SubSeq(upTo, (i - 1) + 1, Len(upTo)))
    BY <2>1, BytesCut
  <2>4. ASSUME NEW a \in Nat, NEW b \in Nat, NEW c, c = a + b
        PROVE  a <= c
    BY <2>4
  <2> QED
    BY <2>2, <2>3, <2>4
<1> HIDE DEF kept, upTo, popped
<1>5. bytes \in Nat /\ bytes >= Bytes(kept)
  <2>1. bufferBytes >= Bytes(popped) + Bytes(kept)
    BY <1>1, <1>3, <1>4 DEF BufferBytesCoverBuffer
  <2> QED
    BY <1>1, <1>3, <1>4, <2>1, MinusCovers, MinusTyped
<1>6. Len(kept) <= MaxEvents /\ Bytes(kept) <= MaxBytes
  BY <1>1, <1>2, <1>3 DEF BufferBytesCoverBuffer
<1> HIDE DEF bytes
<1> QED
  BY <1>2, <1>3, <1>5, <1>6, LeftCovered

LEMMA OpenFailsCovered ==
  ASSUME TypeOK, BufferBytesCoverBuffer, OpenFails
  PROVE  BufferBytesCoverBuffer'
<1>1. Left(buffer, bufferBytes) /\ hit \subseteq hit'
  BY DEF OpenFails, Hit
<1>2. buffer \in Seq(Line) /\ bufferBytes \in Nat
  BY DEF TypeOK
<1> QED
  BY <1>1, <1>2, LeftCovered DEF BufferBytesCoverBuffer

LEMMA NextCovered ==
  ASSUME MaxEvents >= 1, TypeOK, BufferBytesCoverBuffer, [Next]_vars
  PROVE  BufferBytesCoverBuffer'
<1>1. CASE \/ UNCHANGED vars \/ \E size \in Sizes : Offer(size)
           \/ FlushTick \/ Stop
           \/ Rotate \/ RotateOver \/ RenameFails
           \/ RemoveOldest \/ RemoveFails \/ ListFails \/ PruneDone
  <2>1. UNCHANGED <<buffer, bufferBytes>>
    BY <1>1 DEF vars, memory, disk, Offer, FlushTick, Stop, Rotate, RotateOver, RenameFails,
                RemoveOldest, RemoveFails, ListFails, PruneDone
  <2>2. hit \subseteq hit'
    BY <1>1 DEF vars, memory, disk, Offer, FlushTick, Stop, Rotate, RotateOver, RenameFails,
                RemoveOldest, RemoveFails, ListFails, PruneDone, Hit
  <2> QED
    BY <2>1, <2>2, SameCovered
<1>2. CASE \E sampled \in SampleAnswers : Handle(sampled)
  BY <1>2, HandleCovered
<1>3. CASE Write \/ \E n \in 0..MaxEvents, end \in Ends : FlushFails(n, end)
  <2>1. buffer' = <<>> /\ bufferBytes' = Minus(bufferBytes, Bytes(buffer)) /\ hit \subseteq hit'
    BY <1>3 DEF Write, FlushFails, Hit
  <2> QED
    BY <2>1, WriteCovered
<1>4. CASE \E i \in 1..MaxEvents, n \in 0..MaxEvents, end \in Ends : WriteFails(i, n, end)
  BY <1>4, WriteFailsCovered
<1>5. CASE OpenFails
  BY <1>5, OpenFailsCovered
<1>6. CASE Start \/ \E n \in 0..MaxEvents, end \in Ends : Crash(n, end)
  <2>1. buffer' = <<>> /\ bufferBytes' = 0
    BY <1>6 DEF Start, Crash, Forget
  <2> QED
    BY <2>1, EmptyCovered
<1> QED
  BY <1>1, <1>2, <1>3, <1>4, <1>5, <1>6 DEF Next, LoggerStep, FileStep

(***************************************************************************)
(* The buffer keeps its limits of events and bytes, because buffer_bytes   *)
(* never counts less than the buffer holds, and counts it exactly until a  *)
(* write is cut short.  A buffer for no event at all would break the limit *)
(* with the first one.                                                     *)
(***************************************************************************)
THEOREM BufferStaysBounded ==
  ASSUME MaxEvents >= 1
  PROVE  Spec => []BufferBytesCoverBuffer
<1>1. Init => BufferBytesCoverBuffer
  BY InitCovered
<1>2. TypeOK /\ BufferBytesCoverBuffer /\ [Next]_vars => BufferBytesCoverBuffer'
  BY NextCovered
<1>3. Spec => []TypeOK
  BY LogTyped
<1> QED
  BY <1>1, <1>2, <1>3, PTL DEF Spec

-----------------------------------------------------------------------------
(* Picking from a sequence                                                 *)

(* The numbers of P, in increasing order.                                  *)
Listing(P, m, f) ==
  /\ m \in Nat /\ f \in [1..m -> P]
  /\ \A i, j \in 1..m : i < j => f[i] < f[j]
  /\ \A p \in P : \E i \in 1..m : f[i] = p

(* The first n of them.                                                    *)
Upto(f, n) == {f[k] : k \in 1..n}

(* The elements of s that f lists.                                         *)
Listed(s, f, m) == [i \in 1..m |-> s[f[i]]]

(* The module that states the log counts with its own copy of Cardinality. *)
LEMMA SameCardinality == \A S : Log!Cardinality(S) = Cardinality(S)
BY DEF Log!Cardinality, Cardinality

(* The first n that are listed are n.                                      *)
LEMMA ListingCounts ==
  ASSUME NEW P \in SUBSET Nat, NEW m, NEW f, Listing(P, m, f), NEW n \in 0..m
  PROVE  Cardinality(Upto(f, n)) = n
<1> DEFINE T == Upto(f, n)
           g == [k \in 1..n |-> f[k]]
<1>1. m \in Nat /\ n \in Nat /\ \A i \in 1..n : i \in 1..m /\ f[i] \in Nat
  <2>1. m \in Nat /\ f \in [1..m -> P]
    BY DEF Listing
  <2>2. \A i \in 1..m : f[i] \in Nat
    BY <2>1
  <2> QED
    BY <2>1, <2>2
<1>2. \A i, j \in 1..n : f[i] = f[j] => i = j
  <2> SUFFICES ASSUME NEW i \in 1..n, NEW j \in 1..n, f[i] = f[j]
               PROVE  i = j
    OBVIOUS
  <2>1. ~(f[i] < f[j]) /\ ~(f[j] < f[i])
    BY <1>1
  <2> QED
    BY <1>1, <2>1 DEF Listing
<1>3. g \in [1..n -> T] /\ \A t \in T : \E k \in 1..n : g[k] = t
  BY DEF Upto
<1>4. g \in Bijection(1..n, T)
  <2>1. \A i, j \in 1..n : g[i] = g[j] => i = j
    BY <1>2
  <2> HIDE DEF g, T
  <2> QED
    BY <1>3, <2>1 DEF Bijection, Injection, IsInjective, Surjection
<1>5. IsFiniteSet(1..n) /\ Cardinality(1..n) = n
  <2>1. 1 \in Int /\ n \in Int
    BY <1>1
  <2>2. Cardinality(1..n) = IF 1 > n THEN 0 ELSE n - 1 + 1
    BY <2>1, FS_Interval
  <2> QED
    BY <1>1, <2>1, <2>2, FS_Interval
<1> HIDE DEF g, T
<1>6. IsFiniteSet(T) /\ Cardinality(T) = Cardinality(1..n)
  <2>1. ExistsBijection(1..n, T)
    BY <1>4 DEF ExistsBijection
  <2> QED
    BY <1>5, <2>1, FS_Bijection
<1> QED
  BY <1>5, <1>6 DEF T

(* The i-th that is listed has rank i among them.                          *)
LEMMA RankListing ==
  ASSUME NEW P \in SUBSET Nat, NEW m, NEW f, Listing(P, m, f), NEW i \in 1..m
  PROVE  Cardinality({k \in P : k <= f[i]}) = i
<1>0. m \in Nat /\ \A j \in 1..m : f[j] \in P
  BY DEF Listing
<1>1. {k \in P : k <= f[i]} \subseteq Upto(f, i)
  <2> SUFFICES ASSUME NEW k \in P, k <= f[i] PROVE \E h \in 1..i : f[h] = k
    BY DEF Upto
  <2>1. PICK h \in 1..m : f[h] = k
    BY DEF Listing
  <2>2. ~(i < h)
    <3>1. f[h] \in Nat /\ f[i] \in Nat
      BY <1>0
    <3>2. i < h => f[i] < f[h]
      BY DEF Listing
    <3> QED
      BY <2>1, <3>1, <3>2
  <2> QED
    BY <1>0, <2>1, <2>2
<1>2. Upto(f, i) \subseteq {k \in P : k <= f[i]}
  <2> SUFFICES ASSUME NEW h \in 1..i PROVE f[h] \in P /\ f[h] <= f[i]
    BY DEF Upto
  <2>1. h \in 1..m /\ (h = i \/ h < i)
    BY <1>0
  <2>2. f[h] \in Nat /\ f[i] \in Nat /\ f[h] \in P
    BY <1>0, <2>1
  <2>3. h < i => f[h] < f[i]
    BY <2>1 DEF Listing
  <2> QED
    BY <2>1, <2>2, <2>3
<1>3. i \in 0..m
  BY <1>0
<1>4. {k \in P : k <= f[i]} = Upto(f, i)
  BY <1>1, <1>2
<1>5. Cardinality(Upto(f, i)) = i
  BY <1>3, ListingCounts
<1> QED
  BY <1>4, <1>5

(* Picking follows the listing.                                            *)
LEMMA PickListing ==
  ASSUME NEW P \in SUBSET Nat, NEW m, NEW f, Listing(P, m, f), NEW s
  PROVE  /\ Cardinality(P) = m
         /\ Log!Pick(s, P) = Listed(s, f, m)
<1>1. m \in Nat /\ \A i \in 1..m : f[i] \in P
  BY DEF Listing
<1>2. P = Upto(f, m)
  BY DEF Listing, Upto
<1>3. Cardinality(P) = m
  <2>1. m \in 0..m
    BY <1>1
  <2> QED
    BY <1>2, <2>1, ListingCounts
<1>4. \A i \in 1..m : Cardinality({k \in P : k <= f[i]}) = i
  BY RankListing
<1>5. \A i \in 1..m : (CHOOSE j \in P : Log!Cardinality({k \in P : k <= j}) = i) = f[i]
  <2> SUFFICES ASSUME NEW i \in 1..m
               PROVE  (CHOOSE j \in P : Log!Cardinality({k \in P : k <= j}) = i) = f[i]
    OBVIOUS
  <2>1. f[i] \in P /\ Log!Cardinality({k \in P : k <= f[i]}) = i
    BY <1>1, <1>4, SameCardinality
  <2>2. \A j \in P : Log!Cardinality({k \in P : k <= j}) = i => j = f[i]
    <3> SUFFICES ASSUME NEW j \in P, Log!Cardinality({k \in P : k <= j}) = i PROVE j = f[i]
      OBVIOUS
    <3>1. PICK h \in 1..m : f[h] = j
      BY DEF Listing
    <3>2. Log!Cardinality({k \in P : k <= f[h]}) = h
      BY <1>4, SameCardinality
    <3> QED
      BY <3>1, <3>2
  <2> QED
    BY <2>1, <2>2
<1>6. Log!Pick(s, P) =
        [i \in 1..m |-> s[CHOOSE j \in P : Log!Cardinality({k \in P : k <= j}) = i]]
  <2>1. Log!Cardinality(P) = m
    BY <1>3, SameCardinality
  <2> QED
    BY <2>1, Zenon DEF Log!Pick
<1>7. Log!Pick(s, P) = [i \in 1..m |-> s[f[i]]]
  BY <1>5, <1>6, Zenon
<1> QED
  BY <1>3, <1>7 DEF Listed

(* A set of positions has a listing.                                       *)
LEMMA ListingExists ==
  ASSUME NEW n \in Nat, NEW P \in SUBSET (1..n)
  PROVE  \E m, f : Listing(P, m, f)
<1> DEFINE T == {k \in Nat : \E Q \in SUBSET (1..k) : ~\E m, f : Listing(Q, m, f)}
<1>1. CASE T = {}
  <2>1. n \notin T
    BY <1>1
  <2> QED
    BY <2>1
<1>2. CASE T # {}
  <2>1. PICK k \in T : \A l \in T : k <= l
    <3>1. T \subseteq Nat
      OBVIOUS
    <3> HIDE DEF T
    <3> QED
      BY <1>2, <3>1, Sizing!SmallestNat
  <2>2. PICK Q \in SUBSET (1..k) : ~\E m, f : Listing(Q, m, f)
    BY <2>1
  <2>3. k \in Nat
    BY <2>1
  <2> HIDE DEF T
  <2>4. Q # {}
    <3>1. SUFFICES ASSUME Q = {} PROVE FALSE
      OBVIOUS
    <3>2. Listing({}, 0, <<>>)
      BY DEF Listing
    <3> QED
      BY <2>2, <3>1, <3>2
  <2>5. k # 0
    <3>1. PICK q \in Q : q \in 1..k
      BY <2>4
    <3> QED
      BY <2>3, <3>1
  <2>6. k - 1 \in Nat /\ k - 1 \notin T
    BY <2>1, <2>3, <2>5
  <2>7. Q \ {k} \in SUBSET (1..(k - 1))
    BY <2>3
  <2>8. PICK m, f : Listing(Q \ {k}, m, f)
    BY <2>6, <2>7 DEF T
  <2>9. m \in Nat /\ f \in [1..m -> Q \ {k}]
    BY <2>8 DEF Listing
  <2>10. CASE k \notin Q
    <3>1. Q \ {k} = Q
      BY <2>10
    <3> QED
      BY <2>2, <2>8, <3>1
  <2>11. CASE k \in Q
    <3> DEFINE g == [i \in 1..(m + 1) |-> IF i <= m THEN f[i] ELSE k]
    <3>1. \A i \in 1..m : g[i] = f[i] /\ f[i] \in Q /\ f[i] \in 1..(k - 1)
      BY <2>7, <2>9
    <3>2. g[m + 1] = k
      BY <2>9
    <3>3. g \in [1..(m + 1) -> Q]
      BY <2>9, <2>11
    <3> HIDE DEF g
    <3>4. \A i, j \in 1..(m + 1) : i < j => g[i] < g[j]
      <4> SUFFICES ASSUME NEW i \in 1..(m + 1), NEW j \in 1..(m + 1), i < j
                   PROVE  g[i] < g[j]
        OBVIOUS
      <4>1. CASE j <= m
        BY <2>8, <2>9, <3>1, <4>1 DEF Listing
      <4>2. CASE j = m + 1
        BY <2>3, <2>9, <3>1, <3>2, <4>2
      <4> QED
        BY <2>9, <4>1, <4>2
    <3>5. \A p \in Q : \E i \in 1..(m + 1) : g[i] = p
      <4> TAKE p \in Q
      <4>1. CASE p = k
        BY <2>9, <3>2, <4>1
      <4>2. CASE p # k
        <5>1. PICK i \in 1..m : f[i] = p
          BY <2>8, <4>2 DEF Listing
        <5>2. i \in 1..(m + 1)
          BY <2>9
        <5> QED
          BY <3>1, <5>1, <5>2
      <4> QED
        BY <4>1, <4>2
    <3>6. Listing(Q, m + 1, g)
      BY <2>9, <3>3, <3>4, <3>5 DEF Listing
    <3> QED
      BY <2>2, <3>6
  <2> QED
    BY <2>10, <2>11
<1> QED
  BY <1>1, <1>2

(* What is picked is of the sequence.                                      *)
LEMMA PickTyped ==
  ASSUME NEW S, NEW s \in Seq(S), NEW P \in SUBSET DOMAIN s
  PROVE  Log!Pick(s, P) \in Seq(S)
<1>1. Len(s) \in Nat /\ P \in SUBSET (1..Len(s)) /\ P \in SUBSET Nat
  OBVIOUS
<1>2. PICK m, f : Listing(P, m, f)
  BY <1>1, ListingExists
<1>3. Log!Pick(s, P) = Listed(s, f, m)
  BY <1>1, <1>2, PickListing
<1>4. m \in Nat /\ \A i \in 1..m : f[i] \in 1..Len(s)
  BY <1>1, <1>2 DEF Listing
<1>5. \A i \in 1..m : s[f[i]] \in S
  BY <1>4
<1> QED
  BY <1>3, <1>4, <1>5 DEF Listed

(* The positions of a concatenation that stand for those of its parts.     *)
Joined(s, P, Q) == P \cup {Len(s) + q : q \in Q}

(* Picking from two sequences, one after the other.                        *)
LEMMA PickConcat ==
  ASSUME NEW S, NEW s \in Seq(S), NEW t \in Seq(S),
         NEW P, NEW Q, P \subseteq DOMAIN s, Q \subseteq DOMAIN t
  PROVE  /\ Joined(s, P, Q) \subseteq DOMAIN (s \o t)
         /\ Log!Pick(s \o t, Joined(s, P, Q)) = Log!Pick(s, P) \o Log!Pick(t, Q)
<1> DEFINE a == Len(s)  b == Len(t)  R == Joined(s, P, Q)  u == s \o t
<1>1. a \in Nat /\ b \in Nat /\ P \in SUBSET (1..a) /\ Q \in SUBSET (1..b)
  OBVIOUS
<1>2. u \in Seq(S) /\ Len(u) = a + b
      /\ \A i \in 1..(a + b) : u[i] = IF i <= a THEN s[i] ELSE t[i - a]
  BY ConcatProperties
<1>3. R \in SUBSET (1..(a + b)) /\ R \in SUBSET Nat
  BY <1>1 DEF Joined
<1>4. DOMAIN u = 1..(a + b)
  BY <1>2
<1>5. PICK m, f : Listing(P, m, f)
  BY <1>1, ListingExists
<1>6. PICK k, g : Listing(Q, k, g)
  BY <1>1, ListingExists
<1>7. /\ m \in Nat /\ \A i \in 1..m : f[i] \in P /\ f[i] \in 1..a
      /\ k \in Nat /\ \A i \in 1..k : g[i] \in Q /\ g[i] \in 1..b
  BY <1>1, <1>5, <1>6 DEF Listing
<1> DEFINE h == [i \in 1..(m + k) |-> IF i <= m THEN f[i] ELSE a + g[i - m]]
<1>8. \A i \in 1..m : i \in 1..(m + k) /\ h[i] = f[i]
  BY <1>7
<1>9. \A i \in 1..k : m + i \in 1..(m + k) /\ h[m + i] = a + g[i]
  <2> TAKE i \in 1..k
  <2>1. m + i \in 1..(m + k) /\ ~(m + i <= m) /\ (m + i) - m = i
    BY <1>7
  <2> QED
    BY <2>1
<1>10. \A i \in 1..(m + k) : i \in 1..m \/ \E j \in 1..k : i = m + j
  <2> TAKE i \in 1..(m + k)
  <2>1. i <= m \/ i - m \in 1..k
    BY <1>7
  <2>2. i <= m => i \in 1..m
    BY <1>7
  <2>3. i = m + (i - m)
    BY <1>7
  <2> QED
    BY <2>1, <2>2, <2>3
<1>11. DOMAIN h = 1..(m + k) /\ h = [i \in 1..(m + k) |-> h[i]]
  OBVIOUS
<1> HIDE DEF h
<1>12. Listing(R, m + k, h)
  <2>1. \A i \in 1..(m + k) : h[i] \in R
    <3> TAKE i \in 1..(m + k)
    <3>1. CASE i \in 1..m
      BY <1>7, <1>8, <3>1 DEF Joined
    <3>2. CASE \E j \in 1..k : i = m + j
      <4>1. PICK j \in 1..k : i = m + j
        BY <3>2
      <4>2. h[i] = Len(s) + g[j] /\ g[j] \in Q
        BY <1>7, <1>9, <4>1
      <4> QED
        BY <4>2 DEF Joined
    <3> QED
      BY <1>10, <3>1, <3>2
  <2>2. h \in [1..(m + k) -> R]
    BY <1>11, <2>1
  <2>3. \A i, j \in 1..(m + k) : i < j => h[i] < h[j]
    <3> SUFFICES ASSUME NEW i \in 1..(m + k), NEW j \in 1..(m + k), i < j
                 PROVE  h[i] < h[j]
      OBVIOUS
    <3>1. CASE j \in 1..m
      <4>1. i \in 1..m
        BY <1>7, <3>1
      <4> QED
        BY <1>5, <1>8, <3>1, <4>1 DEF Listing
    <3>2. CASE \E l \in 1..k : j = m + l
      <4>1. PICK l \in 1..k : j = m + l
        BY <3>2
      <4>2. h[j] = a + g[l] /\ g[l] \in 1..b
        BY <1>7, <1>9, <4>1
      <4>3. CASE i \in 1..m
        <5>1. h[i] \in 1..a
          BY <1>7, <1>8, <4>3
        <5> QED
          BY <1>1, <4>2, <5>1
      <4>4. CASE \E o \in 1..k : i = m + o
        <5>1. PICK o \in 1..k : i = m + o
          BY <4>4
        <5>2. h[i] = a + g[o] /\ g[o] \in 1..b
          BY <1>7, <1>9, <5>1
        <5>3. o < l
          BY <1>7, <4>1, <5>1
        <5>4. g[o] < g[l]
          BY <1>6, <5>3 DEF Listing
        <5> QED
          BY <1>1, <4>2, <5>2, <5>4
      <4> QED
        BY <1>10, <4>3, <4>4
    <3> QED
      BY <1>10, <3>1, <3>2
  <2>4. \A r \in R : \E i \in 1..(m + k) : h[i] = r
    <3> TAKE r \in R
    <3>1. CASE r \in P
      <4>1. PICK i \in 1..m : f[i] = r
        BY <1>5, <3>1 DEF Listing
      <4> QED
        BY <1>8, <4>1
    <3>2. CASE \E q \in Q : r = a + q
      <4>1. PICK q \in Q : r = a + q
        BY <3>2
      <4>2. PICK i \in 1..k : g[i] = q
        BY <1>6 DEF Listing
      <4> QED
        BY <1>9, <4>1, <4>2
    <3> QED
      BY <3>1, <3>2 DEF Joined
  <2> HIDE DEF R
  <2> QED
    BY <1>7, <2>2, <2>3, <2>4 DEF Listing
<1> DEFINE x == Listed(s, f, m)
           y == Listed(t, g, k)
           z == Listed(u, h, m + k)
<1>13. Log!Pick(s, P) = x /\ Log!Pick(t, Q) = y
  <2>1. P \in SUBSET Nat /\ Q \in SUBSET Nat
    BY <1>1
  <2> QED
    BY <1>5, <1>6, <2>1, PickListing
<1>14. Log!Pick(u, R) = z
  <2> HIDE DEF u, R
  <2> QED
    BY <1>3, <1>12, PickListing
<1>15. x \in Seq(S) /\ Len(x) = m /\ y \in Seq(S) /\ Len(y) = k
  <2>1. \A i \in 1..m : s[f[i]] \in S
    BY <1>7
  <2>2. \A i \in 1..k : t[g[i]] \in S
    BY <1>7
  <2> QED
    BY <1>7, <2>1, <2>2 DEF Listed
<1>16. /\ x \o y \in Seq(S) /\ Len(x \o y) = m + k
       /\ \A i \in 1..(m + k) : (x \o y)[i] = IF i <= m THEN x[i] ELSE y[i - m]
  <2> HIDE DEF x, y
  <2> QED
    BY <1>15, ConcatProperties
<1>17. \A i \in 1..(m + k) : z[i] = (x \o y)[i]
  <2> TAKE i \in 1..(m + k)
  <2>0. z[i] = u[h[i]]
    BY DEF Listed
  <2>1. CASE i \in 1..m
    <3>1. h[i] = f[i] /\ f[i] \in 1..a /\ f[i] \in 1..(a + b)
      BY <1>1, <1>7, <1>8, <2>1
    <3>2. u[f[i]] = s[f[i]]
      BY <1>2, <3>1
    <3>3. x[i] = s[f[i]] /\ i <= m
      BY <2>1 DEF Listed
    <3> HIDE DEF x, y, z, u
    <3> QED
      BY <1>16, <2>0, <3>1, <3>2, <3>3
  <2>2. CASE \E j \in 1..k : i = m + j
    <3>1. PICK j \in 1..k : i = m + j
      BY <2>2
    <3>2. h[i] = a + g[j] /\ g[j] \in 1..b
      BY <1>7, <1>9, <3>1
    <3>3. a + g[j] \in 1..(a + b) /\ ~(a + g[j] <= a) /\ (a + g[j]) - a = g[j]
      BY <1>1, <3>2
    <3>4. u[a + g[j]] = t[g[j]]
      <4> HIDE DEF u, a, b
      <4> QED
        BY <1>2, <3>3
    <3>5. y[j] = t[g[j]]
      BY DEF Listed
    <3>6. ~(i <= m) /\ i - m = j
      BY <1>7, <3>1
    <3> HIDE DEF x, y, z, u
    <3>7. (x \o y)[i] = y[j]
      BY <1>16, <3>6
    <3> QED
      BY <2>0, <3>2, <3>4, <3>5, <3>7
  <2> QED
    BY <1>10, <2>1, <2>2
<1>18. z \in Seq(S) /\ Len(z) = m + k
  <2>1. \A i \in 1..(m + k) : u[h[i]] \in S
    <3>1. \A i \in 1..(m + k) : h[i] \in 1..(a + b)
      BY <1>3, <1>12 DEF Listing
    <3> HIDE DEF u, a, b
    <3> QED
      BY <1>2, <3>1
  <2>2. m + k \in Nat
    BY <1>7
  <2> HIDE DEF u, a, b, R
  <2> QED
    BY <2>1, <2>2 DEF Listed
<1>19. z = x \o y
  <2> HIDE DEF x, y, z
  <2> QED
    BY <1>16, <1>17, <1>18, SeqEqual
<1> HIDE DEF x, y, z, u, R
<1> QED
  BY <1>3, <1>4, <1>13, <1>14, <1>19 DEF u, R

(* Picking all, or nothing.                                                *)
LEMMA PickAll ==
  ASSUME NEW S, NEW s \in Seq(S)
  PROVE  Log!Pick(s, DOMAIN s) = s
<1> DEFINE n == Len(s)  f == [i \in 1..n |-> i]
<1>1. n \in Nat /\ DOMAIN s = 1..n
  OBVIOUS
<1>2. \A i \in 1..n : f[i] = i
  OBVIOUS
<1>3. f \in [1..n -> 1..n]
  OBVIOUS
<1> HIDE DEF f, n
<1>4. Listing(1..n, n, f)
  BY <1>1, <1>2, <1>3 DEF Listing
<1>5. 1..n \in SUBSET Nat
  BY <1>1
<1>6. Log!Pick(s, 1..n) = Listed(s, f, n)
  BY <1>4, <1>5, PickListing
<1>7. Listed(s, f, n) = s
  BY <1>1, <1>2 DEF Listed
<1> QED
  BY <1>1, <1>6, <1>7

LEMMA PickNone ==
  ASSUME NEW s
  PROVE  Log!Pick(s, {}) = <<>>
<1>1. Listing({}, 0, <<>>)
  BY DEF Listing
<1>2. Log!Pick(s, {}) = Listed(s, <<>>, 0)
  BY <1>1, PickListing
<1>3. Listed(s, <<>>, 0) = <<>>
  BY DEF Listed
<1> QED
  BY <1>2, <1>3

Picks(s, t) == \E P : P \subseteq DOMAIN s /\ Log!Pick(s, P) = t

(* What is picked from two parts is picked from the whole.                 *)
LEMMA PickJoin ==
  ASSUME NEW S, NEW s \in Seq(S), NEW t \in Seq(S), NEW x, NEW y, Picks(s, x), Picks(t, y)
  PROVE  Picks(s \o t, x \o y)
<1>1. PICK P : P \subseteq DOMAIN s /\ Log!Pick(s, P) = x
  BY DEF Picks
<1>2. PICK Q : Q \subseteq DOMAIN t /\ Log!Pick(t, Q) = y
  BY DEF Picks
<1>3. P \subseteq DOMAIN s /\ Q \subseteq DOMAIN t
  BY <1>1, <1>2
<1>4. /\ Joined(s, P, Q) \subseteq DOMAIN (s \o t)
      /\ Log!Pick(s \o t, Joined(s, P, Q)) = Log!Pick(s, P) \o Log!Pick(t, Q)
  BY <1>3, PickConcat
<1>5. Log!Pick(s \o t, Joined(s, P, Q)) = x \o y
  BY <1>1, <1>2, <1>4
<1> QED
  BY <1>4, <1>5 DEF Picks

(* All can be picked, and nothing.                                         *)
LEMMA PicksEnds ==
  ASSUME NEW S, NEW s \in Seq(S)
  PROVE  Picks(s, s) /\ Picks(s, <<>>)
<1>1. DOMAIN s \subseteq DOMAIN s /\ Log!Pick(s, DOMAIN s) = s
  BY PickAll
<1>2. {} \subseteq DOMAIN s /\ Log!Pick(s, {}) = <<>>
  BY PickNone
<1> QED
  BY <1>1, <1>2 DEF Picks

(* What is picked is some of it, as the abstract log says it.              *)
LEMMA AddsPicked ==
  ASSUME NEW old, NEW s, NEW t, Picks(s, t)
  PROVE  Log!Adds(old, s, old \o t)
BY DEF Log!Adds, Picks

(* Leaving out what is in the middle, or keeping only that.                *)
LEMMA CutAdds ==
  ASSUME NEW S, NEW old, NEW a \in Seq(S), NEW b \in Seq(S), NEW c \in Seq(S)
  PROVE  /\ Log!Adds(old, (a \o b) \o c, old \o (a \o c))
         /\ Log!Adds(old, (a \o b) \o c, old \o b)
<1>1. a \o b \in Seq(S) /\ c \in Seq(S)
  OBVIOUS
<1>2. Picks(a \o b, a \o <<>>)
  BY PicksEnds, PickJoin
<1>3. Picks(a \o b, <<>> \o b)
  BY PicksEnds, PickJoin
<1>4. Picks((a \o b) \o c, (a \o <<>>) \o c)
  BY <1>1, <1>2, PicksEnds, PickJoin
<1>5. Picks((a \o b) \o c, (<<>> \o b) \o <<>>)
  BY <1>1, <1>3, PicksEnds, PickJoin
<1>6. a \o <<>> = a /\ <<>> \o b = b /\ b \o <<>> = b
  BY ConcatEmptySeq
<1> QED
  BY <1>4, <1>5, <1>6, AddsPicked

(* A tail is kept, or nothing.                                             *)
LEMMA AddsTail ==
  ASSUME NEW S, NEW old, NEW a \in Seq(S), NEW b \in Seq(S)
  PROVE  Log!Adds(old, a \o b, old \o b)
<1>1. <<>> \in Seq(S)
  OBVIOUS
<1>2. Log!Adds(old, (<<>> \o a) \o b, old \o (<<>> \o b))
  BY <1>1, CutAdds
<1>3. <<>> \o a = a /\ <<>> \o b = b
  BY ConcatEmptySeq
<1> QED
  BY <1>2, <1>3

LEMMA AddsNone ==
  ASSUME NEW S, NEW old \in Seq(S), NEW a \in Seq(S)
  PROVE  Log!Adds(old, a, old)
<1>1. Picks(a, <<>>)
  BY PicksEnds
<1>2. old \o <<>> = old
  BY ConcatEmptySeq
<1> QED
  BY <1>1, <1>2, AddsPicked

-----------------------------------------------------------------------------
(* Ids                                                                     *)

(* The ids of a sequence, element by element and part by part.             *)
LEMMA IdsTyped ==
  ASSUME NEW S, NEW s \in Seq(S), \A x \in S : x.id \in Nat
  PROVE  /\ Ids(s) \in Seq(Nat) /\ Len(Ids(s)) = Len(s)
         /\ \A i \in 1..Len(s) : Ids(s)[i] = s[i].id
<1>1. \A i \in 1..Len(s) : s[i].id \in Nat
  <2>1. \A i \in 1..Len(s) : s[i] \in S
    OBVIOUS
  <2> QED
    BY <2>1
<1>2. DOMAIN s = 1..Len(s) /\ Len(s) \in Nat
  OBVIOUS
<1>3. Ids(s) = [i \in 1..Len(s) |-> s[i].id]
  BY <1>2 DEF Ids
<1> QED
  BY <1>1, <1>2, <1>3

LEMMA IdsConcat ==
  ASSUME NEW S, NEW s \in Seq(S), NEW t \in Seq(S), \A x \in S : x.id \in Nat
  PROVE  Ids(s \o t) = Ids(s) \o Ids(t)
<1> DEFINE a == Ids(s)  b == Ids(t)  u == s \o t
<1>1. /\ u \in Seq(S) /\ Len(u) = Len(s) + Len(t)
      /\ \A i \in 1..(Len(s) + Len(t)) : u[i] = IF i <= Len(s) THEN s[i] ELSE t[i - Len(s)]
  BY ConcatProperties
<1>2. a \in Seq(Nat) /\ Len(a) = Len(s) /\ \A i \in 1..Len(s) : a[i] = s[i].id
  BY IdsTyped
<1>3. b \in Seq(Nat) /\ Len(b) = Len(t) /\ \A i \in 1..Len(t) : b[i] = t[i].id
  BY IdsTyped
<1>4. Ids(u) \in Seq(Nat) /\ Len(Ids(u)) = Len(u) /\ \A i \in 1..Len(u) : Ids(u)[i] = u[i].id
  <2> HIDE DEF u
  <2> QED
    BY <1>1, IdsTyped
<1>5. Len(s) \in Nat /\ Len(t) \in Nat
  OBVIOUS
<1> HIDE DEF a, b, u
<1>6. /\ a \o b \in Seq(Nat) /\ Len(a \o b) = Len(s) + Len(t)
      /\ \A i \in 1..(Len(s) + Len(t)) : (a \o b)[i] = IF i <= Len(s) THEN a[i] ELSE b[i - Len(s)]
  <2>1. /\ a \o b \in Seq(Nat) /\ Len(a \o b) = Len(a) + Len(b)
        /\ \A i \in 1..(Len(a) + Len(b)) : (a \o b)[i] = IF i <= Len(a) THEN a[i] ELSE b[i - Len(a)]
    BY <1>2, <1>3, ConcatProperties
  <2> QED
    BY <1>2, <1>3, <2>1
<1>7. \A i \in 1..(Len(s) + Len(t)) : Ids(u)[i] = (a \o b)[i]
  <2> TAKE i \in 1..(Len(s) + Len(t))
  <2>1. CASE i <= Len(s)
    <3>1. i \in 1..Len(s)
      BY <1>5, <2>1
    <3>2. u[i] = s[i] /\ (a \o b)[i] = a[i]
      BY <1>1, <1>6, <2>1
    <3> QED
      BY <1>1, <1>2, <1>4, <3>1, <3>2
  <2>2. CASE ~(i <= Len(s))
    <3>1. i - Len(s) \in 1..Len(t)
      BY <1>5, <2>2
    <3>2. u[i] = t[i - Len(s)] /\ (a \o b)[i] = b[i - Len(s)]
      BY <1>1, <1>6, <2>2
    <3> QED
      BY <1>1, <1>3, <1>4, <3>1, <3>2
  <2> QED
    BY <2>1, <2>2
<1>8. Ids(u) = a \o b
  BY <1>1, <1>4, <1>6, <1>7, SeqEqual
<1> QED
  BY <1>8 DEF a, b, u

-----------------------------------------------------------------------------
(* The lines that a reader finds                                           *)

Good(lines) == {i \in DOMAIN lines : ~IsGarbage(lines[i])}
Kept(lines) == Log!Pick(lines, Good(lines))

(* The good lines of a part are those of the whole that are in it; a line  *)
(* that does not parse is none.                                            *)
LEMMA GoodTyped == \A lines : Good(lines) \subseteq DOMAIN lines
BY DEF Good

LEMMA KeptTyped ==
  ASSUME NEW S, NEW lines \in Seq(S)
  PROVE  Kept(lines) \in Seq(S)
BY PickTyped, GoodTyped DEF Kept

LEMMA KeptConcat ==
  ASSUME NEW S, NEW s \in Seq(S), NEW t \in Seq(S)
  PROVE  Kept(s \o t) = Kept(s) \o Kept(t)
<1> DEFINE u == s \o t  R == Joined(s, Good(s), Good(t))
<1>1. /\ u \in Seq(S) /\ Len(u) = Len(s) + Len(t)
      /\ \A i \in 1..(Len(s) + Len(t)) : u[i] = IF i <= Len(s) THEN s[i] ELSE t[i - Len(s)]
  BY ConcatProperties
<1>2. R \subseteq DOMAIN u /\ Log!Pick(u, R) = Kept(s) \o Kept(t)
  BY PickConcat, GoodTyped DEF Kept
<1>3. DOMAIN s = 1..Len(s) /\ DOMAIN t = 1..Len(t) /\ Len(s) \in Nat /\ Len(t) \in Nat
  OBVIOUS
<1> HIDE DEF u
<1>4. DOMAIN u = 1..(Len(s) + Len(t))
  BY <1>1
<1>5. \A i \in DOMAIN u : i \in R <=> ~IsGarbage(u[i])
  <2> TAKE i \in DOMAIN u
  <2>1. CASE i <= Len(s)
    <3>1. i \in 1..Len(s) /\ u[i] = s[i]
      BY <1>1, <1>3, <1>4, <2>1
    <3>2. \A q \in Good(t) : i # Len(s) + q
      BY <1>3, <2>1 DEF Good
    <3>3. i \in R <=> i \in Good(s)
      BY <3>2 DEF Joined
    <3> QED
      BY <1>3, <3>1, <3>3 DEF Good
  <2>2. CASE ~(i <= Len(s))
    <3>1. i - Len(s) \in 1..Len(t) /\ u[i] = t[i - Len(s)] /\ i \notin Good(s)
      BY <1>1, <1>3, <1>4, <2>2 DEF Good
    <3>2. i \in R <=> i - Len(s) \in Good(t)
      <4>1. \A q \in Good(t) : i = Len(s) + q <=> q = i - Len(s)
        BY <1>3, <1>4 DEF Good
      <4> QED
        BY <3>1, <4>1 DEF Joined
    <3> QED
      BY <1>3, <3>1, <3>2 DEF Good
  <2> QED
    BY <2>1, <2>2
<1> HIDE DEF R
<1>6. Good(u) = R
  BY <1>2, <1>5 DEF Good
<1> QED
  BY <1>2, <1>6 DEF Kept, u

LEMMA KeptAll ==
  ASSUME NEW S, NEW s \in Seq(S), \A i \in DOMAIN s : ~IsGarbage(s[i])
  PROVE  Kept(s) = s
<1>1. Good(s) = DOMAIN s
  BY DEF Good
<1> QED
  BY <1>1, PickAll DEF Kept

LEMMA KeptGarbage ==
  ASSUME NEW x, IsGarbage(x)
  PROVE  Kept(<<x>>) = <<>>
<1>1. Good(<<x>>) = {}
  BY DEF Good
<1> QED
  BY <1>1, PickNone DEF Kept

LEMMA KeptEmpty == Kept(<<>>) = <<>>
<1>1. Good(<<>>) = {}
  BY DEF Good
<1> QED
  BY <1>1, PickNone DEF Kept

-----------------------------------------------------------------------------
(* The order of lines and of their replay                                  *)

(* One line was written before another, as far as their numbers show.      *)
Precedes(x, y) ==
  IsGarbage(x) \/ IsGarbage(y) \/ x.run < y.run \/ (x.run = y.run /\ x.seq < y.seq)

Ordered(lines) == \A i, j \in DOMAIN lines : i < j => Precedes(lines[i], lines[j])

(* A line that parses has a run and a number.                              *)
Sound == {x \in Line : IsGarbage(x) <=> x.run = 0}
SoundFile == {file \in File : file.lines \in Seq(Sound) /\ Ordered(file.lines)}

(* The order of keys of one number and of two.                             *)
LEMMA BeforeOne ==
  ASSUME NEW i \in Nat, NEW j \in Nat
  PROVE  Before(<<i>>, <<j>>) <=> i < j
<1> DEFINE k == <<i>>  l == <<j>>
<1>1. DOMAIN k = {1} /\ k[1] = i /\ l[1] = j
  OBVIOUS
<1>2. \A m \in 1..(1 - 1) : k[m] = l[m]
  <2>1. 1..(1 - 1) = {}
    OBVIOUS
  <2> QED
    BY <2>1
<1> HIDE DEF k, l
<1>3. Before(k, l) <=> k[1] < l[1]
  BY <1>1, <1>2 DEF Before
<1> QED
  BY <1>1, <1>3 DEF k, l

LEMMA BeforeTwo ==
  ASSUME NEW i \in Nat, NEW j \in Nat, NEW x \in Nat, NEW y \in Nat
  PROVE  Before(<<x, i>>, <<y, j>>) <=> x < y \/ (x = y /\ i < j)
<1> DEFINE k == <<x, i>>  l == <<y, j>>
<1>1. DOMAIN k = 1..2 /\ k[1] = x /\ k[2] = i /\ l[1] = y /\ l[2] = j
  OBVIOUS
<1> HIDE DEF k, l
<1>2. Before(k, l) <=> \E n \in 1..2 : k[n] < l[n] /\ \A m \in 1..(n - 1) : k[m] = l[m]
  BY <1>1 DEF Before
<1>3. \A n \in 1..2 : n = 1 \/ n = 2
  OBVIOUS
<1>4. (\A m \in 1..(1 - 1) : k[m] = l[m]) /\ ((\A m \in 1..(2 - 1) : k[m] = l[m]) <=> k[1] = l[1])
  <2>1. 1..(1 - 1) = {} /\ 1..(2 - 1) = {1}
    OBVIOUS
  <2> QED
    BY <2>1
<1>5. Before(k, l) <=> k[1] < l[1] \/ (k[1] = l[1] /\ k[2] < l[2])
  BY <1>2, <1>3, <1>4
<1> QED
  BY <1>1, <1>5 DEF k, l

(* Where the keys are in the order of the lines, so are the events.        *)
LEMMA OrderListing ==
  ASSUME NEW P \in SUBSET Nat, NEW m, NEW f, Listing(P, m, f), NEW lines, NEW o,
         \A i, j \in P : Before(SortKey(lines, i, o), SortKey(lines, j, o)) <=> i < j
  PROVE  OrderEvents(lines, P, o) = Listed(lines, f, m)
<1> DEFINE After(i) == {j \in P : Before(SortKey(lines, i, o), SortKey(lines, j, o))}
<1>1. m \in Nat /\ \A i \in 1..m : f[i] \in P
  BY DEF Listing
<1>2. Cardinality(P) = m
  BY PickListing
<1>3. \A i \in 1..m : Cardinality(P \ After(f[i])) = i
  <2> TAKE i \in 1..m
  <2>1. P \ After(f[i]) = {k \in P : k <= f[i]}
    <3>1. \A k \in P : k \in After(f[i]) <=> f[i] < k
      BY <1>1
    <3>2. \A k \in P : ~(f[i] < k) <=> k <= f[i]
      <4>1. f[i] \in Nat /\ \A k \in P : k \in Nat
        BY <1>1
      <4> QED
        BY <4>1
    <3> HIDE DEF After
    <3> QED
      BY <3>1, <3>2
  <2>2. Cardinality({k \in P : k <= f[i]}) = i
    BY RankListing
  <2> HIDE DEF After
  <2> QED
    BY <2>1, <2>2
<1> HIDE DEF After
<1>4. \A i \in 1..m : (CHOOSE j \in P : Cardinality(P \ After(j)) = i) = f[i]
  <2> SUFFICES ASSUME NEW i \in 1..m
               PROVE  (CHOOSE j \in P : Cardinality(P \ After(j)) = i) = f[i]
    OBVIOUS
  <2>1. f[i] \in P /\ Cardinality(P \ After(f[i])) = i
    BY <1>1, <1>3
  <2>2. \A j \in P : Cardinality(P \ After(j)) = i => j = f[i]
    <3> SUFFICES ASSUME NEW j \in P, Cardinality(P \ After(j)) = i PROVE j = f[i]
      OBVIOUS
    <3>1. PICK h \in 1..m : f[h] = j
      BY DEF Listing
    <3>2. Cardinality(P \ After(f[h])) = h
      BY <1>3
    <3> QED
      BY <3>1, <3>2
  <2> QED
    BY <2>1, <2>2
<1>5. OrderEvents(lines, P, o) =
        [i \in 1..m |-> lines[CHOOSE j \in P : Cardinality(P \ After(j)) = i]]
  BY <1>2, Zenon DEF OrderEvents, After
<1>6. OrderEvents(lines, P, o) = [i \in 1..m |-> lines[f[i]]]
  BY <1>4, <1>5, Zenon
<1> QED
  BY <1>6 DEF Listed

(* A replay of a file finds its lines, but for the garbage, in their order.*)
LEMMA EventsAreKept ==
  ASSUME NEW file \in SoundFile
  PROVE  Events(file) = Kept(file.lines)
<1> DEFINE lines == file.lines  P == Good(lines)
           runs == {lines[i].run : i \in DOMAIN lines}
           byDefault == Cardinality(runs) <= 1 /\ ~Refused(lines, TRUE)
           o == IF byDefault THEN "seq" ELSE "file"
<1>1. lines \in Seq(Sound) /\ Ordered(lines)
  BY DEF SoundFile
<1>2. DOMAIN lines = 1..Len(lines) /\ Len(lines) \in Nat /\ \A i \in DOMAIN lines : lines[i] \in Sound
  BY <1>1
<1>3. P \subseteq DOMAIN lines /\ P \in SUBSET (1..Len(lines)) /\ P \in SUBSET Nat
  BY <1>2 DEF Good
<1>4. /\ RunInFileOrder(lines, FALSE) = P
      /\ ~Refused(lines, TRUE) => ReadEvents(lines, TRUE) = P
  BY DEF RunInFileOrder, ReadEvents, Refused, Good
<1>5. Events(file) = OrderEvents(lines, P, o)
  <2>1. Events(file) = IF byDefault THEN Replayed(lines, "seq", TRUE) ELSE Replayed(lines, "file", FALSE)
    BY DEF Events
  <2>2. Replayed(lines, "file", FALSE) = OrderEvents(lines, P, "file")
    BY <1>4 DEF Replayed
  <2>3. byDefault => Replayed(lines, "seq", TRUE) = OrderEvents(lines, P, "seq")
    BY <1>4 DEF Replayed
  <2> HIDE DEF byDefault, P
  <2> QED
    BY <2>1, <2>2, <2>3
<1> HIDE DEF lines
<1>6. \A i, j \in P : Before(SortKey(lines, i, o), SortKey(lines, j, o)) <=> i < j
  <2> SUFFICES ASSUME NEW i \in P, NEW j \in P
               PROVE  Before(SortKey(lines, i, o), SortKey(lines, j, o)) <=> i < j
    OBVIOUS
  <2>1. i \in Nat /\ j \in Nat /\ lines[i].seq \in Nat /\ lines[j].seq \in Nat
    BY <1>2, <1>3 DEF Line, Sound
  <2>2. CASE o = "file"
    <3>1. SortKey(lines, i, "file") = <<i>> /\ SortKey(lines, j, "file") = <<j>>
      BY DEF SortKey
    <3> HIDE DEF o
    <3> QED
      BY <2>1, <2>2, <3>1, BeforeOne
  <2>3. CASE o = "seq" /\ Cardinality(runs) <= 1
    <3>1. SortKey(lines, i, "seq") = <<lines[i].seq, i>> /\ SortKey(lines, j, "seq") = <<lines[j].seq, j>>
      BY DEF SortKey
    <3>2. lines[i].run \in runs /\ lines[j].run \in runs
      <4>1. i \in DOMAIN lines /\ j \in DOMAIN lines
        BY <1>3
      <4> QED
        BY <4>1
    <3>3. lines[i].run = lines[j].run
      <4>1. IsFiniteSet(runs)
        <5> DEFINE h == [k \in 1..Len(lines) |-> lines[k].run]
        <5>1. h \in Surjection(1..Len(lines), runs)
          BY <1>2 DEF Surjection
        <5>2. IsFiniteSet(1..Len(lines))
          BY <1>2, FS_Interval
        <5> HIDE DEF h, runs
        <5> QED
          BY <5>1, <5>2, FS_Surjection
      <4> SUFFICES ASSUME lines[i].run # lines[j].run PROVE FALSE
        OBVIOUS
      <4> DEFINE two == {lines[i].run} \cup {lines[j].run}
      <4>2. IsFiniteSet({lines[i].run}) /\ Cardinality({lines[i].run}) = 1
        BY FS_Singleton
      <4>3. Cardinality(two) = 1 + 1
        BY <4>2, FS_AddElement
      <4>4. two \in SUBSET runs
        BY <3>2
      <4> HIDE DEF two, runs
      <4>5. Cardinality(two) <= Cardinality(runs) /\ Cardinality(runs) \in Nat
        BY <4>1, <4>4, FS_Subset, FS_CardinalityType
      <4> QED
        BY <2>3, <4>3, <4>5
    <3>4. \A k, l \in P : k < l => lines[k].run < lines[l].run \/ (lines[k].run = lines[l].run /\ lines[k].seq < lines[l].seq)
      BY <1>1, <1>3 DEF Ordered, Precedes, Good
    <3>5. lines[i].run \in Nat /\ lines[j].run \in Nat
      BY <1>2, <1>3 DEF Line, Sound
    <3>6. i < j \/ j < i \/ i = j
      BY <2>1
    <3>7. (lines[i].seq < lines[j].seq \/ (lines[i].seq = lines[j].seq /\ i < j)) <=> i < j
      BY <2>1, <3>3, <3>4, <3>5, <3>6
    <3>8. Before(<<lines[i].seq, i>>, <<lines[j].seq, j>>) <=> i < j
      BY <2>1, <3>7, BeforeTwo
    <3> HIDE DEF o
    <3> QED
      BY <2>3, <3>1, <3>8
  <2> QED
    BY <2>2, <2>3
<1> HIDE DEF P, o
<1>7. PICK m, f : Listing(P, m, f)
  BY <1>2, <1>3, ListingExists
<1>8. OrderEvents(lines, P, o) = Listed(lines, f, m)
  BY <1>3, <1>6, <1>7, OrderListing
<1>9. Log!Pick(lines, P) = Listed(lines, f, m)
  BY <1>3, <1>7, PickListing
<1> QED
  BY <1>5, <1>8, <1>9 DEF Kept, P, lines

-----------------------------------------------------------------------------
(* What a replay of the files finds                                        *)

StoreOp(p, all, file) == all \o Events(file)

Storing == INSTANCE FoldTheorems WITH Op <- StoreOp

StoredOf(files) == Storing!Fold(0, <<>>, files)

(* What a reader finds in a file, and in several, are lines that parse.    *)
LEMMA SoundKept ==
  ASSUME NEW file \in SoundFile
  PROVE  Events(file) \in Seq(Sound)
<1>1. file.lines \in Seq(Sound)
  BY DEF SoundFile
<1> QED
  BY <1>1, EventsAreKept, KeptTyped

LEMMA StoredTyped ==
  ASSUME NEW files \in Seq(SoundFile), NEW base \in Seq(Sound)
  PROVE  Storing!Fold(0, base, files) \in Seq(Sound)
<1>1. Len(files) \in Nat /\ DOMAIN files = 1..Len(files)
  OBVIOUS
<1>2. \A e \in Seq(Sound), i \in 1..Len(files) : StoreOp(0, e, files[i]) \in Seq(Sound)
  <2> TAKE e \in Seq(Sound), i \in 1..Len(files)
  <2>1. files[i] \in SoundFile
    OBVIOUS
  <2>2. Events(files[i]) \in Seq(Sound)
    BY <2>1, SoundKept
  <2> QED
    BY <2>2, ConcatProperties DEF StoreOp
<1> QED
  BY <1>1, <1>2, Storing!FoldStaysIn

(* What was found before stays in front of what is found.                  *)
LEMMA StoredShift ==
  ASSUME NEW files \in Seq(SoundFile), NEW base \in Seq(Sound)
  PROVE  Storing!Fold(0, base, files) = base \o StoredOf(files)
<1> DEFINE n == Len(files)
<1>1. n \in Nat /\ DOMAIN files = 1..n /\ \A i \in 1..n : Events(files[i]) \in Seq(Sound)
  <2>1. \A i \in 1..n : files[i] \in SoundFile
    OBVIOUS
  <2> QED
    BY <2>1, SoundKept
<1> HIDE DEF n
<1>2. PICK h : Storing!IsRun(h, 0, <<>>, files, n) /\ h[n] = Storing!Fold(0, <<>>, files)
  BY <1>1, Storing!FoldHasRun
<1>3. \A e \in Seq(Sound), i \in 1..n : StoreOp(0, e, files[i]) \in Seq(Sound)
  <2> TAKE e \in Seq(Sound), i \in 1..n
  <2> QED
    BY <1>1, ConcatProperties DEF StoreOp
<1>4. \A i \in 0..n : h[i] \in Seq(Sound)
  <2>1. <<>> \in Seq(Sound)
    OBVIOUS
  <2> QED
    BY <1>1, <1>2, <1>3, <2>1, Storing!RunStaysIn
<1> DEFINE k == [i \in 0..n |-> base \o h[i]]
<1>5. Storing!IsRun(k, 0, base, files, n)
  <2>1. k[0] = base
    <3>1. k[0] = base \o <<>>
      BY <1>1, <1>2 DEF Storing!IsRun
    <3> QED
      BY <3>1, ConcatEmptySeq
  <2>2. ASSUME NEW i \in 1..n
        PROVE  k[i] = StoreOp(0, k[i - 1], files[i])
    <3>1. h[i] = h[i - 1] \o Events(files[i])
      BY <1>2 DEF Storing!IsRun, StoreOp
    <3>2. i \in 0..n /\ i - 1 \in 0..n
      BY <1>1
    <3>3. k[i] = base \o h[i] /\ k[i - 1] = base \o h[i - 1]
      <4>1. \A j \in 0..n : k[j] = base \o h[j]
        OBVIOUS
      <4> HIDE DEF k
      <4> QED
        BY <3>2, <4>1
    <3> DEFINE u == h[i - 1]  v == Events(files[i])
    <3>4. u \in Seq(Sound) /\ v \in Seq(Sound)
      BY <1>1, <1>4, <3>2
    <3> HIDE DEF k, u, v
    <3>5. base \o (u \o v) = (base \o u) \o v
      BY <3>4, ConcatAssociative
    <3> QED
      BY <3>1, <3>3, <3>5 DEF StoreOp, u, v
  <2> HIDE DEF k
  <2> QED
    BY <2>1, <2>2 DEF Storing!IsRun
<1>6. k[n] = base \o h[n]
  BY <1>1
<1> HIDE DEF k
<1>7. Storing!Fold(0, base, files) = k[n]
  BY <1>1, <1>5, Storing!FoldOfRun
<1> QED
  BY <1>2, <1>6, <1>7 DEF StoredOf

(* Files are read one after the other.                                     *)
LEMMA StoredConcat ==
  ASSUME NEW s \in Seq(SoundFile), NEW t \in Seq(SoundFile)
  PROVE  /\ StoredOf(s \o t) = StoredOf(s) \o StoredOf(t)
         /\ StoredOf(s) \in Seq(Sound)
<1>1. Storing!Fold(0, <<>>, s \o t) = Storing!Fold(0, Storing!Fold(0, <<>>, s), t)
  BY Storing!FoldConcat
<1>2. StoredOf(s) \in Seq(Sound)
  <2>1. <<>> \in Seq(Sound)
    OBVIOUS
  <2> QED
    BY <2>1, StoredTyped DEF StoredOf
<1>3. Storing!Fold(0, StoredOf(s), t) = StoredOf(s) \o StoredOf(t)
  BY <1>2, StoredShift
<1> QED
  BY <1>1, <1>2, <1>3 DEF StoredOf

LEMMA StoredOne ==
  ASSUME NEW file \in SoundFile
  PROVE  StoredOf(<<file>>) = Kept(file.lines) /\ Kept(file.lines) \in Seq(Sound)
<1>1. StoredOf(<<file>>) = <<>> \o Events(file)
  BY Storing!FoldOne DEF StoredOf, StoreOp
<1>2. Events(file) \in Seq(Sound) /\ Events(file) = Kept(file.lines)
  BY SoundKept, EventsAreKept
<1> QED
  BY <1>1, <1>2, ConcatEmptySeq

LEMMA StoredEmpty == StoredOf(<<>>) = <<>>
BY Storing!FoldEmpty DEF StoredOf

-----------------------------------------------------------------------------
(* The files and the buffer are in order                                   *)

Whole(lines) == \A i \in DOMAIN lines : ~IsGarbage(lines[i])

Follows(s, t) == \A i \in DOMAIN s, j \in DOMAIN t : Precedes(s[i], t[j])

(* No line has a number that the run has not given yet.                    *)
Newest(lines) ==
  \A i \in DOMAIN lines :
    lines[i].run <= run /\ (up # "down" /\ lines[i].run = run => lines[i].seq <= seq)

InOrder ==
  /\ rotated \in Seq(SoundFile) /\ current \in SoundFile
  /\ buffer \in Seq(Sound) /\ Ordered(buffer) /\ Whole(buffer)
  /\ Follows(current.lines, buffer)
  /\ Newest(current.lines) /\ Newest(buffer)
  /\ pc # "idle" => up # "down"
  /\ up # "down" => run >= 1

(* Lines that follow lines in order are in order with them.                *)
LEMMA OrderedConcat ==
  ASSUME NEW S, NEW s \in Seq(S), NEW t \in Seq(S), Ordered(s), Ordered(t), Follows(s, t)
  PROVE  Ordered(s \o t)
<1> DEFINE u == s \o t
<1>1. /\ u \in Seq(S) /\ Len(u) = Len(s) + Len(t)
      /\ \A i \in 1..(Len(s) + Len(t)) : u[i] = IF i <= Len(s) THEN s[i] ELSE t[i - Len(s)]
  BY ConcatProperties
<1>2. DOMAIN s = 1..Len(s) /\ DOMAIN t = 1..Len(t) /\ Len(s) \in Nat /\ Len(t) \in Nat
  OBVIOUS
<1> HIDE DEF u
<1>3. DOMAIN u = 1..(Len(s) + Len(t))
  BY <1>1
<1>4. ASSUME NEW i \in DOMAIN u, NEW j \in DOMAIN u, i < j
      PROVE  Precedes(u[i], u[j])
  <2>1. CASE j <= Len(s)
    <3>1. i \in DOMAIN s /\ j \in DOMAIN s /\ i <= Len(s)
      BY <1>2, <1>3, <1>4, <2>1
    <3>2. u[i] = s[i] /\ u[j] = s[j]
      BY <1>1, <1>3, <2>1, <3>1
    <3> QED
      BY <1>4, <3>1, <3>2 DEF Ordered
  <2>2. CASE i <= Len(s) /\ ~(j <= Len(s))
    <3>1. i \in DOMAIN s /\ j - Len(s) \in DOMAIN t
      BY <1>2, <1>3, <2>2
    <3>2. u[i] = s[i] /\ u[j] = t[j - Len(s)]
      BY <1>1, <1>3, <2>2
    <3> QED
      BY <3>1, <3>2 DEF Follows
  <2>3. CASE ~(i <= Len(s))
    <3>1. i - Len(s) \in DOMAIN t /\ j - Len(s) \in DOMAIN t /\ i - Len(s) < j - Len(s) /\ ~(j <= Len(s))
      BY <1>2, <1>3, <1>4, <2>3
    <3>2. u[i] = t[i - Len(s)] /\ u[j] = t[j - Len(s)]
      BY <1>1, <1>3, <2>3, <3>1
    <3> QED
      BY <3>1, <3>2 DEF Ordered
  <2> QED
    BY <1>2, <1>3, <2>1, <2>2, <2>3
<1> QED
  BY <1>4 DEF Ordered, u

(* Where a line of the new file comes from.                                *)
Known(x, s, t) ==
  \/ \E k \in DOMAIN s : x = s[k]
  \/ \E k \in DOMAIN t : x = t[k]
  \/ IsGarbage(x) /\ x.run = 0

(* An element of a concatenation is one of either part.                    *)
LEMMA EitherPart ==
  ASSUME NEW S, NEW a \in Seq(S), NEW b \in Seq(S), NEW i \in DOMAIN (a \o b)
  PROVE  (\E k \in DOMAIN a : (a \o b)[i] = a[k]) \/ (\E k \in DOMAIN b : (a \o b)[i] = b[k])
<1>1. /\ a \o b \in Seq(S) /\ Len(a \o b) = Len(a) + Len(b)
      /\ \A j \in 1..(Len(a) + Len(b)) : (a \o b)[j] = IF j <= Len(a) THEN a[j] ELSE b[j - Len(a)]
  BY ConcatProperties
<1>2. DOMAIN a = 1..Len(a) /\ DOMAIN b = 1..Len(b) /\ Len(a) \in Nat /\ Len(b) \in Nat
  OBVIOUS
<1> DEFINE u == a \o b
<1> HIDE DEF u
<1>3. i \in 1..(Len(a) + Len(b))
  BY <1>1 DEF u
<1>4. CASE i <= Len(a)
  BY <1>1, <1>2, <1>3, <1>4
<1>5. CASE ~(i <= Len(a))
  <2>1. i - Len(a) \in DOMAIN b
    BY <1>2, <1>3, <1>5
  <2> QED
    BY <1>1, <1>3, <1>5, <2>1
<1> QED
  BY <1>4, <1>5

LEMMA KnownConcat ==
  ASSUME NEW S, NEW a \in Seq(S), NEW b \in Seq(S), NEW s, NEW t,
         \A i \in DOMAIN a : Known(a[i], s, t), \A i \in DOMAIN b : Known(b[i], s, t)
  PROVE  \A i \in DOMAIN (a \o b) : Known((a \o b)[i], s, t)
<1>1. \A i \in DOMAIN (a \o b) :
        (\E k \in DOMAIN a : (a \o b)[i] = a[k]) \/ (\E k \in DOMAIN b : (a \o b)[i] = b[k])
  BY EitherPart
<1>2. ASSUME NEW x, (\E k \in DOMAIN a : x = a[k]) \/ (\E k \in DOMAIN b : x = b[k])
      PROVE  Known(x, s, t)
  BY <1>2, Zenon
<1> QED
  BY <1>1, <1>2

(* A piece, or a line with another behind it, does not parse.              *)
LEMMA GarbageSound ==
  \A size \in Nat \ {0} : Garbage(size) \in Sound /\ IsGarbage(Garbage(size)) /\ Garbage(size).run = 0
BY DEF Garbage, Sound, Line, IsGarbage

LEMMA PieceSound ==
  ASSUME NEW s, IsPiece(s)
  PROVE  /\ Kept(s) = <<>> /\ Ordered(s)
         /\ \A i \in DOMAIN s : IsGarbage(s[i]) /\ s[i].run = 0
<1>1. CASE s = <<>>
  BY <1>1, KeptEmpty DEF Ordered
<1>2. ASSUME NEW n \in Nat \ {0}, s = <<Garbage(n)>>
      PROVE  /\ Kept(s) = <<>> /\ Ordered(s)
             /\ \A i \in DOMAIN s : IsGarbage(s[i]) /\ s[i].run = 0
  <2> DEFINE g == Garbage(n)
  <2>1. IsGarbage(g) /\ g.run = 0
    BY GarbageSound
  <2> HIDE DEF g
  <2>2. s = <<g>>
    BY <1>2 DEF g
  <2> QED
    BY <2>1, <2>2, KeptGarbage DEF Ordered, Precedes
<1> QED
  BY <1>1, <1>2 DEF IsPiece

(* A sequence without its last element, or the whole of it.                *)
Shortened(S, s, t) == t = s \/ \E x \in S : s = t \o <<x>>

(* What was found, or all of that but the last, and then the lines, or all *)
(* of them but the first.                                                  *)
Grows(found, new, lines) ==
  \E old, l \in Seq(Sound) :
    /\ new = old \o l
    /\ Shortened(Sound, found, old)
    /\ l = lines \/ (lines # <<>> /\ l = Tail(lines))

(* What an append adds: the lines, or all but the first behind a line      *)
(* without newline, which is then found no more.                           *)
LEMMA AppendAdds ==
  ASSUME NEW file \in SoundFile, NEW lines \in Seq(Sound), NEW end \in Ends, Whole(lines),
         Ordered(lines), Follows(file.lines, lines)
  PROVE  LET new == AppendLines(file, lines, end)
         IN  /\ new \in SoundFile
             /\ \A i \in DOMAIN new.lines : Known(new.lines[i], file.lines, lines)
             /\ Grows(Kept(file.lines), Kept(new.lines), lines)
<1> DEFINE new == AppendLines(file, lines, end)
<1>1. /\ file.lines \in Seq(Sound) /\ Ordered(file.lines) /\ file \in File
      /\ file.torn \in BOOLEAN /\ (file.torn => file.lines # <<>>)
      /\ file = [lines |-> file.lines, torn |-> file.torn]
  BY DEF SoundFile, File
<1>2. new \in File
  <2>1. lines \in Seq(Line)
    <3>1. Sound \subseteq Line
      BY DEF Sound
    <3> QED
      BY <3>1
  <2> QED
    BY <1>1, <2>1, AppendTyped
<1>3. PICK old, mid, l, tail \in Seq(Sound), torn \in BOOLEAN :
        Composed(file, lines, new, old, mid, l, tail, torn)
  <2>1. LinesOf(Sound)
    BY GarbageSound DEF Sound, Line, LinesOf
  <2>2. file \in FileOf(Sound)
    BY <1>1 DEF FileOf
  <2>3. Appended(Sound, file, lines, new)
    BY <2>1, <2>2, AppendParts
  <2> QED
    BY <2>3 DEF Appended
<1> HIDE DEF new
<1>4. new.lines = (old \o mid) \o (l \o tail)
  BY <1>3 DEF Composed
<1>5. /\ Kept(mid) = <<>> /\ Ordered(mid) /\ (\A i \in DOMAIN mid : IsGarbage(mid[i]) /\ mid[i].run = 0)
      /\ Kept(tail) = <<>> /\ Ordered(tail) /\ (\A i \in DOMAIN tail : IsGarbage(tail[i]) /\ tail[i].run = 0)
  BY <1>3, PieceSound DEF Parts, Composed
<1>6. /\ l = lines \/ (lines # <<>> /\ l = Tail(lines))
      /\ Whole(l) /\ Ordered(l) /\ \A i \in DOMAIN l : \E k \in DOMAIN lines : l[i] = lines[k]
  <2>1. l = lines \/ (lines # <<>> /\ l = Tail(lines))
    BY <1>3 DEF Parts, Composed
  <2>2. CASE l = lines
    BY <2>2
  <2>3. CASE lines # <<>> /\ l = Tail(lines)
    <3>1. /\ Len(l) = Len(lines) - 1 /\ DOMAIN lines = 1..Len(lines) /\ Len(lines) \in Nat
          /\ DOMAIN l = 1..Len(l) /\ \A i \in 1..(Len(lines) - 1) : l[i] = lines[i + 1]
      BY <2>3, HeadTailProperties
    <3>2. \A i \in DOMAIN l : i \in Nat /\ i + 1 \in DOMAIN lines /\ l[i] = lines[i + 1]
      BY <3>1
    <3>3. Ordered(l)
      <4> SUFFICES ASSUME NEW i \in DOMAIN l, NEW j \in DOMAIN l, i < j PROVE Precedes(l[i], l[j])
        BY DEF Ordered
      <4>1. i + 1 < j + 1
        BY <3>2
      <4> QED
        BY <3>2, <4>1 DEF Ordered
    <3>4. Whole(l)
      BY <3>2 DEF Whole
    <3> QED
      BY <2>1, <3>2, <3>3, <3>4
  <2> QED
    BY <2>1, <2>2, <2>3
<1>7. PICK gone \in Seq(Sound) : file.lines = old \o gone /\ (gone = <<>> \/ \E x \in Sound : gone = <<x>>)
  <2>1. CASE file.lines = old
    <3>1. old = old \o <<>> /\ <<>> \in Seq(Sound)
      BY ConcatEmptySeq
    <3> QED
      BY <2>1, <3>1
  <2>2. ASSUME NEW x, file.lines = old \o <<x>>
        PROVE  x \in Sound
    <3>1. Len(old \o <<x>>) = Len(old) + 1 /\ (old \o <<x>>)[Len(old) + 1] = x /\ Len(old) \in Nat
      OBVIOUS
    <3> HIDE DEF new
    <3>2. Len(old) + 1 \in 1..Len(file.lines) /\ file.lines[Len(old) + 1] = x
      BY <2>2, <3>1
    <3> QED
      BY <1>1, <3>2
  <2>3. CASE \E x : file.lines = old \o <<x>>
    <3>1. PICK x : file.lines = old \o <<x>>
      BY <2>3
    <3>2. x \in Sound
      BY <2>2, <3>1
    <3>3. <<x>> \in Seq(Sound)
      BY <3>2
    <3> QED
      BY <3>1, <3>2, <3>3
  <2> QED
    BY <1>3, <2>1, <2>3 DEF Parts, Composed
<1>8. Ordered(old) /\ \A i \in DOMAIN old : \E k \in DOMAIN file.lines : old[i] = file.lines[k]
  <2> DEFINE u == old \o gone
  <2>1. /\ Len(u) = Len(old) + Len(gone) /\ Len(old) \in Nat /\ Len(gone) \in Nat
        /\ DOMAIN old = 1..Len(old) /\ DOMAIN u = 1..Len(u) /\ \A i \in 1..Len(old) : u[i] = old[i]
    OBVIOUS
  <2>2. u = file.lines
    BY <1>7
  <2> HIDE DEF u
  <2>3. \A i \in DOMAIN old : i \in DOMAIN u /\ u[i] = old[i]
    BY <2>1
  <2> QED
    BY <1>1, <2>2, <2>3 DEF Ordered
<1>9. Follows(old, l)
  BY <1>6, <1>8 DEF Follows
<1>10. old \o mid \in Seq(Sound) /\ Ordered(old \o mid) /\ l \o tail \in Seq(Sound) /\ Ordered(l \o tail)
  <2>1. Follows(old, mid) /\ Follows(l, tail)
    BY <1>5 DEF Follows, Precedes
  <2> QED
    BY <1>5, <1>6, <1>8, <2>1, OrderedConcat, ConcatProperties
<1>11. /\ \A i \in DOMAIN (old \o mid) : Known((old \o mid)[i], file.lines, lines)
       /\ \A i \in DOMAIN (l \o tail) : Known((l \o tail)[i], file.lines, lines)
  <2>1. \A a, b \in Seq(Sound) :
          (\A i \in DOMAIN a : Known(a[i], file.lines, lines)) /\ (\A i \in DOMAIN b : Known(b[i], file.lines, lines))
            => \A i \in DOMAIN (a \o b) : Known((a \o b)[i], file.lines, lines)
    BY KnownConcat
  <2>2. /\ \A i \in DOMAIN old : Known(old[i], file.lines, lines)
        /\ \A i \in DOMAIN mid : Known(mid[i], file.lines, lines)
        /\ \A i \in DOMAIN l : Known(l[i], file.lines, lines)
        /\ \A i \in DOMAIN tail : Known(tail[i], file.lines, lines)
    BY <1>5, <1>6, <1>8 DEF Known
  <2> QED
    BY <2>1, <2>2
<1>12. Follows(old \o mid, l \o tail)
  <2>1. \A i \in DOMAIN (old \o mid) : \/ \E k \in DOMAIN old : (old \o mid)[i] = old[k]
                                       \/ IsGarbage((old \o mid)[i])
    BY <1>5, EitherPart
  <2>2. \A i \in DOMAIN (l \o tail) : \/ \E k \in DOMAIN l : (l \o tail)[i] = l[k]
                                      \/ IsGarbage((l \o tail)[i])
    BY <1>5, EitherPart
  <2>3. \A i \in DOMAIN (old \o mid), j \in DOMAIN (l \o tail) :
          Precedes((old \o mid)[i], (l \o tail)[j])
    <3>1. \A k \in DOMAIN old, m \in DOMAIN l : Precedes(old[k], l[m])
      BY <1>9 DEF Follows
    <3>2. ASSUME NEW x, NEW y,
                 (\E k \in DOMAIN old : x = old[k]) \/ IsGarbage(x),
                 (\E k \in DOMAIN l : y = l[k]) \/ IsGarbage(y)
          PROVE  Precedes(x, y)
      <4>1. CASE IsGarbage(x) \/ IsGarbage(y)
        BY <4>1 DEF Precedes
      <4>2. CASE ~IsGarbage(x) /\ ~IsGarbage(y)
        BY <3>1, <3>2, <4>2
      <4> QED
        BY <4>1, <4>2
    <3> QED
      BY <2>1, <2>2, <3>2
  <2> QED
    BY <2>3 DEF Follows
<1>13. new.lines \in Seq(Sound) /\ Ordered(new.lines)
  BY <1>4, <1>10, <1>12, OrderedConcat, ConcatProperties
<1>14. \A i \in DOMAIN new.lines : Known(new.lines[i], file.lines, lines)
  BY <1>4, <1>10, <1>11, KnownConcat
<1>15. Kept(new.lines) = Kept(old) \o l /\ Kept(old) \in Seq(Sound)
  <2>1. Kept(old) \in Seq(Sound) /\ Kept(l) = l
    BY <1>6, KeptTyped, KeptAll DEF Whole
  <2>2. Kept(old \o mid) = Kept(old) \o <<>> /\ Kept(l \o tail) = l \o <<>>
    <3>1. Kept(old \o mid) = Kept(old) \o Kept(mid) /\ Kept(l \o tail) = Kept(l) \o Kept(tail)
      BY KeptConcat
    <3> QED
      BY <1>5, <2>1, <3>1
  <2>3. Kept(new.lines) = Kept(old \o mid) \o Kept(l \o tail)
    BY <1>4, <1>10, KeptConcat
  <2> QED
    BY <2>1, <2>2, <2>3, ConcatEmptySeq
<1>16. Shortened(Sound, Kept(file.lines), Kept(old))
  <2>1. Kept(file.lines) = Kept(old) \o Kept(gone)
    BY <1>7, KeptConcat
  <2>2. Kept(gone) = <<>> \/ \E x \in Sound : Kept(gone) = <<x>>
    <3>1. CASE gone = <<>>
      BY <3>1, KeptEmpty
    <3>2. ASSUME NEW x \in Sound, gone = <<x>>
          PROVE  Kept(gone) = <<>> \/ Kept(gone) = <<x>>
      <4>1. CASE IsGarbage(x)
        BY <3>2, <4>1, KeptGarbage
      <4>2. CASE ~IsGarbage(x)
        <5>1. <<x>> \in Seq(Sound) /\ \A i \in DOMAIN <<x>> : ~IsGarbage(<<x>>[i])
          BY <4>2
        <5> QED
          BY <3>2, <5>1, KeptAll
      <4> QED
        BY <4>1, <4>2
    <3> QED
      BY <1>7, <3>1, <3>2
  <2>3. Kept(old) \o <<>> = Kept(old)
    BY <1>15, ConcatEmptySeq
  <2> QED
    BY <2>1, <2>2, <2>3 DEF Shortened
<1> QED
  BY <1>2, <1>6, <1>13, <1>14, <1>15, <1>16 DEF SoundFile, Grows, new

(* No lines are in order, and so is no file.                               *)
LEMMA EmptyOrdered ==
  /\ <<>> \in Seq(Sound) /\ Ordered(<<>>) /\ Whole(<<>>) /\ Newest(<<>>)
  /\ \A s : Follows(s, <<>>) /\ Follows(<<>>, s)
BY DEF Ordered, Whole, Newest, Follows

LEMMA NoFileSound == NoFile \in SoundFile /\ NoFile.lines = <<>>
<1>1. NoFile.lines = <<>> /\ NoFile.torn = FALSE /\ <<>> \in Seq(Line)
  BY DEF NoFile
<1>2. NoFile \in File
  BY <1>1 DEF NoFile, File
<1> QED
  BY <1>1, <1>2, EmptyOrdered DEF SoundFile

(* A part of the buffer is in order with what the buffer is.               *)
IsPart(lines, a, b) ==
  /\ lines \in Seq(Sound) /\ Ordered(lines) /\ Whole(lines) /\ Newest(lines)
  /\ Follows(current.lines, lines)
  /\ \A i \in DOMAIN lines : \E k \in DOMAIN buffer : k \in a..b /\ lines[i] = buffer[k]

(* Every part of the buffer is in order.                                   *)
LEMMA PartOrdered ==
  ASSUME InOrder, NEW a \in 1..(Len(buffer) + 1), NEW b \in 0..Len(buffer)
  PROVE  IsPart(SubSeq(buffer, a, b), a, b)
<1> DEFINE lines == SubSeq(buffer, a, b)
<1>1. buffer \in Seq(Sound) /\ Len(buffer) \in Nat /\ DOMAIN buffer = 1..Len(buffer)
  BY DEF InOrder
<1>2. /\ lines \in Seq(Sound) /\ Len(lines) = IF a <= b THEN b - a + 1 ELSE 0
      /\ \A i \in 1..(b - a + 1) : lines[i] = buffer[a + i - 1]
  <2>1. a \in Int /\ b \in Int /\ \A i \in a..b : buffer[i] \in Sound
    BY <1>1
  <2> QED
    BY <2>1, SubSeqProperties
<1> HIDE DEF lines
<1>3. \A i \in DOMAIN lines : /\ i \in Nat /\ a + i - 1 \in a..b /\ a + i - 1 \in DOMAIN buffer
                              /\ lines[i] = buffer[a + i - 1]
  <2>1. a \in Nat /\ b \in Nat /\ b <= Len(buffer) /\ a >= 1
    BY <1>1
  <2>2. DOMAIN lines = 1..Len(lines)
    BY <1>2
  <2>3. \A i \in DOMAIN lines : i \in Nat /\ i \in 1..(b - a + 1)
    BY <1>2, <2>1, <2>2
  <2>4. \A i \in 1..(b - a + 1) : a + i - 1 \in a..b /\ a + i - 1 \in 1..Len(buffer)
    BY <1>1, <2>1
  <2> QED
    BY <1>1, <1>2, <2>3, <2>4
<1>4. Ordered(lines)
  <2> SUFFICES ASSUME NEW i \in DOMAIN lines, NEW j \in DOMAIN lines, i < j
               PROVE  Precedes(lines[i], lines[j])
    BY DEF Ordered
  <2>1. a + i - 1 < a + j - 1
    BY <1>3
  <2> QED
    BY <1>3, <2>1 DEF InOrder, Ordered
<1>5. Whole(lines) /\ Newest(lines) /\ Follows(current.lines, lines)
  BY <1>3 DEF InOrder, Whole, Newest, Follows
<1> QED
  BY <1>2, <1>3, <1>4, <1>5 DEF IsPart, lines

(* No file and no line changes, but for what is emptied.                   *)
LEMMA SameInOrder ==
  ASSUME InOrder, UNCHANGED run, rotated' \in Seq(SoundFile),
         current' = current \/ current' = NoFile, buffer' = buffer \/ buffer' = <<>>,
         up' # "down" => up # "down" /\ seq' = seq, pc' # "idle" => up' # "down"
  PROVE  InOrder'
<1>1. current' \in SoundFile /\ (current'.lines = current.lines \/ current'.lines = <<>>)
  BY NoFileSound DEF InOrder
<1>2. buffer' \in Seq(Sound) /\ Ordered(buffer') /\ Whole(buffer') /\ Follows(current'.lines, buffer')
  BY <1>1, EmptyOrdered DEF InOrder
<1>3. Newest(current.lines)' /\ Newest(buffer)'
  BY <1>1 DEF InOrder, Newest
<1> QED
  BY <1>1, <1>2, <1>3 DEF InOrder

(* Lines move from the front of the buffer to the end of the file.         *)
LEMMA FlushInOrder ==
  ASSUME TypeOK, InOrder, UNCHANGED <<run, rotated>>,
         NEW n \in 0..Len(buffer), NEW m \in n..Len(buffer), NEW end \in Ends,
         current' = AppendLines(current, SubSeq(buffer, 1, n), end),
         buffer' = SubSeq(buffer, m + 1, Len(buffer)) \/ buffer' = <<>>,
         up' # "down" => up # "down" /\ seq' = seq, pc' # "idle" => up' # "down"
  PROVE  InOrder'
<1> DEFINE lines == SubSeq(buffer, 1, n)  rest == SubSeq(buffer, m + 1, Len(buffer))
<1>1. Len(buffer) \in Nat /\ 1 \in 1..(Len(buffer) + 1) /\ m + 1 \in 1..(Len(buffer) + 1)
      /\ Len(buffer) \in 0..Len(buffer)
  BY DEF InOrder
<1>2. lines = SubSeq(buffer, 1, n) /\ rest = SubSeq(buffer, m + 1, Len(buffer))
  OBVIOUS
<1> HIDE DEF lines, rest
<1>3. IsPart(lines, 1, n)
  BY <1>1, <1>2, PartOrdered
<1>12. IsPart(rest, m + 1, Len(buffer))
  BY <1>1, <1>2, PartOrdered
<1>4. Follows(lines, rest)
  <2> SUFFICES ASSUME NEW i \in DOMAIN lines, NEW j \in DOMAIN rest
               PROVE  Precedes(lines[i], rest[j])
    BY DEF Follows
  <2>1. PICK k \in DOMAIN buffer : k \in 1..n /\ lines[i] = buffer[k]
    BY <1>3 DEF IsPart
  <2>2. PICK l \in DOMAIN buffer : l \in (m + 1)..Len(buffer) /\ rest[j] = buffer[l]
    BY <1>12 DEF IsPart
  <2>3. k < l
    BY <1>1, <2>1, <2>2
  <2> QED
    BY <2>1, <2>2, <2>3 DEF InOrder, Ordered
<1>5. /\ current' \in SoundFile
      /\ \A i \in DOMAIN current'.lines : Known(current'.lines[i], current.lines, lines)
  <2>1. current \in SoundFile
    BY DEF InOrder
  <2> QED
    BY <1>2, <1>3, <2>1, AppendAdds DEF IsPart
<1>6. buffer' = rest \/ buffer' = <<>>
  BY <1>2
<1>7. buffer' \in Seq(Sound) /\ Ordered(buffer') /\ Whole(buffer')
  BY <1>6, <1>12, EmptyOrdered DEF IsPart
<1>8. Follows(current'.lines, rest)
  <2> SUFFICES ASSUME NEW i \in DOMAIN current'.lines, NEW j \in DOMAIN rest
               PROVE  Precedes(current'.lines[i], rest[j])
    BY DEF Follows
  <2>1. CASE \E k \in DOMAIN current.lines : current'.lines[i] = current.lines[k]
    BY <1>12, <2>1 DEF Follows, IsPart
  <2>2. CASE \E k \in DOMAIN lines : current'.lines[i] = lines[k]
    BY <1>4, <2>2 DEF Follows
  <2>3. CASE IsGarbage(current'.lines[i])
    BY <2>3 DEF Precedes
  <2> QED
    BY <1>5, <2>1, <2>2, <2>3 DEF Known
<1>9. Follows(current'.lines, buffer')
  BY <1>6, <1>8, EmptyOrdered
<1>10. Newest(buffer)'
  BY <1>6, <1>12 DEF Newest, IsPart
<1>11. Newest(current.lines)'
  <2>1. run \in Nat
    BY DEF TypeOK
  <2> SUFFICES ASSUME NEW i \in DOMAIN current'.lines
               PROVE  /\ current'.lines[i].run <= run'
                      /\ (up' # "down" /\ current'.lines[i].run = run' => current'.lines[i].seq <= seq')
    BY DEF Newest
  <2>2. CASE \E k \in DOMAIN current.lines : current'.lines[i] = current.lines[k]
    BY <2>2 DEF InOrder, Newest
  <2>3. CASE \E k \in DOMAIN lines : current'.lines[i] = lines[k]
    BY <1>3, <2>3 DEF IsPart, Newest
  <2>4. CASE IsGarbage(current'.lines[i]) /\ current'.lines[i].run = 0
    BY <2>1, <2>4 DEF InOrder
  <2> QED
    BY <1>5, <2>2, <2>3, <2>4 DEF Known
<1> QED
  BY <1>5, <1>7, <1>9, <1>10, <1>11 DEF InOrder

(* A new line has a number greater than any its run has given.             *)
LEMMA HandleInOrder ==
  ASSUME TypeOK, InOrder, NEW sampled, Handle(sampled)
  PROVE  InOrder'
<1> DEFINE size == Head(channel).size
           line == [id |-> Head(channel).id, run |-> run, seq |-> seq + 1, size |-> size]
           n    == Evicted(size)
           kept == SubSeq(buffer, n + 1, Len(buffer))
<1>1. line \in Line
  <2>1. channel # <<>> /\ channel \in Seq(Event)
    BY DEF Handle, TypeOK
  <2>2. Head(channel) \in Event
    BY <2>1
  <2>3. size \in Sizes /\ Head(channel).id \in Nat
    BY <2>2 DEF Event
  <2>4. size \in Nat \ {0}
    BY <2>3, LogAssumption DEF LogAssumption
  <2>5. run \in Nat /\ seq + 1 \in Nat
    BY DEF TypeOK
  <2> QED
    BY <2>3, <2>4, <2>5, LineTyped
<1>2. up = "running" /\ run \in Nat \ {0} /\ seq \in Nat
  BY DEF Handle, InOrder, TypeOK
<1>3. line.run = run /\ line.seq = seq + 1 /\ line \in Sound /\ ~IsGarbage(line)
  BY <1>1, <1>2 DEF Sound, IsGarbage
<1>4. n \in 0..Len(buffer)
  BY EvictedEnough DEF TypeOK
<1>5. /\ UNCHANGED <<rotated, current, run, up>> /\ seq' \in {seq, seq + 1}
      /\ buffer' = buffer \/ (seq' = seq + 1 /\ buffer' = Append(kept, line))
  BY DEF Handle, disk
<1> HIDE DEF size, line, n
<1>6. /\ kept \in Seq(Sound) /\ Ordered(kept) /\ Whole(kept) /\ Newest(kept) /\ Follows(current.lines, kept)
  <2>1. n + 1 \in 1..(Len(buffer) + 1) /\ Len(buffer) \in 0..Len(buffer)
    BY <1>4 DEF InOrder
  <2>2. IsPart(kept, n + 1, Len(buffer))
    BY <2>1, PartOrdered
  <2> QED
    BY <2>2 DEF IsPart
<1> HIDE DEF kept
<1>7. pc' # "idle" => up' # "down"
  BY <1>2, <1>5
<1>8. Newest(current.lines)'
  <2> SUFFICES ASSUME NEW i \in DOMAIN current.lines
               PROVE  /\ current.lines[i].run <= run
                      /\ (current.lines[i].run = run => current.lines[i].seq <= seq')
    BY <1>5 DEF Newest
  <2>1. current.lines[i] \in Sound
    BY DEF InOrder, SoundFile
  <2>2. current.lines[i].run <= run /\ (current.lines[i].run = run => current.lines[i].seq <= seq)
    BY <1>2 DEF InOrder, Newest
  <2>3. current.lines[i].seq \in Nat
    BY <2>1 DEF Sound, Line
  <2> QED
    BY <1>2, <1>5, <2>2, <2>3
<1>9. CASE buffer' = buffer
  <2>1. Newest(buffer)'
    BY <1>2, <1>5, <1>9 DEF InOrder, Newest, Sound, Line
  <2> QED
    BY <1>5, <1>7, <1>8, <1>9, <2>1 DEF InOrder
<1>10. CASE seq' = seq + 1 /\ buffer' = Append(kept, line)
  <2> DEFINE new == Append(kept, line)
  <2>1. /\ new \in Seq(Sound) /\ Len(new) = Len(kept) + 1 /\ new[Len(kept) + 1] = line
        /\ \A i \in 1..Len(kept) : new[i] = kept[i]
    BY <1>3, <1>6, AppendProperties
  <2>2. Len(kept) \in Nat /\ DOMAIN kept = 1..Len(kept)
    BY <1>6
  <2> HIDE DEF new
  <2>3. \A i \in DOMAIN new : (i \in DOMAIN kept /\ new[i] = kept[i]) \/ (i = Len(kept) + 1 /\ new[i] = line)
    BY <2>1, <2>2
  <2>4. \A i \in DOMAIN kept : Precedes(kept[i], line)
    <3> TAKE i \in DOMAIN kept
    <3>1. kept[i] \in Sound
      BY <1>6
    <3>2. kept[i].run <= run /\ (kept[i].run = run => kept[i].seq <= seq)
      BY <1>2, <1>6 DEF Newest
    <3>3. kept[i].run \in Nat /\ kept[i].seq \in Nat
      BY <3>1 DEF Sound, Line
    <3> QED
      BY <1>2, <1>3, <3>2, <3>3 DEF Precedes
  <2>5. Ordered(new)
    <3> SUFFICES ASSUME NEW i \in DOMAIN new, NEW j \in DOMAIN new, i < j
                 PROVE  Precedes(new[i], new[j])
      BY DEF Ordered
    <3>1. i \in DOMAIN kept /\ new[i] = kept[i]
      BY <2>1, <2>2, <2>3
    <3> QED
      BY <1>6, <2>3, <2>4, <3>1 DEF Ordered
  <2>6. Whole(new)
    BY <1>3, <1>6, <2>3 DEF Whole
  <2>7. Follows(current.lines, new)
    <3>1. \A i \in DOMAIN current.lines : Precedes(current.lines[i], line)
      <4> TAKE i \in DOMAIN current.lines
      <4>1. current.lines[i] \in Sound
        BY DEF InOrder, SoundFile
      <4>2. current.lines[i].run <= run /\ (current.lines[i].run = run => current.lines[i].seq <= seq)
        BY <1>2 DEF InOrder, Newest
      <4>3. current.lines[i].run \in Nat /\ current.lines[i].seq \in Nat
        BY <4>1 DEF Sound, Line
      <4> QED
        BY <1>2, <1>3, <4>2, <4>3 DEF Precedes
    <3> QED
      BY <1>6, <2>3, <3>1 DEF Follows
  <2>8. \A i \in DOMAIN new : new[i].run <= run /\ (new[i].run = run => new[i].seq <= seq + 1)
    <3> TAKE i \in DOMAIN new
    <3>1. CASE i \in DOMAIN kept /\ new[i] = kept[i]
      <4>1. kept[i] \in Sound
        BY <1>6, <3>1
      <4>2. kept[i].run <= run /\ (kept[i].run = run => kept[i].seq <= seq)
        BY <1>2, <1>6, <3>1 DEF Newest
      <4>3. kept[i].seq \in Nat
        BY <4>1 DEF Sound, Line
      <4> QED
        BY <1>2, <3>1, <4>2, <4>3
    <3>2. CASE new[i] = line
      BY <1>2, <1>3, <3>2
    <3> QED
      BY <2>3, <3>1, <3>2
  <2>9. buffer' = new
    BY <1>10 DEF new
  <2>10. Newest(buffer)'
    BY <1>5, <1>10, <2>8, <2>9 DEF Newest
  <2> QED
    BY <1>5, <1>7, <1>8, <2>1, <2>5, <2>6, <2>7, <2>9, <2>10 DEF InOrder
<1> QED
  BY <1>5, <1>9, <1>10

-----------------------------------------------------------------------------
(* Every step keeps the lines in order                                     *)

(* At the start there is no file.                                          *)
LEMMA InitInOrder == Init => InOrder
<1> SUFFICES ASSUME Init PROVE InOrder
  OBVIOUS
<1>1. rotated = <<>> /\ current = NoFile /\ buffer = <<>> /\ up = "down" /\ pc = "idle"
  BY DEF Init
<1>2. rotated \in Seq(SoundFile)
  BY <1>1
<1> QED
  BY <1>1, <1>2, NoFileSound, EmptyOrdered DEF InOrder

(* Steps that neither write nor move a file.                               *)
LEMMA QuietInOrder ==
  ASSUME InOrder,
         \/ UNCHANGED vars \/ \E size \in Sizes : Offer(size)
         \/ FlushTick \/ Stop \/ OpenFails \/ RenameFails \/ RemoveFails \/ ListFails \/ PruneDone
  PROVE  InOrder'
<1>1. UNCHANGED <<run, rotated, current, seq>>
  BY DEF vars, memory, disk, Offer, FlushTick, Stop, OpenFails, RenameFails, RemoveFails, ListFails,
         PruneDone
<1>2. rotated' \in Seq(SoundFile)
  BY <1>1 DEF InOrder
<1>3. CASE UNCHANGED vars \/ (\E size \in Sizes : Offer(size)) \/ FlushTick \/ Stop \/ RemoveFails
  <2>1. buffer' = buffer /\ (up' # "down" => up # "down") /\ (pc' # "idle" => up' # "down")
    BY <1>3 DEF vars, memory, disk, Offer, FlushTick, Stop, RemoveFails, InOrder
  <2> QED
    BY <1>1, <1>2, <2>1, SameInOrder
<1>4. CASE OpenFails \/ RenameFails \/ ListFails \/ PruneDone
  <2>1. pc # "idle"
    BY <1>4 DEF OpenFails, RenameFails, ListFails, PruneDone
  <2>2. pc' = "idle"
    BY <1>4 DEF OpenFails, RenameFails, ListFails, PruneDone, ReturnError, Return
  <2>3. buffer' = buffer \/ buffer' = <<>>
    BY <1>4 DEF OpenFails, RenameFails, ListFails, PruneDone, Left, memory
  <2>4. up # "down"
    BY <2>1 DEF InOrder
  <2> QED
    BY <1>1, <1>2, <2>2, <2>3, <2>4, SameInOrder
<1> QED
  BY <1>3, <1>4

(* A file is renamed or removed as a whole.                                *)
LEMMA RotationInOrder ==
  ASSUME InOrder, Rotate \/ RotateOver \/ RemoveOldest
  PROVE  InOrder'
<1>1. UNCHANGED <<run, seq, buffer, up>> /\ pc # "idle"
  BY DEF Rotate, RotateOver, RemoveOldest, memory
<1>2. up # "down"
  BY <1>1 DEF InOrder
<1>3. current' = current \/ current' = NoFile
  BY DEF Rotate, RotateOver, RemoveOldest, disk
<1>4. rotated' \in Seq(SoundFile)
  <2>1. rotated \in Seq(SoundFile) /\ current \in SoundFile
    BY DEF InOrder
  <2>2. CASE Rotate
    <3>1. rotated' = rotated \/ rotated' = Append(rotated, current)
      BY <2>2 DEF Rotate, disk
    <3> QED
      BY <2>1, <3>1
  <2>3. CASE RotateOver
    BY <2>1, <2>3 DEF RotateOver
  <2>4. CASE RemoveOldest
    BY <2>1, <2>4, RemoveTyped DEF RemoveOldest
  <2> QED
    BY <2>2, <2>3, <2>4
<1> QED
  BY <1>1, <1>2, <1>3, <1>4, SameInOrder

(* What is written is the oldest part of the buffer, and leaves it.        *)
LEMMA StoreInOrder ==
  ASSUME TypeOK, InOrder,
         \/ Write
         \/ \E i \in 1..MaxEvents, n \in 0..MaxEvents, end \in Ends : WriteFails(i, n, end)
         \/ \E n \in 0..MaxEvents, end \in Ends : FlushFails(n, end)
  PROVE  InOrder'
<1>1. UNCHANGED <<run, rotated, seq>> /\ pc = "write"
  BY DEF Write, WriteFails, FlushFails
<1>2. up # "down"
  BY <1>1 DEF InOrder
<1>3. buffer \in Seq(Line) /\ Len(buffer) \in Nat /\ DOMAIN buffer = 1..Len(buffer)
  BY DEF TypeOK
<1>4. CASE Write
  <2>1. SubSeq(buffer, 1, Len(buffer)) = buffer
    BY <1>3
  <2>2. /\ current' = AppendLines(current, SubSeq(buffer, 1, Len(buffer)), "line")
        /\ buffer' = <<>> /\ up' = up
    BY <1>4, <2>1 DEF Write
  <2>3. Len(buffer) \in 0..Len(buffer) /\ Len(buffer) \in Len(buffer)..Len(buffer)
    BY <1>3
  <2> QED
    BY <1>1, <1>2, <2>2, <2>3, FlushInOrder DEF Ends
<1>5. ASSUME NEW i \in 1..MaxEvents, NEW n \in 0..MaxEvents, NEW end \in Ends, WriteFails(i, n, end)
      PROVE  InOrder'
  <2>1. /\ i \in DOMAIN buffer /\ n <= i
        /\ current' = AppendLines(current, SubSeq(buffer, 1, n), end)
        /\ buffer' = SubSeq(buffer, i + 1, Len(buffer)) \/ buffer' = <<>>
        /\ pc' = "idle"
    BY <1>5 DEF WriteFails, Left, Return
  <2>2. n \in 0..Len(buffer) /\ i \in n..Len(buffer)
    BY <1>3, <2>1, LogAssumption DEF LogAssumption
  <2> QED
    BY <1>1, <1>2, <2>1, <2>2, FlushInOrder
<1>6. ASSUME NEW n \in 0..MaxEvents, NEW end \in Ends, FlushFails(n, end)
      PROVE  InOrder'
  <2>1. /\ n <= Len(buffer)
        /\ current' = AppendLines(current, SubSeq(buffer, 1, n), end)
        /\ buffer' = <<>> /\ pc' = "idle"
    BY <1>6 DEF FlushFails, Return
  <2>2. n \in 0..Len(buffer) /\ Len(buffer) \in n..Len(buffer)
    BY <1>3, <2>1, LogAssumption DEF LogAssumption
  <2> QED
    BY <1>1, <1>2, <2>1, <2>2, FlushInOrder
<1> QED
  BY <1>4, <1>5, <1>6

(* A new run has a number that no file has.                                *)
LEMMA StartInOrder ==
  ASSUME TypeOK, InOrder, Start
  PROVE  InOrder'
<1>1. /\ run' = run + 1 /\ run \in Nat /\ UNCHANGED <<rotated, current>>
      /\ buffer' = <<>> /\ seq' = 0 /\ up' # "down"
  BY DEF Start, Forget, TypeOK, disk
<1>2. Newest(current.lines)'
  <2> SUFFICES ASSUME NEW i \in DOMAIN current.lines
               PROVE  current.lines[i].run <= run' /\ current.lines[i].run # run'
    BY <1>1 DEF Newest
  <2>1. current.lines[i].run <= run
    BY DEF InOrder, Newest
  <2>2. current.lines[i].run \in Nat
    BY DEF InOrder, SoundFile, Sound, Line
  <2> QED
    BY <1>1, <2>1, <2>2
<1>3. Newest(buffer)'
  BY <1>1, EmptyOrdered DEF Newest
<1>4. run' >= 1
  BY <1>1
<1> QED
  BY <1>1, <1>2, <1>3, <1>4, EmptyOrdered DEF InOrder

(* What a crash leaves of a write is its first part.                       *)
LEMMA CrashInOrder ==
  ASSUME TypeOK, InOrder, NEW n \in 0..MaxEvents, NEW end \in Ends, Crash(n, end)
  PROVE  InOrder'
<1>1. UNCHANGED <<run, rotated>> /\ buffer' = <<>> /\ up' = "down" /\ pc' = "idle"
  BY DEF Crash, Forget
<1>2. CASE pc = "write"
  <2>1. /\ n <= Len(buffer)
        /\ current' = AppendLines(current, SubSeq(buffer, 1, n), end)
    BY <1>2 DEF Crash
  <2>2. n \in 0..Len(buffer) /\ Len(buffer) \in n..Len(buffer)
    BY <2>1, LogAssumption DEF TypeOK, LogAssumption
  <2> QED
    BY <1>1, <2>1, <2>2, FlushInOrder
<1>3. CASE pc # "write"
  <2>1. current' = current /\ rotated' \in Seq(SoundFile)
    BY <1>1, <1>3 DEF Crash, InOrder
  <2> QED
    BY <1>1, <2>1, SameInOrder
<1> QED
  BY <1>2, <1>3

(* Every step keeps the lines in order.                                    *)
LEMMA NextInOrder ==
  ASSUME TypeOK, InOrder, [Next]_vars
  PROVE  InOrder'
<1>1. CASE \/ UNCHANGED vars \/ \E size \in Sizes : Offer(size)
           \/ FlushTick \/ Stop \/ OpenFails \/ RenameFails \/ RemoveFails \/ ListFails \/ PruneDone
  BY <1>1, QuietInOrder
<1>2. CASE Rotate \/ RotateOver \/ RemoveOldest
  BY <1>2, RotationInOrder
<1>3. CASE \/ Write
           \/ \E i \in 1..MaxEvents, n \in 0..MaxEvents, end \in Ends : WriteFails(i, n, end)
           \/ \E n \in 0..MaxEvents, end \in Ends : FlushFails(n, end)
  BY <1>3, StoreInOrder
<1>4. CASE \E sampled \in SampleAnswers : Handle(sampled)
  BY <1>4, HandleInOrder
<1>5. CASE Start
  BY <1>5, StartInOrder
<1>6. CASE \E n \in 0..MaxEvents, end \in Ends : Crash(n, end)
  BY <1>6, CrashInOrder
<1> QED
  BY <1>1, <1>2, <1>3, <1>4, <1>5, <1>6 DEF Next, LoggerStep, FileStep

-----------------------------------------------------------------------------
(* What waits and what is stored, in ids                                   *)

(* The ids that a reader finds in some files.                              *)
Found(r, c) == Ids(StoredOf(r)) \o Ids(Kept(c.lines))

(* A file that is last among the rotated ones is read like the current     *)
(* one.                                                                    *)
LEMMA FoundIs ==
  ASSUME NEW r \in Seq(SoundFile), NEW c \in SoundFile
  PROVE  /\ Ids(StoredOf(Append(r, c))) = Found(r, c)
         /\ Ids(StoredOf(r)) \in Seq(Nat) /\ Ids(Kept(c.lines)) \in Seq(Nat)
         /\ Found(r, c) \in Seq(Nat)
<1>1. Append(r, c) = r \o <<c>> /\ <<c>> \in Seq(SoundFile)
  OBVIOUS
<1>2. StoredOf(r \o <<c>>) = StoredOf(r) \o StoredOf(<<c>>) /\ StoredOf(r) \in Seq(Sound)
  BY <1>1, StoredConcat
<1>3. StoredOf(<<c>>) = Kept(c.lines) /\ Kept(c.lines) \in Seq(Sound)
  BY StoredOne
<1>4. \A x \in Sound : x.id \in Nat
  BY DEF Sound, Line
<1>5. Ids(StoredOf(r)) \in Seq(Nat) /\ Ids(Kept(c.lines)) \in Seq(Nat)
  BY <1>2, <1>3, <1>4, IdsTyped
<1>6. Ids(StoredOf(r) \o Kept(c.lines)) = Ids(StoredOf(r)) \o Ids(Kept(c.lines))
  BY <1>2, <1>3, <1>4, IdsConcat
<1>7. Found(r, c) \in Seq(Nat)
  BY <1>5, ConcatProperties DEF Found
<1> QED
  BY <1>1, <1>2, <1>3, <1>5, <1>6, <1>7 DEF Found

(* Found is what the replay finds, before a step and after it.             *)
LEMMA StoredIs ==
  /\ StoredEvents = StoredOf(Append(rotated, current))
  /\ StoredEvents' = StoredOf(Append(rotated', current'))
BY DEF StoredEvents, StoredOf, Storing!Fold, FoldLeft, MapThenFoldSet, Max, Storing!FoldLeft,
       Storing!MapThenFoldSet, Storing!Max, StoreOp

(* Found is what the replay finds, before a step and after it.             *)
LEMMA FoundNow ==
  ASSUME InOrder
  PROVE  Ids(StoredEvents) = Found(rotated, current)
BY StoredIs, FoundIs DEF InOrder

LEMMA FoundNext ==
  ASSUME InOrder'
  PROVE  Ids(StoredEvents') = Found(rotated', current')
<1>2. rotated' \in Seq(SoundFile) /\ current' \in SoundFile
  BY DEF InOrder
<1> QED
  BY <1>2, StoredIs, FoundIs

(* The ids that wait.                                                      *)
LEMMA WaitingTyped ==
  ASSUME TypeOK
  PROVE  /\ Ids(buffer) \in Seq(Nat) /\ Ids(channel) \in Seq(Nat)
         /\ Len(Ids(buffer)) = Len(buffer) /\ Len(Ids(channel)) = Len(channel)
         /\ PendingEvents \in Seq(Nat)
<1>1. (\A x \in Line : x.id \in Nat) /\ (\A x \in Event : x.id \in Nat)
  BY DEF Line, Event
<1>2. buffer \in Seq(Line) /\ channel \in Seq(Event)
  BY DEF TypeOK
<1>3. Ids(buffer) \in Seq(Nat) /\ Len(Ids(buffer)) = Len(buffer)
  BY <1>1, <1>2, IdsTyped
<1>4. Ids(channel) \in Seq(Nat) /\ Len(Ids(channel)) = Len(channel)
  BY <1>1, <1>2, IdsTyped
<1> QED
  BY <1>3, <1>4, ConcatProperties DEF PendingEvents

(* Two parts of what waits, in ids.                                        *)
LEMMA LineIds ==
  ASSUME NEW s \in Seq(Line), NEW t \in Seq(Line)
  PROVE  /\ Ids(s \o t) = Ids(s) \o Ids(t)
         /\ Ids(s) \in Seq(Nat) /\ Len(Ids(s)) = Len(s)
<1>1. \A x \in Line : x.id \in Nat
  BY DEF Line
<1> QED
  BY <1>1, IdsTyped, IdsConcat

(* The same for what is in the channel.                                    *)
LEMMA EventIds ==
  ASSUME NEW s \in Seq(Event), NEW t \in Seq(Event)
  PROVE  /\ Ids(s \o t) = Ids(s) \o Ids(t)
         /\ Ids(s) \in Seq(Nat) /\ Len(Ids(s)) = Len(s)
<1>1. \A x \in Event : x.id \in Nat
  BY DEF Event
<1> QED
  BY <1>1, IdsTyped, IdsConcat

(* The ids of one element, and of none.                                    *)
LEMMA OneId == \A x : Ids(<<x>>) = <<x.id>>
BY DEF Ids

LEMMA NoIds == Ids(<<>>) = <<>>
BY DEF Ids

-----------------------------------------------------------------------------
(* Steps that lose, or do not concern the log                              *)

(* A step that only leaves out some of what waits.                         *)
LEMMA LoseStep ==
  ASSUME UNCHANGED <<recorded, disk>>, Log!Adds(<<>>, PendingEvents, PendingEvents')
  PROVE  Log!LogNext
<1>1. StoredEvents' = StoredEvents
  BY StoredIs DEF disk
<1>2. Log!Lose
  BY <1>1 DEF Log!Lose
<1> QED
  BY <1>2 DEF Log!LogNext

(* What waited is forgotten, or only what is in the buffer is left.        *)
LEMMA ForgetStep ==
  ASSUME TypeOK, UNCHANGED <<recorded, disk>>, channel' = <<>>, buffer' = <<>> \/ buffer' = buffer
  PROVE  Log!LogNext
<1>1. Ids(buffer) \in Seq(Nat) /\ Ids(channel) \in Seq(Nat) /\ PendingEvents \in Seq(Nat)
  BY WaitingTyped
<1>2. PendingEvents' = Ids(buffer') \o <<>>
  BY NoIds DEF PendingEvents
<1>3. CASE buffer' = <<>>
  <2>1. PendingEvents' = <<>>
    BY <1>2, <1>3, NoIds
  <2>2. <<>> \in Seq(Nat)
    OBVIOUS
  <2>3. Log!Adds(<<>>, PendingEvents, <<>>)
    BY <1>1, <2>2, AddsNone
  <2> QED
    BY <2>1, <2>3, LoseStep
<1>4. CASE buffer' = buffer
  <2> DEFINE a == Ids(buffer)  b == Ids(channel)
  <2>1. a \in Seq(Nat) /\ b \in Seq(Nat) /\ <<>> \in Seq(Nat)
    BY <1>1
  <2>2. PendingEvents = a \o b /\ PendingEvents' = a \o <<>>
    BY <1>2, <1>4 DEF PendingEvents
  <2> HIDE DEF a, b
  <2>3. Log!Adds(<<>>, (a \o b) \o <<>>, <<>> \o (a \o <<>>))
    BY <2>1, CutAdds
  <2>4. (a \o b) \o <<>> = a \o b /\ a \o <<>> = a /\ <<>> \o a = a
    BY <2>1, ConcatEmptySeq, ConcatProperties
  <2>5. Log!Adds(<<>>, PendingEvents, PendingEvents')
    BY <2>2, <2>3, <2>4
  <2> QED
    BY <2>5, LoseStep
<1> QED
  BY <1>3, <1>4

(* A step of the task that a reader and a producer do not see.             *)
LEMMA StutterStep ==
  ASSUME UNCHANGED <<recorded, disk, channel, buffer>>
  PROVE  UNCHANGED Log!logVars
<1>1. StoredEvents' = StoredEvents
  BY StoredIs DEF disk
<1> QED
  BY <1>1 DEF Log!logVars, PendingEvents

-----------------------------------------------------------------------------
(* Producers and the logger task                                           *)

(* Concatenation is associative.                                           *)
LEMMA Regroup ==
  ASSUME NEW a \in Seq(Nat), NEW b \in Seq(Nat), NEW c \in Seq(Nat)
  PROVE  (a \o b) \o c = a \o (b \o c)
OBVIOUS

(* An event is accepted as the newest that waits, or dropped.              *)
LEMMA OfferImplements ==
  ASSUME TypeOK, NEW size \in Sizes, Offer(size)
  PROVE  Log!LogNext
<1> DEFINE event == [id |-> recorded', size |-> size]
<1>1. /\ recorded' = recorded + 1 /\ UNCHANGED <<buffer, disk>>
      /\ channel' = channel \/ channel' = Append(channel, event)
  BY DEF Offer
<1>2. event \in Event /\ event.id = recorded'
  BY <1>1 DEF Event, TypeOK
<1> HIDE DEF event
<1>3. StoredEvents' = StoredEvents
  BY <1>1, StoredIs DEF disk
<1>4. PendingEvents' = PendingEvents \/ PendingEvents' = Append(PendingEvents, recorded')
  <2>1. CASE channel' = channel
    BY <1>1, <2>1 DEF PendingEvents
  <2>2. CASE channel' = Append(channel, event)
    <3>1. channel \in Seq(Event) /\ <<event>> \in Seq(Event)
      BY <1>2 DEF TypeOK
    <3>2. Append(channel, event) = channel \o <<event>>
      BY <3>1
    <3>3. Ids(channel \o <<event>>) = Ids(channel) \o Ids(<<event>>)
      BY <3>1, EventIds
    <3>4. PendingEvents' = Ids(buffer) \o (Ids(channel) \o <<recorded'>>)
      BY <1>1, <1>2, <2>2, <3>2, <3>3, OneId DEF PendingEvents
    <3>5. /\ Ids(buffer) \in Seq(Nat) /\ Ids(channel) \in Seq(Nat) /\ PendingEvents \in Seq(Nat)
          /\ <<recorded'>> \in Seq(Nat)
      BY <1>1, WaitingTyped DEF TypeOK
    <3>6. PendingEvents' = PendingEvents \o <<recorded'>>
      BY <3>4, <3>5, ConcatAssociative DEF PendingEvents
    <3>7. PendingEvents \o <<recorded'>> = Append(PendingEvents, recorded')
      BY <3>5
    <3> QED
      BY <3>6, <3>7
  <2> QED
    BY <1>1, <2>1, <2>2
<1>5. Log!Record
  BY <1>1, <1>3, <1>4 DEF Log!Record
<1> QED
  BY <1>5 DEF Log!LogNext

(* The head of the channel is sampled out or too large, or the oldest lines*)
(* make room for it.                                                       *)
LEMMA HandleImplements ==
  ASSUME TypeOK, NEW sampled, Handle(sampled)
  PROVE  Log!LogNext
<1> DEFINE h == Head(channel)  rest == Tail(channel)
           line == [id |-> h.id, run |-> run, seq |-> seq + 1, size |-> h.size]
           n == Evicted(h.size)
           gone == SubSeq(buffer, 1, n)
           kept == SubSeq(buffer, n + 1, Len(buffer))
<1>1. UNCHANGED <<recorded, disk>> /\ channel' = rest
  BY DEF Handle
<1>2. buffer' = buffer \/ buffer' = Append(kept, line)
  BY DEF Handle
<1>3. channel \in Seq(Event) /\ channel # <<>> /\ buffer \in Seq(Line)
  BY DEF Handle, TypeOK
<1>4. channel = <<h>> \o rest /\ h \in Event /\ <<h>> \in Seq(Event) /\ rest \in Seq(Event)
  BY <1>3
<1>5. n \in 0..Len(buffer)
  BY EvictedEnough DEF TypeOK
<1>6. gone \in Seq(Line) /\ kept \in Seq(Line) /\ buffer = gone \o kept
  BY <1>3, <1>5, Cut
<1>7. line \in Line /\ line.id = h.id
  <2>1. h.id \in Nat /\ h.size \in Sizes
    BY <1>4 DEF Event
  <2>2. h.size \in Nat \ {0}
    BY <2>1, LogAssumption DEF LogAssumption
  <2>3. run \in Nat /\ seq + 1 \in Nat
    BY DEF TypeOK
  <2> QED
    BY <2>1, <2>2, <2>3, LineTyped
<1> HIDE DEF h, rest, line, n, gone, kept
<1> DEFINE H == <<h.id>>  T == Ids(rest)  B == Ids(buffer)  G == Ids(gone)  K == Ids(kept)
<1>8. /\ H \in Seq(Nat) /\ T \in Seq(Nat) /\ B \in Seq(Nat) /\ G \in Seq(Nat) /\ K \in Seq(Nat)
      /\ Ids(channel) = H \o T
  <2>1. Ids(<<h>> \o rest) = Ids(<<h>>) \o Ids(rest) /\ Ids(<<h>>) \in Seq(Nat)
    BY <1>4, EventIds
  <2>2. Ids(rest) \in Seq(Nat)
    BY <1>4, EventIds
  <2> QED
    BY <1>3, <1>4, <1>6, <2>1, <2>2, OneId, LineIds
<1>9. B = G \o K
  BY <1>6, LineIds
<1>10. PendingEvents = B \o (H \o T)
  BY <1>8 DEF PendingEvents
<1>11. CASE buffer' = buffer
  <2>1. PendingEvents' = B \o T
    BY <1>1, <1>11 DEF PendingEvents
  <2> HIDE DEF H, T, B, G, K
  <2>2. Log!Adds(<<>>, (B \o H) \o T, <<>> \o (B \o T))
    BY <1>8, CutAdds
  <2>3. (B \o H) \o T = B \o (H \o T)
    <3>1. B \in Seq(Nat) /\ H \in Seq(Nat) /\ T \in Seq(Nat)
      BY <1>8
    <3> QED
      BY <3>1, Regroup
  <2>4. <<>> \o (B \o T) = B \o T
    BY <1>8, ConcatProperties, ConcatEmptySeq
  <2>5. Log!Adds(<<>>, PendingEvents, PendingEvents')
    BY <1>10, <2>1, <2>2, <2>3, <2>4
  <2> QED
    BY <1>1, <2>5, LoseStep
<1>12. CASE buffer' = Append(kept, line)
  <2>1. Append(kept, line) = kept \o <<line>> /\ <<line>> \in Seq(Line)
    BY <1>6, <1>7
  <2>2. Ids(kept \o <<line>>) = Ids(kept) \o Ids(<<line>>)
    BY <1>6, <2>1, LineIds
  <2>3. PendingEvents' = (K \o H) \o T
    BY <1>1, <1>7, <1>12, <2>1, <2>2, OneId DEF PendingEvents
  <2> HIDE DEF H, T, B, G, K
  <2>4. (K \o H) \o T \in Seq(Nat) /\ H \o T \in Seq(Nat)
    BY <1>8, ConcatProperties
  <2>5. Log!Adds(<<>>, G \o ((K \o H) \o T), <<>> \o ((K \o H) \o T))
    BY <1>8, <2>4, AddsTail
  <2>6. <<>> \o ((K \o H) \o T) = (K \o H) \o T
    BY <2>4, ConcatEmptySeq
  <2>7. (G \o K) \o (H \o T) = G \o ((K \o H) \o T)
    <3> G \in Seq(Nat) /\ K \in Seq(Nat) /\ H \in Seq(Nat) /\ T \in Seq(Nat)
      BY <1>8
    <3>1. (K \o H) \o T = K \o (H \o T)
      BY Regroup
    <3>2. (G \o K) \o (H \o T) = G \o (K \o (H \o T))
      <4> DEFINE HT == H \o T
      <4>1. HT \in Seq(Nat)
        BY <2>4
      <4> HIDE DEF HT
      <4>2. (G \o K) \o HT = G \o (K \o HT)
        BY <4>1, Regroup
      <4> QED
        BY <4>2 DEF HT
    <3> QED
      BY <3>1, <3>2
  <2>8. Log!Adds(<<>>, PendingEvents, PendingEvents')
    BY <1>9, <1>10, <2>3, <2>5, <2>6, <2>7
  <2> QED
    BY <1>1, <2>8, LoseStep
<1> QED
  BY <1>2, <1>11, <1>12

(* The process starts, stops, or an operation on a file fails.             *)
LEMMA QuietImplements ==
  ASSUME TypeOK,
         \/ Start \/ Stop \/ UNCHANGED vars \/ FlushTick
         \/ OpenFails \/ RenameFails \/ RemoveFails \/ ListFails \/ PruneDone
  PROVE  [Log!LogNext]_(Log!logVars)
<1>1. CASE Start \/ Stop
  <2>1. UNCHANGED <<recorded, disk>> /\ channel' = <<>> /\ (buffer' = <<>> \/ buffer' = buffer)
    BY <1>1 DEF Start, Stop, Forget
  <2> QED
    BY <2>1, ForgetStep
<1>2. CASE UNCHANGED vars \/ FlushTick \/ RemoveFails \/ PruneDone
  <2>1. UNCHANGED <<recorded, disk, channel, buffer>>
    BY <1>2 DEF vars, memory, disk, FlushTick, RemoveFails, PruneDone
  <2> QED
    BY <2>1, StutterStep
<1>3. CASE RenameFails \/ ListFails
  <2>1. UNCHANGED <<recorded, disk, buffer>> /\ (channel' = <<>> \/ channel' = channel)
    BY <1>3 DEF RenameFails, ListFails, ReturnError
  <2> QED
    BY <2>1, ForgetStep, StutterStep
<1>4. CASE OpenFails
  <2>1. UNCHANGED <<recorded, disk, channel>> /\ (buffer' = <<>> \/ buffer' = buffer)
    BY <1>4 DEF OpenFails, Left
  <2>2. CASE buffer' = buffer
    BY <2>1, <2>2, StutterStep
  <2>3. CASE buffer' = <<>>
    <3> DEFINE b == Ids(buffer)  c == Ids(channel)
    <3>1. b \in Seq(Nat) /\ c \in Seq(Nat) /\ PendingEvents = b \o c
      BY WaitingTyped DEF PendingEvents
    <3>2. PendingEvents' = <<>> \o c
      BY <2>1, <2>3, NoIds DEF PendingEvents
    <3> HIDE DEF b, c
    <3>3. Log!Adds(<<>>, b \o c, <<>> \o c)
      BY <3>1, AddsTail
    <3>4. Log!Adds(<<>>, PendingEvents, PendingEvents')
      BY <3>1, <3>2, <3>3
    <3> QED
      BY <2>1, <3>4, LoseStep
  <2> QED
    BY <2>1, <2>2, <2>3
<1> QED
  BY <1>1, <1>2, <1>3, <1>4

-----------------------------------------------------------------------------
(* Sequences of files                                                      *)

(* Files are read one after the other, in ids.                             *)
LEMMA StoredIds ==
  ASSUME NEW s \in Seq(SoundFile), NEW t \in Seq(SoundFile)
  PROVE  /\ Ids(StoredOf(s \o t)) = Ids(StoredOf(s)) \o Ids(StoredOf(t))
         /\ Ids(StoredOf(s)) \in Seq(Nat)
<1>1. StoredOf(s \o t) = StoredOf(s) \o StoredOf(t) /\ StoredOf(s) \in Seq(Sound)
  BY StoredConcat
<1>2. StoredOf(t) \in Seq(Sound)
  BY StoredConcat
<1>3. \A x \in Sound : x.id \in Nat
  BY DEF Sound, Line
<1> QED
  BY <1>1, <1>2, <1>3, IdsConcat, IdsTyped

(* Parts of a sequence around one of its elements.                         *)
LEMMA Around ==
  ASSUME NEW S, NEW s \in Seq(S), NEW i \in 1..Len(s)
  PROVE  s = (SubSeq(s, 1, i - 1) \o <<s[i]>>) \o SubSeq(s, i + 1, Len(s))
<1>1. i \in 0..Len(s) /\ 1 \in 1..Len(s) /\ i \in 1..Len(s)
  OBVIOUS
<1>2. s = SubSeq(s, 1, i) \o SubSeq(s, i + 1, Len(s))
  BY <1>1, Cut
<1>3. SubSeq(s, 1, i) = SubSeq(s, 1, i - 1) \o <<s[i]>>
  BY <1>1, SubSeqRecursiveSecond
<1> QED
  BY <1>2, <1>3

(* A new last element instead of the old one.                              *)
LEMMA ReplaceLast ==
  ASSUME NEW S, NEW s \in Seq(S), s # <<>>, NEW x \in S
  PROVE  [s EXCEPT ![Len(s)] = x] = Append(SubSeq(s, 1, Len(s) - 1), x)
<1> DEFINE n == Len(s)  d == [s EXCEPT ![n] = x]  r == SubSeq(s, 1, n - 1)  e == Append(r, x)
<1>1. n \in Nat \ {0} /\ s \in [1..n -> S]
  OBVIOUS
<1>2. /\ r \in Seq(S) /\ Len(r) = n - 1
      /\ \A i \in 1..(n - 1) : r[i] = s[i]
  BY <1>1
<1>3. d \in Seq(S) /\ Len(d) = n /\ \A i \in 1..n : d[i] = IF i = n THEN x ELSE s[i]
  BY <1>1, ExceptSeq
<1> HIDE DEF d, r, n
<1>4. /\ e \in Seq(S) /\ Len(e) = Len(r) + 1 /\ e[Len(r) + 1] = x
      /\ \A i \in 1..Len(r) : e[i] = r[i]
  BY <1>2
<1> HIDE DEF e
<1>5. Len(e) = n /\ \A i \in 1..n : d[i] = e[i]
  <2>1. Len(e) = n /\ e[n] = x /\ \A i \in 1..(n - 1) : e[i] = s[i]
    BY <1>1, <1>2, <1>4
  <2>2. \A i \in 1..n : i = n \/ i \in 1..(n - 1)
    BY <1>1
  <2> QED
    BY <1>3, <2>1, <2>2
<1>6. d = e
  BY <1>3, <1>4, <1>5, SeqEqual
<1> QED
  BY <1>6 DEF d, e, r, n

(* Leaving out the second of four parts.                                   *)
LEMMA DropMiddle ==
  ASSUME NEW a \in Seq(Nat), NEW b \in Seq(Nat), NEW d \in Seq(Nat), NEW k \in Seq(Nat)
  PROVE  Log!Adds(<<>>, ((a \o b) \o d) \o k, (a \o d) \o k)
<1> DEFINE c == d \o k
<1>1. c \in Seq(Nat) /\ a \o b \in Seq(Nat) /\ a \o c \in Seq(Nat)
  OBVIOUS
<1>2. ((a \o b) \o d) \o k = (a \o b) \o c
  <2>1. \A e \in Seq(Nat) : (e \o d) \o k = e \o (d \o k)
    BY Regroup
  <2> QED
    BY <1>1, <2>1, Zenon
<1>3. (a \o d) \o k = a \o c
  BY Regroup
<1> HIDE DEF c
<1>4. Log!Adds(<<>>, (a \o b) \o c, <<>> \o (a \o c))
  BY <1>1, CutAdds
<1>5. <<>> \o (a \o c) = a \o c
  BY <1>1, ConcatEmptySeq
<1> QED
  BY <1>2, <1>3, <1>4, <1>5 DEF c

(* A file that is not there adds nothing.                                  *)
LEMMA FoundEmpty == \A r : r \in Seq(SoundFile) => Found(r, NoFile) = Ids(StoredOf(r))
<1> TAKE r
<1> HAVE r \in Seq(SoundFile)
<1>1. Ids(Kept(NoFile.lines)) = <<>>
  BY NoFileSound, KeptEmpty, NoIds
<1>2. Ids(StoredOf(r)) \in Seq(Nat)
  BY NoFileSound, FoundIs
<1>3. Ids(StoredOf(r)) \o <<>> = Ids(StoredOf(r))
  BY <1>2, ConcatEmptySeq
<1> QED
  BY <1>1, <1>3 DEF Found

-----------------------------------------------------------------------------
(* Rotation and pruning                                                    *)

(* A step that only leaves out some of what is stored, or nothing of it.   *)
LEMMA PruneStep ==
  ASSUME InOrder, InOrder', UNCHANGED <<recorded, channel, buffer>>,
         Log!Adds(<<>>, Found(rotated, current), Found(rotated', current'))
  PROVE  Log!LogNext
<1>1. PendingEvents' = PendingEvents
  BY DEF PendingEvents
<1>2. Log!Prune
  BY <1>1, FoundNow, FoundNext DEF Log!Prune
<1> QED
  BY <1>2 DEF Log!LogNext

LEMMA SameFound ==
  ASSUME InOrder, InOrder', UNCHANGED <<recorded, channel, buffer>>,
         Found(rotated', current') = Found(rotated, current)
  PROVE  UNCHANGED Log!logVars
<1>1. PendingEvents' = PendingEvents
  BY DEF PendingEvents
<1>2. Ids(StoredEvents') = Ids(StoredEvents)
  BY FoundNow, FoundNext
<1> QED
  BY <1>1, <1>2 DEF Log!logVars

(* A rotation moves the lines from one file to another.                    *)
LEMMA RotateImplements ==
  ASSUME InOrder, InOrder', Rotate
  PROVE  UNCHANGED Log!logVars
<1>1. UNCHANGED <<recorded, channel, buffer>>
  BY DEF Rotate, memory
<1>2. \/ UNCHANGED <<rotated, current>>
      \/ current' = NoFile /\ rotated' = Append(rotated, current)
  BY DEF Rotate, disk
<1>3. rotated \in Seq(SoundFile) /\ current \in SoundFile /\ rotated' \in Seq(SoundFile)
  BY DEF InOrder
<1>4. CASE UNCHANGED <<rotated, current>>
  BY <1>1, <1>4, SameFound
<1>5. CASE current' = NoFile /\ rotated' = Append(rotated, current)
  <2>1. Found(rotated', current') = Ids(StoredOf(Append(rotated, current)))
    BY <1>3, <1>5, FoundEmpty
  <2>2. Found(rotated, current) = Ids(StoredOf(Append(rotated, current)))
    BY <1>3, FoundIs
  <2> QED
    BY <1>1, <2>1, <2>2, SameFound
<1> QED
  BY <1>2, <1>4, <1>5

(* A tie replaces the newest rotated file by the current one.              *)
LEMMA RotateOverImplements ==
  ASSUME InOrder, InOrder', RotateOver
  PROVE  Log!LogNext
<1> DEFINE n == Len(rotated)  r == SubSeq(rotated, 1, n - 1)  last == rotated[n]
<1>1. UNCHANGED <<recorded, channel, buffer>>
  BY DEF RotateOver, memory
<1>2. /\ rotated # <<>> /\ current' = NoFile /\ rotated' = [rotated EXCEPT ![Len(rotated)] = current]
      /\ rotated \in Seq(SoundFile) /\ current \in SoundFile /\ rotated' \in Seq(SoundFile)
  BY DEF RotateOver, InOrder
<1>3. n \in Nat \ {0} /\ n - 1 \in 0..n
  BY <1>2
<1>4. r \in Seq(SoundFile) /\ last \in SoundFile /\ <<last>> \in Seq(SoundFile)
  BY <1>2, <1>3
<1>5. rotated = r \o <<last>>
  BY <1>2, <1>3, <1>4
<1>6. rotated' = Append(r, current)
  BY <1>2, ReplaceLast
<1> HIDE DEF n, r, last
<1> DEFINE a == Ids(StoredOf(r))  b == Ids(StoredOf(<<last>>))  c == Ids(Kept(current.lines))
<1>7. a \in Seq(Nat) /\ b \in Seq(Nat) /\ c \in Seq(Nat)
  BY <1>2, <1>4, StoredIds, FoundIs
<1>8. Found(rotated, current) = (a \o b) \o c
  BY <1>4, <1>5, StoredIds DEF Found
<1>9. Found(rotated', current') = a \o c
  <2>1. Found(rotated', current') = Ids(StoredOf(Append(r, current)))
    BY <1>2, <1>6, FoundEmpty
  <2>2. Ids(StoredOf(Append(r, current))) = Found(r, current)
    BY <1>2, <1>4, FoundIs
  <2> QED
    BY <2>1, <2>2 DEF Found
<1> HIDE DEF a, b, c
<1>10. Log!Adds(<<>>, (a \o b) \o c, <<>> \o (a \o c))
  BY <1>7, CutAdds
<1>11. <<>> \o (a \o c) = a \o c
  BY <1>7
<1>12. Log!Adds(<<>>, Found(rotated, current), Found(rotated', current'))
  BY <1>8, <1>9, <1>10, <1>11
<1> QED
  BY <1>1, <1>12, PruneStep

(* Pruning removes one file from the middle.                               *)
LEMMA RemoveImplements ==
  ASSUME TypeOK, InOrder, InOrder', RemoveOldest
  PROVE  Log!LogNext
<1> DEFINE r == SubSeq(rotated, 1, scan - 1)  x == rotated[scan]
           t == SubSeq(rotated, scan + 1, Len(rotated))
<1>1. UNCHANGED <<recorded, channel, buffer>> /\ current' = current
  BY DEF RemoveOldest, memory
<1>2. /\ scan \in 1..Len(rotated) /\ rotated' = r \o t
      /\ rotated \in Seq(SoundFile) /\ current \in SoundFile
  BY DEF RemoveOldest, InOrder, RemoveAt
<1>3. /\ r \in Seq(SoundFile) /\ t \in Seq(SoundFile) /\ <<x>> \in Seq(SoundFile)
      /\ Len(r) = scan - 1 /\ Len(t) = Len(rotated) - scan
  BY <1>2
<1>4. rotated = (r \o <<x>>) \o t
  BY <1>2, Around
<1> HIDE DEF r, x, t
<1>5. r \o <<x>> \in Seq(SoundFile)
  BY <1>3
<1> DEFINE a == Ids(StoredOf(r))  b == Ids(StoredOf(<<x>>))  d == Ids(StoredOf(t))
           k == Ids(Kept(current.lines))
<1>6. a \in Seq(Nat) /\ b \in Seq(Nat) /\ d \in Seq(Nat) /\ k \in Seq(Nat)
  BY <1>2, <1>3, StoredIds, FoundIs
<1>7. Found(rotated, current) = ((a \o b) \o d) \o k
  <2>1. Ids(StoredOf((r \o <<x>>) \o t)) = Ids(StoredOf(r \o <<x>>)) \o d
    BY <1>3, <1>5, StoredIds
  <2>2. Ids(StoredOf(r \o <<x>>)) = a \o b
    BY <1>3, StoredIds
  <2> QED
    BY <1>4, <2>1, <2>2 DEF Found
<1>8. Found(rotated', current') = (a \o d) \o k
  BY <1>1, <1>2, <1>3, StoredIds DEF Found
<1> HIDE DEF a, b, d, k
<1>9. Log!Adds(<<>>, ((a \o b) \o d) \o k, (a \o d) \o k)
  BY <1>6, DropMiddle
<1>10. Log!Adds(<<>>, Found(rotated, current), Found(rotated', current'))
  BY <1>7, <1>8, <1>9
<1> QED
  BY <1>1, <1>10, PruneStep

-----------------------------------------------------------------------------
(* Writing                                                                 *)

(* The log without its last event, or the whole of it.                     *)
Spoiled(found, b) == b = found \/ b = SubSeq(found, 1, Len(found) - 1)

LEMMA WithoutLast ==
  ASSUME NEW S, NEW b \in Seq(S), NEW x \in S
  PROVE  SubSeq(b \o <<x>>, 1, Len(b \o <<x>>) - 1) = b
<1> DEFINE u == b \o <<x>>  v == SubSeq(u, 1, Len(u) - 1)
<1>1. /\ u \in Seq(S) /\ Len(u) = Len(b) + 1 /\ Len(b) \in Nat
      /\ \A i \in 1..Len(b) : u[i] = b[i]
  OBVIOUS
<1> HIDE DEF u
<1>2. v \in Seq(S) /\ Len(v) = Len(b) /\ \A i \in 1..Len(b) : v[i] = u[i]
  BY <1>1
<1> HIDE DEF v
<1>3. v = b
  BY <1>1, <1>2, SeqEqual
<1> QED
  BY <1>3 DEF u, v

(* A write adds what it wrote, or all of that but the first line, to what a*)
(* reader finds; only a line that lacked its newline is found no more.     *)
LEMMA FoundGrows ==
  ASSUME TypeOK, InOrder, InOrder', UNCHANGED rotated,
         NEW n \in 0..Len(buffer), NEW end \in Ends,
         current' = AppendLines(current, SubSeq(buffer, 1, n), end)
  PROVE  \E b, x, y \in Seq(Nat) :
           /\ Ids(SubSeq(buffer, 1, n)) = x \o y
           /\ Found(rotated', current') = b \o y
           /\ Spoiled(Found(rotated, current), b)
<1> DEFINE lines == SubSeq(buffer, 1, n)  new == AppendLines(current, lines, end)
           R == Ids(StoredOf(rotated))  K == Ids(Kept(current.lines))
<1>1. rotated \in Seq(SoundFile) /\ current \in SoundFile /\ current.lines \in Seq(Sound)
  BY DEF InOrder, SoundFile
<1>2. lines \in Seq(Sound) /\ Ordered(lines) /\ Whole(lines) /\ Follows(current.lines, lines)
  <2>1. 1 \in 1..(Len(buffer) + 1)
    BY DEF TypeOK
  <2> QED
    BY <2>1, PartOrdered DEF IsPart
<1> HIDE DEF lines, new
<1>3. PICK old \in Seq(Sound), part \in Seq(Sound) :
        /\ Kept(new.lines) = old \o part
        /\ Shortened(Sound, Kept(current.lines), old)
        /\ part = lines \/ (lines # <<>> /\ part = Tail(lines))
  <2>1. Grows(Kept(current.lines), Kept(new.lines), lines)
    BY <1>1, <1>2, AppendAdds DEF new
  <2> QED
    BY <2>1 DEF Grows
<1>4. \A x \in Sound : x.id \in Nat
  BY DEF Sound, Line
<1>5. Kept(current.lines) \in Seq(Sound) /\ R \in Seq(Nat) /\ K \in Seq(Nat)
  BY <1>1, StoredOne, FoundIs
<1> DEFINE q == Ids(old)  y == Ids(part)  b == R \o q
<1>6. q \in Seq(Nat) /\ y \in Seq(Nat) /\ Ids(old \o part) = q \o y
  BY <1>4, IdsConcat, IdsTyped
<1>7. b \in Seq(Nat)
  <2> HIDE DEF R, q
  <2> QED
    BY <1>5, <1>6
<1>8. Found(rotated', current') = b \o y
  <2>1. Found(rotated', current') = R \o (q \o y)
    BY <1>3, <1>6 DEF Found, new, lines
  <2> HIDE DEF R, q, y
  <2> QED
    BY <1>5, <1>6, <2>1, Regroup
<1>9. Spoiled(Found(rotated, current), b)
  <2>1. CASE old = Kept(current.lines)
    BY <2>1 DEF Spoiled, Found
  <2>2. ASSUME NEW x \in Sound, Kept(current.lines) = old \o <<x>>
        PROVE  Spoiled(Found(rotated, current), b)
    <3>1. <<x>> \in Seq(Sound) /\ x.id \in Nat
      BY <1>4
    <3>2. K = q \o <<x.id>>
      BY <1>4, <2>2, <3>1, IdsConcat, OneId
    <3> DEFINE one == <<x.id>>
    <3>3. one \in Seq(Nat)
      BY <3>1
    <3>4. Found(rotated, current) = R \o (q \o one)
      BY <3>2 DEF Found
    <3> HIDE DEF R, K, q, one
    <3>5. Found(rotated, current) = (R \o q) \o one
      BY <1>5, <1>6, <3>3, <3>4, Regroup
    <3> HIDE DEF b
    <3>6. Found(rotated, current) = b \o <<x.id>>
      BY <3>5 DEF b, one
    <3>7. SubSeq(b \o <<x.id>>, 1, Len(b \o <<x.id>>) - 1) = b
      BY <1>7, <3>1, WithoutLast
    <3> QED
      BY <3>6, <3>7 DEF Spoiled
  <2> QED
    BY <1>3, <2>1, <2>2 DEF Shortened
<1>10. \E x \in Seq(Nat) : Ids(lines) = x \o y
  <2>1. CASE part = lines
    <3>1. y = <<>> \o y /\ <<>> \in Seq(Nat)
      BY <1>6, ConcatEmptySeq
    <3> HIDE DEF y
    <3>2. Ids(lines) = y
      BY <2>1 DEF y
    <3> QED
      BY <3>1, <3>2
  <2>2. CASE lines # <<>> /\ part = Tail(lines)
    <3> DEFINE one == <<Head(lines)>>
    <3>1. one \in Seq(Sound) /\ lines = one \o part
      BY <1>2, <2>2
    <3> HIDE DEF one
    <3>2. Ids(one) \in Seq(Nat) /\ Ids(one \o part) = Ids(one) \o y
      BY <1>4, <3>1, IdsConcat, IdsTyped
    <3> QED
      BY <3>1, <3>2
  <2> QED
    BY <1>3, <2>1, <2>2
<1> HIDE DEF b, y
<1> QED
  BY <1>6, <1>7, <1>8, <1>9, <1>10 DEF lines

(* So it adds some of whatever it was the first part of.                   *)
LEMMA FoundAdds ==
  ASSUME TypeOK, InOrder, InOrder', UNCHANGED rotated,
         NEW n \in 0..Len(buffer), NEW end \in Ends,
         current' = AppendLines(current, SubSeq(buffer, 1, n), end),
         NEW rest \in Seq(Nat)
  PROVE  Log!Stores(Ids(SubSeq(buffer, 1, n)) \o rest)
<1>1. PICK b, x, y \in Seq(Nat) :
        /\ Ids(SubSeq(buffer, 1, n)) = x \o y
        /\ Found(rotated', current') = b \o y
        /\ Spoiled(Found(rotated, current), b)
  BY FoundGrows
<1>2. Log!Adds(b, (x \o y) \o rest, b \o y)
  BY CutAdds
<1>3. Log!Adds(b, Ids(SubSeq(buffer, 1, n)) \o rest, Ids(StoredEvents'))
  BY <1>1, <1>2, FoundNext
<1>4. b \in {Ids(StoredEvents), SubSeq(Ids(StoredEvents), 1, Len(Ids(StoredEvents)) - 1)}
  BY <1>1, FoundNow DEF Spoiled
<1> QED
  BY <1>3, <1>4 DEF Log!Stores

(* The two parts of a concatenation.                                       *)
LEMMA Apart ==
  ASSUME NEW S, NEW a \in Seq(S), NEW b \in Seq(S), NEW m \in Nat \ {0}, m = Len(a)
  PROVE  /\ m \in DOMAIN (a \o b)
         /\ SubSeq(a \o b, 1, m) = a /\ SubSeq(a \o b, m + 1, Len(a \o b)) = b
<1> DEFINE s == a \o b  x == SubSeq(s, 1, m)  y == SubSeq(s, m + 1, Len(s))
<1>1. /\ s \in Seq(S) /\ Len(s) = m + Len(b) /\ Len(b) \in Nat /\ DOMAIN s = 1..Len(s)
      /\ \A i \in 1..m : s[i] = a[i]
      /\ \A i \in 1..Len(b) : s[m + i] = b[i]
  OBVIOUS
<1> HIDE DEF s
<1>2. x \in Seq(S) /\ Len(x) = m /\ \A i \in 1..m : x[i] = s[i]
  BY <1>1
<1>3. y \in Seq(S) /\ Len(y) = Len(b) /\ \A i \in 1..Len(b) : y[i] = s[m + i]
  BY <1>1
<1> HIDE DEF x, y
<1>4. x = a
  BY <1>1, <1>2, SeqEqual
<1>5. y = b
  BY <1>1, <1>3, SeqEqual
<1> QED
  BY <1>1, <1>4, <1>5 DEF s, x, y

(* The oldest lines leave the buffer, some of them to the file.            *)
LEMMA StoreStep ==
  ASSUME TypeOK, InOrder, InOrder', UNCHANGED <<recorded, channel, rotated>>,
         NEW m \in 1..Len(buffer), NEW n \in 0..m, NEW end \in Ends,
         current' = AppendLines(current, SubSeq(buffer, 1, n), end),
         buffer' = SubSeq(buffer, m + 1, Len(buffer))
  PROVE  Log!LogNext
<1> DEFINE lines == SubSeq(buffer, 1, n)  gone == SubSeq(buffer, 1, m)
           more == SubSeq(gone, n + 1, m)  left == SubSeq(buffer, m + 1, Len(buffer))
<1>1. buffer \in Seq(Line) /\ m \in 0..Len(buffer) /\ n \in 0..Len(buffer)
  BY DEF TypeOK
<1>2. gone \in Seq(Line) /\ Len(gone) = m /\ left \in Seq(Line) /\ buffer = gone \o left
  BY <1>1, Cut
<1>3. lines \in Seq(Line)
  BY <1>1, Cut
<1>4. more \in Seq(Line) /\ gone = lines \o more
  <2>1. SubSeq(gone, 1, n) = lines
    BY <1>1, <1>2
  <2>2. n \in 0..Len(gone)
    BY <1>2
  <2> HIDE DEF gone
  <2>3. gone = SubSeq(gone, 1, n) \o SubSeq(gone, n + 1, Len(gone))
        /\ SubSeq(gone, n + 1, Len(gone)) \in Seq(Line)
    BY <1>2, <2>2, Cut
  <2> QED
    BY <1>2, <2>1, <2>3
<1> HIDE DEF lines, gone, more, left
<1> DEFINE g == Ids(gone)  l == Ids(left) \o Ids(channel)
<1>5. /\ Ids(lines) \in Seq(Nat) /\ Ids(more) \in Seq(Nat) /\ g = Ids(lines) \o Ids(more)
      /\ g \in Seq(Nat) /\ Len(g) = m
  BY <1>2, <1>3, <1>4, LineIds
<1>6. Ids(left) \in Seq(Nat) /\ Ids(channel) \in Seq(Nat) /\ Ids(buffer) = g \o Ids(left)
  BY <1>2, LineIds, WaitingTyped
<1>7. l \in Seq(Nat)
  BY <1>6
<1>8. PendingEvents = g \o l
  <2>1. PendingEvents = (g \o Ids(left)) \o Ids(channel)
    BY <1>6 DEF PendingEvents
  <2> HIDE DEF g
  <2> QED
    BY <1>5, <1>6, <2>1, Regroup
<1>9. PendingEvents' = l
  BY DEF PendingEvents, left
<1>10. Log!Stores(g)
  <2>1. Log!Stores(Ids(lines) \o Ids(more))
    BY <1>1, <1>5, FoundAdds DEF lines
  <2> QED
    BY <1>5, <2>1
<1> HIDE DEF g, l
<1>11. m \in DOMAIN (g \o l) /\ SubSeq(g \o l, 1, m) = g /\ SubSeq(g \o l, m + 1, Len(g \o l)) = l
  <2>1. m \in Nat \ {0} /\ m = Len(g) /\ g \in Seq(Nat)
    BY <1>5
  <2> QED
    BY <1>7, <2>1, Apart
<1>12. Log!Store
  <2>1. recorded' = recorded
    OBVIOUS
  <2>2. Log!Stores(SubSeq(PendingEvents, 1, m))
    BY <1>8, <1>10, <1>11
  <2> QED
    BY <1>8, <1>9, <1>11, <2>1, <2>2 DEF Log!Store
<1> QED
  BY <1>12 DEF Log!LogNext

(* Where there is nothing to append, the file stays as it is.              *)
LEMMA NothingAppended ==
  ASSUME NEW file, NEW end, end # "part"
  PROVE  AppendLines(file, <<>>, end) = file
<1>1. <<>> \o <<>> = <<>>
  OBVIOUS
<1> QED
  BY <1>1 DEF AppendLines

(* A write, and a write that is cut short.                                 *)
LEMMA StoreImplements ==
  ASSUME TypeOK, InOrder, InOrder',
         \/ Write
         \/ \E i \in 1..MaxEvents, n \in 0..MaxEvents, end \in Ends : WriteFails(i, n, end)
         \/ \E n \in 0..MaxEvents, end \in Ends : FlushFails(n, end)
  PROVE  [Log!LogNext]_(Log!logVars)
<1>1. UNCHANGED <<recorded, channel, rotated>>
  BY DEF Write, WriteFails, FlushFails
<1>2. buffer \in Seq(Line) /\ Len(buffer) \in Nat /\ DOMAIN buffer = 1..Len(buffer)
  BY DEF TypeOK
<1>3. SubSeq(buffer, Len(buffer) + 1, Len(buffer)) = <<>> /\ SubSeq(buffer, 1, Len(buffer)) = buffer
  BY <1>2
<1>4. CASE Write
  <2>1. current' = AppendLines(current, buffer, "line") /\ buffer' = <<>>
    BY <1>4 DEF Write
  <2>2. CASE buffer = <<>>
    <3>1. current' = current
      BY <2>1, <2>2, NothingAppended
    <3>2. UNCHANGED <<recorded, channel, buffer>>
      BY <1>1, <2>1, <2>2
    <3> QED
      BY <1>1, <3>1, <3>2, SameFound
  <2>3. CASE buffer # <<>>
    <3>1. Len(buffer) \in 1..Len(buffer) /\ Len(buffer) \in 0..Len(buffer) /\ "line" \in Ends
      BY <1>2, <2>3 DEF Ends
    <3>2. /\ current' = AppendLines(current, SubSeq(buffer, 1, Len(buffer)), "line")
          /\ buffer' = SubSeq(buffer, Len(buffer) + 1, Len(buffer))
      BY <1>3, <2>1
    <3> QED
      BY <1>1, <3>1, <3>2, StoreStep
  <2> QED
    BY <2>2, <2>3
<1>5. ASSUME NEW i \in 1..MaxEvents, NEW n \in 0..MaxEvents, NEW end \in Ends,
             WriteFails(i, n, end)
      PROVE  Log!LogNext
  <2>1. /\ i \in DOMAIN buffer /\ n <= i
        /\ current' = AppendLines(current, SubSeq(buffer, 1, n), end)
        /\ buffer' = <<>> \/ buffer' = SubSeq(buffer, i + 1, Len(buffer))
    BY <1>5 DEF WriteFails, Left
  <2>2. /\ i \in 1..Len(buffer) /\ n \in 0..i
        /\ Len(buffer) \in 1..Len(buffer) /\ n \in 0..Len(buffer)
    BY <1>2, <2>1, LogAssumption DEF LogAssumption
  <2>3. CASE buffer' = <<>>
    BY <1>1, <1>3, <2>1, <2>2, <2>3, StoreStep
  <2>4. CASE buffer' = SubSeq(buffer, i + 1, Len(buffer))
    BY <1>1, <2>1, <2>2, <2>4, StoreStep
  <2> QED
    BY <2>1, <2>3, <2>4
<1>6. ASSUME NEW n \in 0..MaxEvents, NEW end \in Ends, FlushFails(n, end)
      PROVE  [Log!LogNext]_(Log!logVars)
  <2>1. /\ n <= Len(buffer) /\ (n = Len(buffer) => end # "part")
        /\ buffer' = SubSeq(buffer, Len(buffer) + 1, Len(buffer))
        /\ current' = AppendLines(current, SubSeq(buffer, 1, n), end)
    BY <1>3, <1>6 DEF FlushFails
  <2>2. n \in 0..Len(buffer)
    <3>1. n \in Nat /\ n <= Len(buffer)
      BY <2>1, LogAssumption DEF LogAssumption
    <3> QED
      BY <1>2, <3>1
  <2>3. CASE buffer = <<>>
    <3>1. n = Len(buffer) /\ SubSeq(buffer, 1, n) = <<>>
      BY <1>3, <2>2, <2>3
    <3>2. current' = current
      BY <2>1, <3>1, NothingAppended
    <3>3. UNCHANGED <<recorded, channel, buffer>>
      BY <1>1, <1>3, <2>1, <2>3
    <3> QED
      BY <1>1, <3>2, <3>3, SameFound
  <2>4. CASE buffer # <<>>
    <3>1. Len(buffer) \in 1..Len(buffer)
      BY <1>2, <2>4
    <3> QED
      BY <1>1, <2>1, <2>2, <3>1, StoreStep
  <2> QED
    BY <2>3, <2>4
<1> QED
  BY <1>4, <1>5, <1>6

(* A crash loses what waits; in the middle of a write it stores some.      *)
LEMMA CrashImplements ==
  ASSUME TypeOK, InOrder, InOrder', NEW n \in 0..MaxEvents, NEW end \in Ends, Crash(n, end)
  PROVE  Log!LogNext
<1>1. UNCHANGED <<recorded, rotated>> /\ channel' = <<>> /\ buffer' = <<>>
  BY DEF Crash, Forget
<1>2. CASE pc # "write"
  <2>1. UNCHANGED <<recorded, disk>>
    BY <1>1, <1>2 DEF Crash, disk
  <2> QED
    BY <1>1, <2>1, ForgetStep
<1>3. CASE pc = "write"
  <2> DEFINE lines == SubSeq(buffer, 1, n)  left == SubSeq(buffer, n + 1, Len(buffer))
             rest == Ids(left) \o Ids(channel)
  <2>1. n <= Len(buffer) /\ current' = AppendLines(current, lines, end)
    BY <1>3 DEF Crash
  <2>2. n \in 0..Len(buffer) /\ buffer \in Seq(Line)
    BY <2>1, LogAssumption DEF TypeOK, LogAssumption
  <2>3. lines \in Seq(Line) /\ left \in Seq(Line) /\ buffer = lines \o left
    BY <2>2, Cut
  <2> HIDE DEF left
  <2>4. /\ Ids(lines) \in Seq(Nat) /\ Ids(left) \in Seq(Nat) /\ Ids(channel) \in Seq(Nat)
        /\ Ids(buffer) = Ids(lines) \o Ids(left)
    <3> HIDE DEF lines
    <3> QED
      BY <2>3, LineIds, WaitingTyped
  <2>5. rest \in Seq(Nat)
    BY <2>4
  <2>6. Log!Stores(Ids(lines) \o rest)
    <3> HIDE DEF rest
    <3> QED
      BY <1>1, <2>1, <2>2, <2>5, FoundAdds
  <2>7. PendingEvents = Ids(lines) \o rest
    <3> DEFINE u == Ids(lines)  v == Ids(left)  w == Ids(channel)
    <3>1. u \in Seq(Nat) /\ v \in Seq(Nat) /\ w \in Seq(Nat) /\ PendingEvents = (u \o v) \o w
      BY <2>4 DEF PendingEvents
    <3> HIDE DEF u, v, w
    <3>2. (u \o v) \o w = u \o (v \o w)
      BY <3>1, Regroup
    <3> QED
      BY <3>1, <3>2 DEF u, v, w
  <2>8. PendingEvents' = <<>>
    <3>1. PendingEvents' = <<>> \o <<>>
      BY <1>1, NoIds DEF PendingEvents
    <3> QED
      BY <3>1
  <2>9. Log!Cut
    BY <1>1, <2>6, <2>7, <2>8 DEF Log!Cut
  <2> QED
    BY <2>9 DEF Log!LogNext
<1> QED
  BY <1>2, <1>3

(* Every step of the event log is a step of the lossy log, or none.        *)
LEMMA NextImplements ==
  ASSUME TypeOK, InOrder, InOrder', [Next]_vars
  PROVE  [Log!LogNext]_(Log!logVars)
<1>1. CASE \E size \in Sizes : Offer(size)
  BY <1>1, OfferImplements
<1>2. CASE \E sampled \in SampleAnswers : Handle(sampled)
  BY <1>2, HandleImplements
<1>3. CASE \/ Start \/ Stop \/ UNCHANGED vars \/ FlushTick
           \/ OpenFails \/ RenameFails \/ RemoveFails \/ ListFails \/ PruneDone
  BY <1>3, QuietImplements
<1>4. CASE Rotate
  BY <1>4, RotateImplements
<1>5. CASE RotateOver
  BY <1>5, RotateOverImplements
<1>6. CASE RemoveOldest
  BY <1>6, RemoveImplements
<1>7. CASE \/ Write
           \/ \E i \in 1..MaxEvents, n \in 0..MaxEvents, end \in Ends : WriteFails(i, n, end)
           \/ \E n \in 0..MaxEvents, end \in Ends : FlushFails(n, end)
  BY <1>7, StoreImplements
<1>8. CASE \E n \in 0..MaxEvents, end \in Ends : Crash(n, end)
  BY <1>8, CrashImplements
<1> QED
  BY <1>1, <1>2, <1>3, <1>4, <1>5, <1>6, <1>7, <1>8 DEF Next, LoggerStep, FileStep

(* Nothing is stored or waits at the start.                                *)
LEMMA InitImplements == Init => Log!LogInit
<1> SUFFICES ASSUME Init PROVE Log!LogInit
  OBVIOUS
<1>1. recorded = 0 /\ channel = <<>> /\ buffer = <<>> /\ rotated = <<>> /\ current = NoFile
  BY DEF Init
<1>2. PendingEvents = <<>>
  <2>1. PendingEvents = <<>> \o <<>>
    BY <1>1, NoIds DEF PendingEvents
  <2> QED
    BY <2>1
<1>3. Ids(StoredEvents) = <<>>
  <2>1. <<>> \in Seq(SoundFile)
    OBVIOUS
  <2>2. Found(rotated, current) = Ids(StoredOf(<<>>))
    BY <1>1, <2>1, FoundEmpty
  <2>3. Ids(StoredEvents) = Found(rotated, current)
    BY InitInOrder, FoundNow
  <2> QED
    BY <2>2, <2>3, StoredEmpty, NoIds
<1> QED
  BY <1>1, <1>2, <1>3 DEF Log!LogInit

-----------------------------------------------------------------------------

(***************************************************************************)
(* The lines of a file, those of the buffer, and the file with the buffer  *)
(* behind it are in the order in which they were numbered; a line that     *)
(* parses has a run, and a number that the run has given.  This is why a   *)
(* replay by sequence number, of a file of one run, and a replay in the    *)
(* order of the file find the same events in the same order.               *)
(***************************************************************************)
THEOREM LinesStayInOrder == Spec => []InOrder
<1>1. Init => InOrder
  BY InitInOrder
<1>2. TypeOK /\ InOrder /\ [Next]_vars => InOrder'
  BY NextInOrder
<1>3. Spec => []TypeOK
  BY LogTyped
<1> QED
  BY <1>1, <1>2, <1>3, PTL DEF Spec

(***************************************************************************)
(* The event log implements the lossy log: what a replay of its files      *)
(* returns was stored once, in order, and behind what was stored before,   *)
(* whatever is evicted, torn, rotated, replaced, pruned or cut off by a    *)
(* crash, with any limits and any number of failures, crashes and runs.    *)
(* Besides pruning, only an append takes anything back: a last event whose *)
(* line lacks its newline.                                                 *)
(***************************************************************************)
THEOREM LogIsImplemented == Spec => ImplementsRecordLog
<1>1. Init => Log!LogInit
  BY InitImplements
<1>2. TypeOK /\ InOrder /\ InOrder' /\ [Next]_vars => [Log!LogNext]_(Log!logVars)
  BY NextImplements
<1>3. Spec => []TypeOK
  BY LogTyped
<1>4. Spec => []InOrder
  BY LinesStayInOrder
<1> QED
  BY <1>1, <1>2, <1>3, <1>4, PTL DEF Spec, ImplementsRecordLog, Log!LogSpec

-----------------------------------------------------------------------------
(* The lines of a sequence, as a set                                       *)

Elems(s) == {s[i] : i \in DOMAIN s}

(* The numbers of one run's lines.                                         *)
Numbers(E, r) == {x.seq : x \in {y \in E : y.run = r}}

LEMMA ElemsConcat ==
  ASSUME NEW S, NEW s \in Seq(S), NEW t \in Seq(S)
  PROVE  Elems(s \o t) = Elems(s) \cup Elems(t)
<1> DEFINE u == s \o t
<1>1. /\ u \in Seq(S) /\ Len(u) = Len(s) + Len(t)
      /\ \A i \in 1..(Len(s) + Len(t)) : u[i] = IF i <= Len(s) THEN s[i] ELSE t[i - Len(s)]
  BY ConcatProperties
<1>2. DOMAIN s = 1..Len(s) /\ DOMAIN t = 1..Len(t) /\ Len(s) \in Nat /\ Len(t) \in Nat
  OBVIOUS
<1> HIDE DEF u
<1>3. DOMAIN u = 1..(Len(s) + Len(t))
  BY <1>1
<1>4. \A i \in DOMAIN s : i \in DOMAIN u /\ u[i] = s[i]
  BY <1>1, <1>2, <1>3
<1>5. \A i \in DOMAIN t : Len(s) + i \in DOMAIN u /\ u[Len(s) + i] = t[i]
  <2> TAKE i \in DOMAIN t
  <2>1. Len(s) + i \in DOMAIN u /\ ~(Len(s) + i <= Len(s)) /\ Len(s) + i - Len(s) = i
    BY <1>2, <1>3
  <2> QED
    BY <1>1, <1>3, <2>1
<1>6. \A i \in DOMAIN u : (i \in DOMAIN s /\ u[i] = s[i]) \/ (i - Len(s) \in DOMAIN t /\ u[i] = t[i - Len(s)])
  BY <1>1, <1>2, <1>3
<1>7. Elems(u) \subseteq Elems(s) \cup Elems(t)
  BY <1>6 DEF Elems
<1>8. Elems(s) \subseteq Elems(u) /\ Elems(t) \subseteq Elems(u)
  BY <1>4, <1>5 DEF Elems
<1> QED
  BY <1>7, <1>8 DEF u

LEMMA ElemsTyped ==
  ASSUME NEW S, NEW s \in Seq(S)
  PROVE  Elems(s) \subseteq S /\ s \in Seq(Elems(s))
<1>1. \A i \in 1..Len(s) : s[i] \in Elems(s)
  BY DEF Elems
<1>2. Elems(s) \subseteq S
  BY DEF Elems
<1>3. s \in [1..Len(s) -> Elems(s)] /\ Len(s) \in Nat
  BY <1>1
<1> QED
  BY <1>2, <1>3

LEMMA ElemsEmpty == Elems(<<>>) = {}
BY DEF Elems

LEMMA ElemsOne == \A x : Elems(<<x>>) = {x}
BY DEF Elems

(* Following is about the lines and not about where they stand.            *)
LEMMA FollowsElems ==
  ASSUME NEW s, NEW t
  PROVE  Follows(s, t) <=> \A x \in Elems(s), y \in Elems(t) : Precedes(x, y)
BY DEF Follows, Elems

(* What is in order has its parts in order, and one after the other.       *)
LEMMA OrderedSplit ==
  ASSUME NEW S, NEW s \in Seq(S), NEW t \in Seq(S)
  PROVE  Ordered(s \o t) <=> Ordered(s) /\ Ordered(t) /\ Follows(s, t)
<1> DEFINE u == s \o t
<1>1. /\ u \in Seq(S) /\ Len(u) = Len(s) + Len(t)
      /\ \A i \in 1..(Len(s) + Len(t)) : u[i] = IF i <= Len(s) THEN s[i] ELSE t[i - Len(s)]
  BY ConcatProperties
<1>2. DOMAIN s = 1..Len(s) /\ DOMAIN t = 1..Len(t) /\ Len(s) \in Nat /\ Len(t) \in Nat
  OBVIOUS
<1> HIDE DEF u
<1>3. DOMAIN u = 1..(Len(s) + Len(t))
  BY <1>1
<1>4. \A i \in DOMAIN s : i \in DOMAIN u /\ u[i] = s[i]
  BY <1>1, <1>2, <1>3
<1>5. \A i \in DOMAIN t : Len(s) + i \in DOMAIN u /\ u[Len(s) + i] = t[i]
  <2> TAKE i \in DOMAIN t
  <2>1. Len(s) + i \in DOMAIN u /\ ~(Len(s) + i <= Len(s)) /\ Len(s) + i - Len(s) = i
    BY <1>2, <1>3
  <2> QED
    BY <1>1, <1>3, <2>1
<1>6. ASSUME Ordered(u) PROVE Ordered(s) /\ Ordered(t) /\ Follows(s, t)
  <2>1. Ordered(s)
    BY <1>4, <1>6 DEF Ordered
  <2>2. Ordered(t)
    <3> SUFFICES ASSUME NEW i \in DOMAIN t, NEW j \in DOMAIN t, i < j
                 PROVE  Precedes(t[i], t[j])
      BY DEF Ordered
    <3>1. Len(s) + i < Len(s) + j
      BY <1>2
    <3> QED
      BY <1>5, <1>6, <3>1 DEF Ordered
  <2>3. Follows(s, t)
    <3> SUFFICES ASSUME NEW i \in DOMAIN s, NEW j \in DOMAIN t
                 PROVE  Precedes(s[i], t[j])
      BY DEF Follows
    <3>1. i < Len(s) + j
      BY <1>2
    <3> QED
      BY <1>4, <1>5, <1>6, <3>1 DEF Ordered
  <2> QED
    BY <2>1, <2>2, <2>3
<1>7. Ordered(s) /\ Ordered(t) /\ Follows(s, t) => Ordered(u)
  BY OrderedConcat DEF u
<1> QED
  BY <1>6, <1>7 DEF u

(* A part without the middle.                                              *)
LEMMA ThinOrdered ==
  ASSUME NEW S, NEW a \in Seq(S), NEW b \in Seq(S), NEW c \in Seq(S), Ordered((a \o b) \o c)
  PROVE  /\ Ordered(a \o c) /\ Elems(a \o c) \subseteq Elems((a \o b) \o c)
         /\ Elems((a \o b) \o c) = (Elems(a) \cup Elems(b)) \cup Elems(c)
         /\ Elems(a \o c) = Elems(a) \cup Elems(c)
<1> DEFINE ab == a \o b
<1>1. ab \in Seq(S) /\ Elems(ab) = Elems(a) \cup Elems(b)
  BY ElemsConcat
<1>2. Ordered(ab) <=> Ordered(a) /\ Ordered(b) /\ Follows(a, b)
  BY OrderedSplit
<1> HIDE DEF ab
<1>3. Elems(ab \o c) = Elems(ab) \cup Elems(c)
  BY <1>1, ElemsConcat
<1>4. Ordered(ab) /\ Ordered(c) /\ Follows(ab, c)
  <2>1. Ordered(ab \o c)
    BY DEF ab
  <2> QED
    BY <1>1, <2>1, OrderedSplit
<1>5. Follows(a, c)
  BY <1>1, <1>4, FollowsElems
<1>6. Ordered(a \o c)
  BY <1>2, <1>4, <1>5, OrderedSplit
<1>7. Elems(a \o c) = Elems(a) \cup Elems(c)
  BY ElemsConcat
<1> QED
  BY <1>1, <1>3, <1>6, <1>7 DEF ab

LEMMA TailOrdered ==
  ASSUME NEW S, NEW s \in Seq(S), s # <<>>, Ordered(s)
  PROVE  /\ Tail(s) \in Seq(S) /\ Ordered(Tail(s)) /\ Head(s) \in Elems(s)
         /\ Elems(s) = {Head(s)} \cup Elems(Tail(s))
         /\ \A y \in Elems(Tail(s)) : Precedes(Head(s), y)
<1> DEFINE x == Head(s)  one == <<x>>  r == Tail(s)
<1>1. x \in S /\ one \in Seq(S) /\ r \in Seq(S) /\ s = one \o r
  OBVIOUS
<1>2. Elems(one) = {x}
  BY ElemsOne
<1> HIDE DEF x, one, r
<1>3. Ordered(r) /\ Follows(one, r)
  BY <1>1, OrderedSplit
<1>4. Elems(s) = Elems(one) \cup Elems(r)
  BY <1>1, ElemsConcat
<1> QED
  BY <1>1, <1>2, <1>3, <1>4, FollowsElems DEF x, r

-----------------------------------------------------------------------------
(* Every line there is                                                     *)

(* What the replay finds, before a step and after it.                      *)
LEMMA StoredLines ==
  ASSUME NEW r \in Seq(SoundFile), NEW c \in SoundFile
  PROVE  /\ StoredOf(Append(r, c)) = StoredOf(r) \o Kept(c.lines)
         /\ StoredOf(r) \in Seq(Sound) /\ Kept(c.lines) \in Seq(Sound)
         /\ StoredOf(r) \o Kept(c.lines) \in Seq(Sound)
         /\ Elems(Kept(c.lines)) \subseteq Elems(c.lines)
<1>1. Append(r, c) = r \o <<c>> /\ <<c>> \in Seq(SoundFile)
  OBVIOUS
<1>2. StoredOf(r \o <<c>>) = StoredOf(r) \o StoredOf(<<c>>) /\ StoredOf(r) \in Seq(Sound)
  BY <1>1, StoredConcat
<1>3. StoredOf(<<c>>) = Kept(c.lines) /\ Kept(c.lines) \in Seq(Sound)
  BY StoredOne
<1>4. c.lines \in Seq(Elems(c.lines))
  BY ElemsTyped DEF SoundFile
<1>5. Kept(c.lines) \in Seq(Elems(c.lines))
  BY <1>4, KeptTyped
<1>6. Elems(Kept(c.lines)) \subseteq Elems(c.lines)
  BY <1>5, ElemsTyped
<1> QED
  BY <1>1, <1>2, <1>3, <1>6, ConcatProperties

LEMMA LinesNow ==
  ASSUME InOrder
  PROVE  /\ StoredEvents = StoredOf(rotated) \o Kept(current.lines) /\ StoredEvents \in Seq(Sound)
         /\ AllLines \in Seq(Sound) /\ Elems(AllLines) = Elems(StoredEvents) \cup Elems(buffer)
         /\ Ordered(AllLines) <=> Ordered(StoredEvents) /\ Ordered(buffer) /\ Follows(StoredEvents, buffer)
<1>1. rotated \in Seq(SoundFile) /\ current \in SoundFile /\ buffer \in Seq(Sound)
  BY DEF InOrder
<1>2. StoredEvents = StoredOf(rotated) \o Kept(current.lines) /\ StoredEvents \in Seq(Sound)
  BY <1>1, StoredIs, StoredLines
<1>3. AllLines = StoredEvents \o buffer
  BY DEF AllLines
<1>4. AllLines \in Seq(Sound)
  BY <1>1, <1>2, <1>3, ConcatProperties
<1>5. Elems(AllLines) = Elems(StoredEvents) \cup Elems(buffer)
  BY <1>1, <1>2, <1>3, ElemsConcat
<1>6. Ordered(AllLines) <=> Ordered(StoredEvents) /\ Ordered(buffer) /\ Follows(StoredEvents, buffer)
  BY <1>1, <1>2, <1>3, OrderedSplit
<1> QED
  BY <1>2, <1>4, <1>5, <1>6

LEMMA LinesNext ==
  ASSUME InOrder'
  PROVE  /\ StoredEvents' = StoredOf(rotated') \o Kept(current'.lines) /\ StoredEvents' \in Seq(Sound)
         /\ AllLines' \in Seq(Sound) /\ Elems(AllLines') = Elems(StoredEvents') \cup Elems(buffer')
         /\ Ordered(AllLines') <=> Ordered(StoredEvents') /\ Ordered(buffer') /\ Follows(StoredEvents', buffer')
<1>1. rotated' \in Seq(SoundFile) /\ current' \in SoundFile /\ buffer' \in Seq(Sound)
  BY DEF InOrder
<1>2. StoredEvents' = StoredOf(rotated') \o Kept(current'.lines) /\ StoredEvents' \in Seq(Sound)
  BY <1>1, StoredIs, StoredLines
<1>3. AllLines' = StoredEvents' \o buffer'
  BY DEF AllLines
<1>4. AllLines' \in Seq(Sound)
  BY <1>1, <1>2, <1>3, ConcatProperties
<1>5. Elems(AllLines') = Elems(StoredEvents') \cup Elems(buffer')
  BY <1>1, <1>2, <1>3, ElemsConcat
<1>6. Ordered(AllLines') <=> Ordered(StoredEvents') /\ Ordered(buffer') /\ Follows(StoredEvents', buffer')
  BY <1>1, <1>2, <1>3, OrderedSplit
<1> QED
  BY <1>2, <1>4, <1>5, <1>6

-----------------------------------------------------------------------------
(* Lines of a run are lost where they are counted                          *)

Unread == {"write", "flush", "tie", "remove"}

(* The numbers of this run that a line has.                                *)
Given == Numbers(Elems(AllLines), run)

(* No line of this run was written before a last one without newline.      *)
TearsAreOld ==
  up # "down" /\ hit \cap {"write", "flush"} = {} /\ current.torn
    => \A x \in Elems(StoredEvents) : x.run # run

DropsCover ==
  up # "down" /\ hit \cap Unread = {}
    => \A m \in Given : Cardinality((m..seq) \ Given) <= dropped

(***************************************************************************)
(* All lines are in order, over all files; pruning is at the oldest file   *)
(* unless a removal has failed; a last line without newline spoils none of *)
(* a run but the first; and behind any number that a line has, no more are *)
(* missing than were dropped.                                              *)
(***************************************************************************)
Accounted ==
  /\ Ordered(AllLines) /\ Newest(AllLines) /\ Whole(AllLines)
  /\ "remove" \notin hit => scan = 1
  /\ TearsAreOld
  /\ DropsCover

LEMMA NumbersElems ==
  ASSUME NEW E, NEW r, NEW k
  PROVE  k \in Numbers(E, r) <=> \E x \in E : x.run = r /\ x.seq = k
BY DEF Numbers

LEMMA NewestNow ==
  Newest(AllLines) <=>
    \A x \in Elems(AllLines) : x.run <= run /\ (up # "down" /\ x.run = run => x.seq <= seq)
BY DEF Newest, Elems

LEMMA NewestNext ==
  Newest(AllLines)' <=>
    \A x \in Elems(AllLines') : x.run <= run' /\ (up' # "down" /\ x.run = run' => x.seq <= seq')
BY DEF Newest, Elems

(* No piece of a line is among them.                                       *)
LEMMA WholeNow == Whole(AllLines) <=> \A x \in Elems(AllLines) : ~IsGarbage(x)
BY DEF Whole, Elems

LEMMA WholeNext == Whole(AllLines)' <=> \A x \in Elems(AllLines') : ~IsGarbage(x)
BY DEF Whole, Elems

LEMMA GivenNow == Given = Numbers(Elems(AllLines), run)
BY DEF Given

LEMMA GivenNext == Given' = Numbers(Elems(AllLines'), run')
BY DEF Given, Numbers, Elems

LEMMA GivenTyped ==
  ASSUME TypeOK, InOrder, Accounted, up # "down"
  PROVE  Given \subseteq 0..seq /\ Given \subseteq Nat /\ seq \in Nat /\ dropped \in Nat
<1>1. Elems(AllLines) \subseteq Sound
  BY LinesNow, ElemsTyped
<1>2. \A x \in Sound : x.seq \in Nat
  BY DEF Sound, Line
<1>3. seq \in Nat /\ dropped \in Nat
  BY DEF TypeOK
<1>4. \A x \in Elems(AllLines) : x.run = run => x.seq <= seq
  BY NewestNow DEF Accounted
<1> SUFFICES ASSUME NEW k \in Given PROVE k \in Nat /\ k <= seq
  BY <1>3
<1>5. PICK x \in Elems(AllLines) : x.run = run /\ x.seq = k
  BY GivenNow, NumbersElems
<1> QED
  BY <1>1, <1>2, <1>4, <1>5

(* Nothing more is missing when only the oldest numbers go.                *)
LEMMA OldestGo ==
  ASSUME NEW N, NEW M, N \subseteq Nat, M \subseteq N, NEW n \in Nat, NEW d \in Nat,
         \A k \in N \ M, m \in M : k < m,
         \A m \in N : Cardinality((m..n) \ N) <= d
  PROVE  \A m \in M : Cardinality((m..n) \ M) <= d
<1> TAKE m \in M
<1>1. (m..n) \ M = (m..n) \ N
  <2> SUFFICES ASSUME NEW k \in m..n, k \in N, k \notin M PROVE FALSE
    OBVIOUS
  <2>1. k < m /\ m \in Nat /\ k \in Nat
    OBVIOUS
  <2> QED
    BY <2>1
<1> QED
  BY <1>1

(* A new number, and at most as many missing as are dropped with it.       *)
LEMMA NewestComes ==
  ASSUME NEW N, NEW M, N \subseteq Nat, NEW n \in Nat, NEW d \in Nat, NEW e, IsFiniteSet(e), NEW f \in Nat,
         Cardinality(e) <= f, M \subseteq N \cup {n + 1}, N \subseteq M \cup e, n + 1 \in M \cup e,
         \A m \in N : Cardinality((m..n) \ N) <= d
  PROVE  \A m \in M : Cardinality((m..(n + 1)) \ M) <= d + f
<1> TAKE m \in M
<1> DEFINE T == (m..(n + 1)) \ M  U == (m..n) \ N
<1>0. m \in Nat
  OBVIOUS
<1>1. CASE m \in N
  <2>1. T \subseteq U \cup e
    <3> SUFFICES ASSUME NEW k \in m..(n + 1), k \notin M, k \notin e PROVE k \in (m..n) \ N
      OBVIOUS
    <3>1. k # n + 1
      OBVIOUS
    <3> QED
      BY <1>0, <3>1
  <2>2. IsFiniteSet(m..n) /\ U \subseteq m..n
    BY <1>0, FS_Interval
  <2>3. IsFiniteSet(U) /\ Cardinality(U) <= d
    BY <1>1, <2>2, FS_Subset
  <2> HIDE DEF T, U
  <2>4. /\ IsFiniteSet(U \cup e)
        /\ Cardinality(U \cup e) = Cardinality(U) + Cardinality(e) - Cardinality(U \cap e)
        /\ IsFiniteSet(U \cap e)
    BY <2>3, FS_Union, FS_Intersection
  <2>5. /\ Cardinality(T) <= Cardinality(U \cup e) /\ Cardinality(U \cap e) \in Nat
        /\ Cardinality(U) \in Nat /\ Cardinality(e) \in Nat /\ IsFiniteSet(T)
    BY <2>1, <2>3, <2>4, FS_Subset, FS_CardinalityType
  <2>6. Cardinality(T) \in Nat /\ Cardinality(U \cup e) \in Nat
    BY <2>4, <2>5, FS_CardinalityType
  <2>7. Cardinality(T) <= d + f
    BY <2>3, <2>4, <2>5, <2>6
  <2> QED
    BY <2>7 DEF T
<1>2. CASE m = n + 1
  <2>1. T = {}
    BY <1>0, <1>2
  <2>2. Cardinality(T) = 0
    BY <2>1, FS_EmptySet
  <2> QED
    BY <2>2
<1> QED
  BY <1>1, <1>2

(* Nothing is lost but what is older than all that stays.                  *)
LEMMA SameAccounted ==
  ASSUME TypeOK, InOrder, InOrder', Accounted, run' = run, hit \subseteq hit',
         Ordered(AllLines'), Elems(AllLines') \subseteq Elems(AllLines),
         up' # "down" => up # "down" /\ seq' = seq /\ dropped' = dropped,
         "remove" \notin hit' => scan' = 1, TearsAreOld',
         up' # "down" /\ hit' \cap Unread = {} => \A k \in Given \ Given', m \in Given' : k < m
  PROVE  Accounted'
<1>1. Newest(AllLines)' /\ Whole(AllLines)'
  BY NewestNow, NewestNext, WholeNow, WholeNext DEF Accounted
<1>2. Ordered(AllLines)'
  BY DEF Ordered
<1>3. DropsCover'
  <2> SUFFICES ASSUME up' # "down", hit' \cap Unread = {}
               PROVE  \A m \in Given' : Cardinality((m..seq') \ Given') <= dropped'
    BY DEF DropsCover, Unread
  <2>1. Given \subseteq Nat /\ seq \in Nat /\ dropped \in Nat
    BY GivenTyped
  <2>2. Given' \subseteq Given
    <3>1. \A x \in Elems(AllLines') : x \in Elems(AllLines)
      OBVIOUS
    <3> SUFFICES ASSUME NEW k \in Given' PROVE k \in Given
      OBVIOUS
    <3>2. PICK x \in Elems(AllLines') : x.run = run' /\ x.seq = k
      BY GivenNext, NumbersElems
    <3> QED
      BY <3>1, <3>2, GivenNow, NumbersElems
  <2>3. \A m \in Given : Cardinality((m..seq) \ Given) <= dropped
    BY DEF Accounted, DropsCover
  <2> DEFINE N == Given  M == Given'
  <2>4. \A k \in N \ M, m \in M : k < m
    OBVIOUS
  <2> HIDE DEF N, M
  <2>5. \A m \in M : Cardinality((m..seq) \ M) <= dropped
    BY <2>1, <2>2, <2>3, <2>4, OldestGo DEF N, M
  <2> QED
    BY <2>5 DEF M
<1> QED
  BY <1>1, <1>2, <1>3 DEF Accounted

-----------------------------------------------------------------------------
(* Every step accounts for what it loses                                   *)

(* The steps that move no line, and leave the buffer alone or empty it.    *)
LEMMA StillAccounted ==
  ASSUME TypeOK, InOrder, InOrder', Accounted, UNCHANGED <<run, rotated, current>>,
         buffer' = buffer \/ (buffer' = <<>> /\ up' = "down"), hit \subseteq hit',
         up' # "down" => up # "down" /\ seq' = seq /\ dropped' = dropped,
         "remove" \notin hit' => scan' = 1
  PROVE  Accounted'
<1>1. StoredEvents' = StoredEvents
  BY LinesNow, LinesNext
<1>2. Ordered(AllLines')
  BY <1>1, LinesNow, LinesNext, EmptyOrdered DEF Accounted
<1>3. Elems(AllLines') \subseteq Elems(AllLines)
  BY <1>1, LinesNow, LinesNext, ElemsEmpty
<1>4. TearsAreOld'
  <2> SUFFICES ASSUME up' # "down", hit' \cap {"write", "flush"} = {}, current'.torn
               PROVE  \A x \in Elems(StoredEvents') : x.run # run'
    BY DEF TearsAreOld, Elems
  <2> QED
    BY <1>1 DEF Accounted, TearsAreOld
<1>5. up' # "down" => Given' = Given
  <2> SUFFICES ASSUME up' # "down" PROVE Given' = Given
    OBVIOUS
  <2>1. AllLines' = AllLines
    BY <1>1 DEF AllLines
  <2> QED
    BY <2>1, GivenNow, GivenNext
<1> QED
  BY <1>2, <1>3, <1>4, <1>5, SameAccounted

LEMMA QuietAccounted ==
  ASSUME TypeOK, InOrder, InOrder', Accounted,
         \/ UNCHANGED vars \/ \E size \in Sizes : Offer(size)
         \/ FlushTick \/ Stop \/ OpenFails \/ RenameFails \/ RemoveFails \/ ListFails \/ PruneDone
  PROVE  Accounted'
<1>1. UNCHANGED <<run, rotated, current, seq, dropped>>
  BY DEF vars, memory, disk, Offer, FlushTick, Stop, OpenFails, RenameFails, RemoveFails, ListFails,
         PruneDone
<1>2. hit \subseteq hit'
  BY DEF vars, memory, disk, Offer, FlushTick, Stop, OpenFails, RenameFails, RemoveFails, ListFails,
         PruneDone, Hit
<1>3. "remove" \notin hit' => scan' = 1
  BY DEF vars, memory, disk, Offer, FlushTick, Stop, OpenFails, RenameFails, RemoveFails, ListFails,
         PruneDone, Hit, Accounted, ReturnError, Return
<1>4. buffer' = buffer \/ (buffer' = <<>> /\ up' = "down")
  <2>1. CASE OpenFails
    BY <2>1 DEF OpenFails, Left, Return
  <2>2. CASE ~OpenFails
    BY <2>2 DEF vars, memory, disk, Offer, FlushTick, Stop, RenameFails, RemoveFails, ListFails, PruneDone
  <2> QED
    BY <2>1, <2>2
<1>5. up' # "down" => up # "down"
  <2>1. CASE UNCHANGED vars \/ (\E size \in Sizes : Offer(size)) \/ FlushTick \/ Stop \/ RemoveFails
    BY <2>1 DEF vars, memory, disk, Offer, FlushTick, Stop, RemoveFails
  <2>2. CASE OpenFails \/ RenameFails \/ ListFails \/ PruneDone
    <3>1. pc # "idle"
      BY <2>2 DEF OpenFails, RenameFails, ListFails, PruneDone
    <3> QED
      BY <3>1 DEF InOrder
  <2> QED
    BY <2>1, <2>2
<1> QED
  BY <1>1, <1>2, <1>3, <1>4, <1>5, StillAccounted

(* A rotation moves lines from one file to another.                        *)
LEMMA RotateAccounted ==
  ASSUME TypeOK, InOrder, InOrder', Accounted, Rotate
  PROVE  Accounted'
<1>1. UNCHANGED <<run, seq, dropped, buffer, up, scan, hit>> /\ pc # "idle"
  BY DEF Rotate, memory
<1>2. \/ UNCHANGED <<rotated, current>>
      \/ current' = NoFile /\ rotated' = Append(rotated, current)
  BY DEF Rotate, disk
<1>3. up # "down"
  BY <1>1 DEF InOrder
<1>4. CASE UNCHANGED <<rotated, current>>
  <2>1. "remove" \notin hit' => scan' = 1
    BY <1>1 DEF Accounted
  <2> QED
    BY <1>1, <1>3, <1>4, <2>1, StillAccounted
<1>5. CASE current' = NoFile /\ rotated' = Append(rotated, current)
  <2>1. StoredEvents' = StoredEvents
    <3>1. rotated \in Seq(SoundFile) /\ current \in SoundFile
      BY DEF InOrder
    <3>2. StoredOf(rotated') = StoredEvents
      BY <1>5, <3>1, StoredLines, LinesNow
    <3>3. Kept(current'.lines) = <<>>
      BY <1>5, NoFileSound, KeptEmpty
    <3>4. StoredEvents' = StoredEvents \o <<>>
      BY <3>2, <3>3, LinesNext
    <3>5. StoredEvents \in Seq(Sound)
      BY LinesNow
    <3> QED
      BY <3>4, <3>5, ConcatEmptySeq
  <2>2. AllLines' = AllLines
    BY <1>1, <2>1 DEF AllLines
  <2>3. Given' = Given
    BY <1>1, <2>2, GivenNow, GivenNext
  <2>4. TearsAreOld'
    BY <1>5 DEF TearsAreOld, NoFile
  <2>5. Ordered(AllLines') /\ Elems(AllLines') \subseteq Elems(AllLines) /\ ("remove" \notin hit' => scan' = 1)
    BY <1>1, <2>2 DEF Accounted
  <2> QED
    BY <1>1, <1>3, <2>3, <2>4, <2>5, SameAccounted
<1> QED
  BY <1>2, <1>4, <1>5

(* A tie replaces the newest rotated file by the current one.              *)
LEMMA RotateOverAccounted ==
  ASSUME TypeOK, InOrder, InOrder', Accounted, RotateOver
  PROVE  Accounted'
<1> DEFINE n == Len(rotated)  r == SubSeq(rotated, 1, n - 1)  last == rotated[n]
<1>1. UNCHANGED <<run, seq, dropped, buffer, up, scan>> /\ pc # "idle" /\ hit' = hit \cup {"tie"}
  BY DEF RotateOver, memory, Hit
<1>2. /\ rotated # <<>> /\ current' = NoFile /\ rotated' = [rotated EXCEPT ![Len(rotated)] = current]
      /\ rotated \in Seq(SoundFile) /\ current \in SoundFile /\ rotated' \in Seq(SoundFile)
  BY DEF RotateOver, InOrder
<1>3. n \in Nat \ {0} /\ n - 1 \in 0..n
  BY <1>2
<1>4. r \in Seq(SoundFile) /\ last \in SoundFile /\ <<last>> \in Seq(SoundFile)
  BY <1>2, <1>3
<1>5. rotated = r \o <<last>>
  BY <1>2, <1>3, <1>4
<1>6. rotated' = Append(r, current)
  BY <1>2, ReplaceLast
<1> HIDE DEF n, r, last
<1> DEFINE a == StoredOf(r)  b == StoredOf(<<last>>)  c == Kept(current.lines)
<1>7. a \in Seq(Sound) /\ b \in Seq(Sound) /\ c \in Seq(Sound)
  <2>1. StoredOf(<<last>>) \in Seq(Sound)
    BY <1>4, StoredConcat
  <2> QED
    BY <1>2, <1>4, <2>1, StoredLines
<1>8. StoredEvents = (a \o b) \o c
  BY <1>4, <1>5, StoredConcat, LinesNow
<1>9. StoredEvents' = a \o c
  <2>1. StoredOf(rotated') = a \o c
    BY <1>2, <1>4, <1>6, StoredLines
  <2>2. Kept(current'.lines) = <<>>
    BY <1>2, NoFileSound, KeptEmpty
  <2>3. StoredEvents' = (a \o c) \o <<>> /\ a \o c \in Seq(Sound)
    BY <1>7, <2>1, <2>2, LinesNext, ConcatProperties
  <2> HIDE DEF a, c
  <2> QED
    BY <2>3, ConcatEmptySeq
<1> HIDE DEF a, b, c
<1>10. Ordered(StoredEvents) /\ Ordered(buffer) /\ Follows(StoredEvents, buffer)
  BY LinesNow DEF Accounted
<1>11. Ordered(StoredEvents') /\ Elems(StoredEvents') \subseteq Elems(StoredEvents)
  BY <1>7, <1>8, <1>9, <1>10, ThinOrdered
<1>12. Follows(StoredEvents', buffer')
  BY <1>1, <1>10, <1>11, FollowsElems
<1>13. Ordered(AllLines') /\ Elems(AllLines') \subseteq Elems(AllLines)
  BY <1>1, <1>10, <1>11, <1>12, LinesNow, LinesNext
<1>14. TearsAreOld'
  BY <1>2 DEF TearsAreOld, NoFile
<1>15. up # "down" /\ ("remove" \notin hit' => scan' = 1) /\ hit' \cap Unread # {}
  BY <1>1 DEF InOrder, Accounted, Unread
<1> QED
  BY <1>1, <1>13, <1>14, <1>15, SameAccounted

(* Pruning removes the oldest file; behind one that could not be removed,  *)
(* what it loses is not counted.                                           *)
LEMMA RemoveAccounted ==
  ASSUME TypeOK, InOrder, InOrder', Accounted, RemoveOldest
  PROVE  Accounted'
<1> DEFINE r == SubSeq(rotated, 1, scan - 1)  x == rotated[scan]
           t == SubSeq(rotated, scan + 1, Len(rotated))
<1>1. UNCHANGED <<run, seq, dropped, buffer, up, scan, hit, current>> /\ pc # "idle"
  BY DEF RemoveOldest, memory
<1>2. /\ scan \in 1..Len(rotated) /\ rotated' = r \o t
      /\ rotated \in Seq(SoundFile) /\ current \in SoundFile
  BY DEF RemoveOldest, InOrder, RemoveAt
<1>3. /\ r \in Seq(SoundFile) /\ t \in Seq(SoundFile) /\ <<x>> \in Seq(SoundFile)
      /\ Len(r) = scan - 1 /\ Len(t) = Len(rotated) - scan
  BY <1>2
<1>4. rotated = (r \o <<x>>) \o t
  BY <1>2, Around
<1>5. scan = 1 => r = <<>>
  BY <1>2, <1>3
<1> HIDE DEF r, x, t
<1>6. r \o <<x>> \in Seq(SoundFile)
  BY <1>3
<1> DEFINE a == StoredOf(r)  b == StoredOf(<<x>>)  d == StoredOf(t)  k == Kept(current.lines)
           c == (d \o k) \o buffer
<1>7. a \in Seq(Sound) /\ b \in Seq(Sound) /\ d \in Seq(Sound) /\ k \in Seq(Sound) /\ buffer \in Seq(Sound)
  BY <1>2, <1>3, StoredConcat, StoredLines DEF InOrder
<1>8. StoredEvents = ((a \o b) \o d) \o k
  <2>1. StoredOf((r \o <<x>>) \o t) = StoredOf(r \o <<x>>) \o d
    BY <1>3, <1>6, StoredConcat
  <2>2. StoredOf(r \o <<x>>) = a \o b
    BY <1>3, StoredConcat
  <2> QED
    BY <1>4, <2>1, <2>2, LinesNow
<1>9. StoredEvents' = (a \o d) \o k
  BY <1>1, <1>2, <1>3, StoredConcat, LinesNext
<1>10. scan = 1 => a = <<>>
  BY <1>5, StoredEmpty
<1> HIDE DEF a, b, d, k
<1>11. AllLines = (a \o b) \o c /\ AllLines' = a \o c /\ c \in Seq(Sound)
  <2>1. AllLines = (((a \o b) \o d) \o k) \o buffer /\ AllLines' = ((a \o d) \o k) \o buffer
    BY <1>1, <1>8, <1>9 DEF AllLines
  <2> DEFINE ab == a \o b
  <2>2. ab \in Seq(Sound)
    BY <1>7
  <2> HIDE DEF ab
  <2> DEFINE dk == d \o k
  <2>3. dk \in Seq(Sound)
    BY <1>7
  <2>4. ASSUME NEW p \in Seq(Sound) PROVE ((p \o d) \o k) \o buffer = p \o c
    <3>1. (p \o d) \o k = p \o (d \o k)
      BY <1>7
    <3>2. (p \o d) \o k = p \o dk
      BY <3>1
    <3> HIDE DEF dk
    <3>3. (p \o dk) \o buffer = p \o (dk \o buffer)
      BY <1>7, <2>3, SMTT(40)
    <3>4. ((p \o d) \o k) \o buffer = p \o (dk \o buffer)
      BY <3>2, <3>3
    <3> QED
      BY <3>4 DEF dk
  <2>5. AllLines = ab \o c /\ AllLines' = a \o c
    BY <1>7, <2>1, <2>2, <2>4 DEF ab
  <2>6. c \in Seq(Sound)
    <3> HIDE DEF dk
    <3>1. dk \o buffer \in Seq(Sound)
      BY <1>7, <2>3
    <3> QED
      BY <3>1 DEF dk
  <2> QED
    BY <2>5, <2>6 DEF ab
<1> HIDE DEF c
<1>12. Ordered((a \o b) \o c)
  BY <1>11 DEF Accounted
<1>13. /\ Ordered(AllLines') /\ Elems(AllLines') \subseteq Elems(AllLines)
       /\ Elems(AllLines) = (Elems(a) \cup Elems(b)) \cup Elems(c) /\ Elems(AllLines') = Elems(a) \cup Elems(c)
  BY <1>7, <1>11, <1>12, ThinOrdered
<1>14. Elems(StoredEvents') \subseteq Elems(StoredEvents)
  <2>1. Elems(StoredEvents') = (Elems(a) \cup Elems(d)) \cup Elems(k)
    <3> DEFINE ad == a \o d
    <3>1. ad \in Seq(Sound) /\ Elems(ad) = Elems(a) \cup Elems(d)
      BY <1>7, ElemsConcat
    <3> HIDE DEF ad
    <3>2. Elems(ad \o k) = Elems(ad) \cup Elems(k)
      BY <1>7, <3>1, ElemsConcat
    <3> QED
      BY <1>9, <3>1, <3>2 DEF ad
  <2>2. Elems(a) \subseteq Elems(StoredEvents) /\ Elems(d) \subseteq Elems(StoredEvents) /\ Elems(k) \subseteq Elems(StoredEvents)
    <3> DEFINE ab == a \o b  abd == ab \o d
    <3>1. ab \in Seq(Sound) /\ Elems(ab) = Elems(a) \cup Elems(b)
      BY <1>7, ElemsConcat
    <3>2. abd \in Seq(Sound) /\ Elems(abd) = Elems(ab) \cup Elems(d)
      <4> HIDE DEF ab
      <4> QED
        BY <1>7, <3>1, ElemsConcat
    <3>3. Elems(abd \o k) = Elems(abd) \cup Elems(k)
      <4> HIDE DEF abd
      <4> QED
        BY <1>7, <3>2, ElemsConcat
    <3> QED
      BY <1>8, <3>1, <3>2, <3>3
  <2> QED
    BY <2>1, <2>2
<1>15. TearsAreOld'
  BY <1>1, <1>14 DEF Accounted, TearsAreOld, Elems
<1>16. up # "down" /\ ("remove" \notin hit' => scan' = 1)
  BY <1>1 DEF InOrder, Accounted
<1>17. ASSUME hit' \cap Unread = {}, NEW i \in Given \ Given', NEW m \in Given'
       PROVE  i < m
  <2>1. scan = 1
    BY <1>1, <1>17 DEF Accounted, Unread
  <2>2. Elems(a) = {} /\ AllLines' = c
    BY <1>7, <1>10, <1>11, <2>1, ElemsEmpty, ConcatEmptySeq
  <2>3. PICK y \in Elems(AllLines) : y.run = run /\ y.seq = i
    BY GivenNow, NumbersElems
  <2>4. y \notin Elems(AllLines')
    BY <1>1, <1>17, <2>3, GivenNext, NumbersElems
  <2>5. y \in Elems(b)
    BY <1>13, <2>2, <2>3, <2>4
  <2>6. PICK z \in Elems(AllLines') : z.run = run /\ z.seq = m
    BY <1>1, <1>17, GivenNext, NumbersElems
  <2>7. z \in Elems(c)
    BY <1>13, <2>2, <2>6
  <2>8. Follows(b, c)
    <3> DEFINE ab == a \o b
    <3>1. ab \in Seq(Sound) /\ Elems(ab) = Elems(a) \cup Elems(b)
      BY <1>7, ElemsConcat
    <3>2. Ordered(ab \o c)
      BY <1>12
    <3> HIDE DEF ab
    <3>3. Follows(ab, c)
      BY <1>11, <3>1, <3>2, OrderedSplit
    <3> QED
      BY <3>1, <3>3, FollowsElems
  <2>9. Precedes(y, z)
    BY <2>5, <2>7, <2>8, FollowsElems
  <2>10. ~IsGarbage(y) /\ ~IsGarbage(z) /\ run \in Nat
    <3>1. y \in Sound /\ z \in Sound
      BY <1>7, <1>11, <2>5, <2>7, ElemsTyped
    <3>2. run >= 1 /\ run \in Nat
      BY <1>16 DEF InOrder, TypeOK
    <3> QED
      BY <2>3, <2>6, <3>1, <3>2 DEF Sound
  <2> QED
    BY <2>3, <2>6, <2>9, <2>10 DEF Precedes
<1> QED
  BY <1>1, <1>13, <1>15, <1>16, <1>17, SameAccounted

(* What is written is behind what is stored, and before what stays.        *)
LEMMA StoreOrdered ==
  ASSUME TypeOK, InOrder, InOrder', Accounted, UNCHANGED <<run, rotated>>,
         NEW n \in 0..Len(buffer), NEW m \in n..Len(buffer), NEW end \in Ends,
         current' = AppendLines(current, SubSeq(buffer, 1, n), end),
         buffer' = SubSeq(buffer, m + 1, Len(buffer)) \/ buffer' = <<>>
  PROVE  Ordered(AllLines') /\ Elems(AllLines') \subseteq Elems(AllLines)
<1> DEFINE lines == SubSeq(buffer, 1, n)  rest == SubSeq(buffer, m + 1, Len(buffer))
<1>1. Len(buffer) \in Nat /\ 1 \in 1..(Len(buffer) + 1) /\ m + 1 \in 1..(Len(buffer) + 1)
      /\ Len(buffer) \in 0..Len(buffer)
  BY DEF InOrder
<1>2. lines = SubSeq(buffer, 1, n) /\ rest = SubSeq(buffer, m + 1, Len(buffer))
  OBVIOUS
<1> HIDE DEF lines, rest
<1>3. IsPart(lines, 1, n)
  BY <1>1, <1>2, PartOrdered
<1>4. IsPart(rest, m + 1, Len(buffer))
  BY <1>1, <1>2, PartOrdered
<1>5. Follows(lines, rest)
  <2> SUFFICES ASSUME NEW i \in DOMAIN lines, NEW j \in DOMAIN rest
               PROVE  Precedes(lines[i], rest[j])
    BY DEF Follows
  <2>1. PICK k \in DOMAIN buffer : k \in 1..n /\ lines[i] = buffer[k]
    BY <1>3 DEF IsPart
  <2>2. PICK l \in DOMAIN buffer : l \in (m + 1)..Len(buffer) /\ rest[j] = buffer[l]
    BY <1>4 DEF IsPart
  <2>3. k < l
    BY <1>1, <2>1, <2>2
  <2> QED
    BY <2>1, <2>2, <2>3 DEF InOrder, Ordered
<1>6. Elems(lines) \subseteq Elems(buffer) /\ Elems(rest) \subseteq Elems(buffer)
  BY <1>3, <1>4 DEF IsPart, Elems
<1>7. PICK old \in Seq(Sound), p \in Seq(Sound) :
        /\ Kept(current'.lines) = old \o p
        /\ Shortened(Sound, Kept(current.lines), old)
        /\ Ordered(p) /\ Elems(p) \subseteq Elems(lines)
  <2>1. current \in SoundFile
    BY DEF InOrder
  <2>2. PICK old \in Seq(Sound), p \in Seq(Sound) :
          /\ Kept(current'.lines) = old \o p
          /\ Shortened(Sound, Kept(current.lines), old)
          /\ p = lines \/ (lines # <<>> /\ p = Tail(lines))
    <3>1. Grows(Kept(current.lines), Kept(current'.lines), lines)
      BY <1>2, <1>3, <2>1, AppendAdds DEF IsPart
    <3> QED
      BY <3>1 DEF Grows
  <2>3. lines \in Seq(Sound) /\ Ordered(lines)
    BY <1>3 DEF IsPart
  <2>4. lines # <<>> => /\ Ordered(Tail(lines)) /\ Elems(Tail(lines)) \subseteq Elems(lines)
    BY <2>3, TailOrdered
  <2> QED
    BY <2>2, <2>3, <2>4
<1>8. /\ Ordered(StoredEvents) /\ Ordered(buffer) /\ Follows(StoredEvents, buffer)
      /\ StoredEvents \in Seq(Sound) /\ Elems(AllLines) = Elems(StoredEvents) \cup Elems(buffer)
  BY LinesNow DEF Accounted
<1>9. PICK base \in Seq(Sound) : /\ StoredEvents' = base \o p
                                 /\ Ordered(base) /\ Elems(base) \subseteq Elems(StoredEvents)
  <2> DEFINE R == StoredOf(rotated)  K == Kept(current.lines)
  <2>1. R \in Seq(Sound) /\ K \in Seq(Sound)
    BY StoredLines DEF InOrder
  <2>2. StoredEvents = R \o K /\ StoredEvents' = R \o (old \o p)
    BY <1>7, LinesNow, LinesNext
  <2>3. Shortened(Sound, K, old)
    BY <1>7
  <2> HIDE DEF R, K
  <2>4. (R \o old) \o p = R \o (old \o p)
    BY <1>7, <2>1, SMTT(40)
  <2>5. R \o old \in Seq(Sound)
    BY <1>7, <2>1, ConcatProperties
  <2>6. Ordered(R \o old) /\ Elems(R \o old) \subseteq Elems(StoredEvents)
    <3>1. CASE K = old
      BY <1>8, <2>2, <3>1
    <3>2. ASSUME NEW x \in Sound, K = old \o <<x>>
          PROVE  Ordered(R \o old) /\ Elems(R \o old) \subseteq Elems(StoredEvents)
      <4> DEFINE one == <<x>>
      <4>1. one \in Seq(Sound)
        OBVIOUS
      <4>2. StoredEvents = R \o (old \o one)
        BY <2>2, <3>2
      <4> HIDE DEF one
      <4>3. StoredEvents = (R \o old) \o one
        BY <1>7, <2>1, <4>1, <4>2, SMTT(40)
      <4> DEFINE ro == R \o old
      <4>4. ro \in Seq(Sound) /\ StoredEvents = ro \o one
        BY <2>5, <4>3
      <4> HIDE DEF ro
      <4>5. Ordered(ro) /\ Elems(StoredEvents) = Elems(ro) \cup Elems(one)
        BY <1>8, <4>1, <4>4, OrderedSplit, ElemsConcat
      <4> QED
        BY <4>5 DEF ro
    <3> QED
      BY <2>3, <3>1, <3>2 DEF Shortened
  <2> QED
    BY <2>2, <2>4, <2>5, <2>6
<1>10. Elems(StoredEvents') = Elems(base) \cup Elems(p)
  BY <1>7, <1>9, ElemsConcat
<1>11. Ordered(StoredEvents')
  <2>1. Follows(base, p)
    BY <1>6, <1>7, <1>8, <1>9, FollowsElems
  <2> QED
    BY <1>7, <1>9, <2>1, OrderedSplit
<1>12. Elems(buffer') \subseteq Elems(rest) /\ Ordered(buffer')
  <2>1. Ordered(rest)
    BY <1>4 DEF IsPart
  <2> QED
    BY <1>2, <2>1, ElemsEmpty, EmptyOrdered
<1>13. Follows(StoredEvents', buffer')
  <2>1. \A x \in Elems(base), y \in Elems(rest) : Precedes(x, y)
    BY <1>6, <1>8, <1>9, FollowsElems
  <2>2. \A x \in Elems(p), y \in Elems(rest) : Precedes(x, y)
    BY <1>5, <1>7, FollowsElems
  <2>3. \A x \in Elems(StoredEvents'), y \in Elems(buffer') : Precedes(x, y)
    BY <1>10, <1>12, <2>1, <2>2
  <2> QED
    BY <2>3, FollowsElems
<1>14. Elems(AllLines') \subseteq Elems(AllLines)
  <2>1. Elems(AllLines') = Elems(StoredEvents') \cup Elems(buffer')
    BY LinesNext
  <2> QED
    BY <1>6, <1>7, <1>8, <1>9, <1>10, <1>12, <2>1
<1> QED
  BY <1>11, <1>12, <1>13, <1>14, LinesNext

(* A write behind a newline stores all of its lines.                       *)
LEMMA CleanWrite ==
  ASSUME NEW file \in SoundFile, NEW lines \in Seq(Sound), Whole(lines), ~file.torn
  PROVE  Kept(AppendLines(file, lines, "line").lines) = Kept(file.lines) \o lines
<1>1. lines \o <<>> = lines /\ file.lines \o <<>> = file.lines /\ file.lines \in Seq(Sound)
  BY ConcatEmptySeq DEF SoundFile
<1>2. AppendLines(file, lines, "line").lines = file.lines \o lines
  BY <1>1 DEF AppendLines
<1>3. Kept(lines) = lines
  BY KeptAll DEF Whole
<1> QED
  BY <1>1, <1>2, <1>3, KeptConcat

(* A write stores the lines of the buffer; a last line without newline     *)
(* spoils the first one of a run.                                          *)
LEMMA WriteAccounted ==
  ASSUME TypeOK, InOrder, InOrder', Accounted, Write
  PROVE  Accounted'
<1>1. /\ UNCHANGED <<run, rotated, seq, dropped, up, scan, hit>> /\ pc = "write"
      /\ current' = AppendLines(current, buffer, "line") /\ buffer' = <<>>
  BY DEF Write
<1>2. up # "down"
  BY <1>1 DEF InOrder
<1>3. buffer \in Seq(Sound) /\ Len(buffer) \in Nat /\ Ordered(buffer) /\ Whole(buffer) /\ current \in SoundFile
      /\ current.torn \in BOOLEAN /\ Follows(current.lines, buffer)
  BY DEF InOrder, SoundFile, File
<1>4. SubSeq(buffer, 1, Len(buffer)) = buffer
      /\ Len(buffer) \in 0..Len(buffer) /\ Len(buffer) \in Len(buffer)..Len(buffer)
      /\ "line" \in Ends
  BY <1>3 DEF Ends
<1>5. Ordered(AllLines') /\ Elems(AllLines') \subseteq Elems(AllLines)
  BY <1>1, <1>4, StoreOrdered
<1>6. "remove" \notin hit' => scan' = 1
  BY <1>1 DEF Accounted
<1>7. Elems(AllLines') = Elems(StoredEvents')
  BY <1>1, LinesNext, ElemsEmpty
<1>8. ~(current.torn /\ buffer # <<>>) => Elems(AllLines') = Elems(AllLines)
  <2> SUFFICES ASSUME ~(current.torn /\ buffer # <<>>) PROVE Elems(AllLines') = Elems(AllLines)
    OBVIOUS
  <2>1. Kept(current'.lines) = Kept(current.lines) \o buffer
    <3>1. CASE ~current.torn
      BY <1>1, <1>3, <3>1, CleanWrite
    <3>2. CASE buffer = <<>>
      <4>2. current' = current
        BY <1>1, <3>2, NothingAppended
      <4>3. Kept(current.lines) \in Seq(Sound)
        BY <1>3, StoredLines DEF InOrder
      <4> QED
        BY <3>2, <4>2, <4>3, ConcatEmptySeq
    <3> QED
      BY <3>1, <3>2
  <2> DEFINE R == StoredOf(rotated)  K == Kept(current.lines)
  <2>2. R \in Seq(Sound) /\ K \in Seq(Sound)
    BY StoredLines DEF InOrder
  <2>3. StoredEvents = R \o K /\ StoredEvents' = R \o (K \o buffer)
    BY <1>1, <2>1, LinesNow, LinesNext
  <2> HIDE DEF R, K
  <2>4. (R \o K) \o buffer = R \o (K \o buffer)
    BY <1>3, <2>2
  <2>5. StoredEvents' = AllLines
    BY <2>3, <2>4 DEF AllLines
  <2> QED
    BY <1>7, <2>5
<1>9. TearsAreOld'
  <2> SUFFICES ASSUME up' # "down", hit' \cap {"write", "flush"} = {}, current'.torn
               PROVE  \A x \in Elems(StoredEvents') : x.run # run'
    BY DEF TearsAreOld, Elems
  <2>1. current.torn /\ buffer = <<>>
    <3>1. buffer \o <<>> = buffer
      BY <1>3, ConcatEmptySeq
    <3> QED
      BY <1>1, <3>1 DEF AppendLines
  <2>2. Elems(AllLines) = Elems(StoredEvents)
    BY <2>1, LinesNow, ElemsEmpty
  <2>3. Elems(StoredEvents') = Elems(StoredEvents)
    BY <1>7, <1>8, <2>1, <2>2
  <2> QED
    BY <1>1, <2>1, <2>3 DEF Accounted, TearsAreOld
<1>10. ASSUME hit' \cap Unread = {}, NEW i \in Given \ Given', NEW j \in Given'
       PROVE  i < j
  <2>1. current.torn /\ buffer # <<>>
    BY <1>1, <1>8, <1>10, GivenNow, GivenNext
  <2>2. \A x \in Elems(StoredEvents) : x.run # run
    BY <1>1, <1>2, <1>10, <2>1 DEF Accounted, TearsAreOld, Unread
  <2>3. PICK y \in Elems(AllLines) : y.run = run /\ y.seq = i
    BY GivenNow, NumbersElems
  <2>4. PICK z \in Elems(AllLines') : z.run = run /\ z.seq = j
    BY <1>1, <1>10, GivenNext, NumbersElems
  <2>5. y \in Elems(buffer) /\ z \in Elems(buffer)
    BY <1>5, <2>2, <2>3, <2>4, LinesNow
  <2>6. y \notin Elems(AllLines')
    BY <1>1, <1>10, <2>3, GivenNext, NumbersElems
  <2>7. Elems(buffer) = {Head(buffer)} \cup Elems(Tail(buffer)) /\ Tail(buffer) \in Seq(Sound)
        /\ \A w \in Elems(Tail(buffer)) : Precedes(Head(buffer), w)
    BY <1>3, <2>1, TailOrdered
  <2>8. Elems(Tail(buffer)) \subseteq Elems(AllLines')
    <3> DEFINE R == StoredOf(rotated)  K == Kept(current.lines)  T == Tail(buffer)
    <3>1. R \in Seq(Sound) /\ K \in Seq(Sound) /\ T \in Seq(Sound)
      BY <2>7, StoredLines DEF InOrder
    <3>2. \E old \in Seq(Sound) : Kept(current'.lines) = old \o buffer \/ Kept(current'.lines) = old \o T
      <4>1. Grows(K, Kept(current'.lines), buffer)
        BY <1>1, <1>3, <1>4, AppendAdds
      <4> QED
        BY <4>1 DEF Grows
    <3>3. StoredEvents' = R \o Kept(current'.lines) /\ Kept(current'.lines) \in Seq(Sound)
      BY <1>1, LinesNext, StoredLines DEF InOrder
    <3>4. Elems(Kept(current'.lines)) \subseteq Elems(StoredEvents')
      BY <3>1, <3>3, ElemsConcat
    <3>5. Elems(T) \subseteq Elems(Kept(current'.lines))
      <4>1. \A old \in Seq(Sound) : /\ Elems(old \o buffer) = Elems(old) \cup Elems(buffer)
                                     /\ Elems(old \o T) = Elems(old) \cup Elems(T)
        <5> HIDE DEF K, T
        <5> QED
          BY <1>3, <3>1, ElemsConcat
      <4> QED
        BY <2>7, <3>2, <4>1
    <3> QED
      BY <1>7, <3>4, <3>5
  <2>9. y = Head(buffer)
    BY <2>5, <2>6, <2>7, <2>8
  <2>10. z # y
    BY <2>4, <2>6
  <2>11. Precedes(y, z)
    BY <2>5, <2>7, <2>9, <2>10
  <2>12. ~IsGarbage(y) /\ ~IsGarbage(z) /\ run \in Nat
    <3>1. y \in Sound /\ z \in Sound
      BY <1>3, <2>5, ElemsTyped
    <3>2. run >= 1 /\ run \in Nat
      BY <1>2 DEF InOrder, TypeOK
    <3> QED
      BY <2>3, <2>4, <3>1, <3>2 DEF Sound
  <2> QED
    BY <2>3, <2>4, <2>11, <2>12 DEF Precedes
<1> QED
  BY <1>1, <1>2, <1>5, <1>6, <1>9, <1>10, SameAccounted

(* A failed write: what it loses is not counted.                           *)
LEMMA FailAccounted ==
  ASSUME TypeOK, InOrder, InOrder', Accounted,
         \/ \E i \in 1..MaxEvents, n \in 0..MaxEvents, end \in Ends : WriteFails(i, n, end)
         \/ \E n \in 0..MaxEvents, end \in Ends : FlushFails(n, end)
  PROVE  Accounted'
<1>1. /\ UNCHANGED <<run, rotated, seq, dropped>> /\ pc = "write" /\ scan' = 1
      /\ hit' \cap {"write", "flush"} # {} /\ hit \subseteq hit'
  BY DEF WriteFails, FlushFails, Hit, Return
<1>2. up # "down"
  BY <1>1 DEF InOrder
<1>3. buffer \in Seq(Line) /\ Len(buffer) \in Nat /\ DOMAIN buffer = 1..Len(buffer)
  BY DEF TypeOK
<1>4. Ordered(AllLines') /\ Elems(AllLines') \subseteq Elems(AllLines)
  <2>1. ASSUME NEW i \in 1..MaxEvents, NEW n \in 0..MaxEvents, NEW end \in Ends, WriteFails(i, n, end)
        PROVE  Ordered(AllLines') /\ Elems(AllLines') \subseteq Elems(AllLines)
    <3>1. /\ i \in DOMAIN buffer /\ n <= i
          /\ current' = AppendLines(current, SubSeq(buffer, 1, n), end)
          /\ buffer' = SubSeq(buffer, i + 1, Len(buffer)) \/ buffer' = <<>>
      BY <2>1 DEF WriteFails, Left
    <3>2. n \in 0..Len(buffer) /\ i \in n..Len(buffer)
      BY <1>3, <3>1, LogAssumption DEF LogAssumption
    <3> QED
      BY <1>1, <3>1, <3>2, StoreOrdered
  <2>2. ASSUME NEW n \in 0..MaxEvents, NEW end \in Ends, FlushFails(n, end)
        PROVE  Ordered(AllLines') /\ Elems(AllLines') \subseteq Elems(AllLines)
    <3>1. /\ n <= Len(buffer)
          /\ current' = AppendLines(current, SubSeq(buffer, 1, n), end) /\ buffer' = <<>>
      BY <2>2 DEF FlushFails
    <3>2. n \in 0..Len(buffer) /\ Len(buffer) \in n..Len(buffer)
      BY <1>3, <3>1, LogAssumption DEF LogAssumption
    <3> QED
      BY <1>1, <3>1, <3>2, StoreOrdered
  <2> QED
    BY <2>1, <2>2
<1>5. TearsAreOld'
  BY <1>1 DEF TearsAreOld
<1>6. hit' \cap Unread # {}
  BY <1>1 DEF Unread
<1> QED
  BY <1>1, <1>2, <1>4, <1>5, <1>6, SameAccounted

(* A crash, perhaps in a write.                                            *)
LEMMA CrashAccounted ==
  ASSUME TypeOK, InOrder, InOrder', Accounted, NEW n \in 0..MaxEvents, NEW end \in Ends, Crash(n, end)
  PROVE  Accounted'
<1>1. UNCHANGED <<run, rotated, hit>> /\ buffer' = <<>> /\ up' = "down" /\ scan' = 1
  BY DEF Crash, Forget
<1>2. CASE pc = "write"
  <2>1. /\ n <= Len(buffer)
        /\ current' = AppendLines(current, SubSeq(buffer, 1, n), end)
    BY <1>2 DEF Crash
  <2>2. n \in 0..Len(buffer) /\ Len(buffer) \in n..Len(buffer)
    BY <2>1, LogAssumption DEF TypeOK, LogAssumption
  <2>4. Ordered(AllLines') /\ Elems(AllLines') \subseteq Elems(AllLines)
    BY <1>1, <2>1, <2>2, StoreOrdered
  <2>5. TearsAreOld'
    BY <1>1 DEF TearsAreOld
  <2> QED
    BY <1>1, <2>4, <2>5, SameAccounted
<1>3. CASE pc # "write"
  <2>1. current' = current
    BY <1>3 DEF Crash
  <2> QED
    BY <1>1, <2>1, StillAccounted
<1> QED
  BY <1>2, <1>3

(* The numbers of n lines are at most n.                                   *)
LEMMA FewNumbers ==
  ASSUME NEW n \in Nat, NEW s
  PROVE  LET e == {s[i].seq : i \in 1..n} IN IsFiniteSet(e) /\ Cardinality(e) <= n
<1> DEFINE e == {s[i].seq : i \in 1..n}  h == [i \in 1..n |-> s[i].seq]
<1>1. h \in Surjection(1..n, e)
  BY DEF Surjection
<1>2. IsFiniteSet(1..n) /\ Cardinality(1..n) = IF 1 > n THEN 0 ELSE n - 1 + 1
  <2>1. 1 \in Int /\ n \in Int
    OBVIOUS
  <2> QED
    BY <2>1, FS_Interval
<1>3. Cardinality(1..n) = n
  BY <1>2
<1> HIDE DEF e, h
<1>4. IsFiniteSet(e) /\ Cardinality(e) <= n
  BY <1>1, <1>2, <1>3, FS_Surjection
<1> QED
  BY <1>4 DEF e

(* A new line has the newest number; what it evicts is counted, and so is  *)
(* a line that is too long for the buffer.                                 *)
LEMMA HandleAccounted ==
  ASSUME TypeOK, InOrder, InOrder', Accounted, NEW sampled, Handle(sampled)
  PROVE  Accounted'
<1> DEFINE size == Head(channel).size
           line == [id |-> Head(channel).id, run |-> run, seq |-> seq + 1, size |-> size]
           n    == Evicted(size)
           kept == SubSeq(buffer, n + 1, Len(buffer))
           e    == {buffer[i].seq : i \in 1..n}
<1>1. /\ UNCHANGED <<rotated, current, run, up, scan, hit>> /\ up # "down"
      /\ seq \in Nat /\ dropped \in Nat /\ run \in Nat
  BY DEF Handle, disk, TypeOK
<1>2. n \in 0..Len(buffer) /\ n \in Nat /\ Len(buffer) \in Nat /\ DOMAIN buffer = 1..Len(buffer)
  <2>1. buffer \in Seq(Line)
    BY DEF TypeOK
  <2>2. n \in 0..Len(buffer)
    BY <2>1, EvictedEnough
  <2> QED
    BY <2>1, <2>2
<1>3. StoredEvents' = StoredEvents
  BY <1>1, LinesNow, LinesNext
<1>4. Ordered(StoredEvents) /\ Ordered(buffer) /\ Follows(StoredEvents, buffer)
      /\ Elems(AllLines) = Elems(StoredEvents) \cup Elems(buffer) /\ Elems(AllLines) \subseteq Sound
  BY LinesNow, ElemsTyped DEF Accounted
<1>5. \A x \in Elems(AllLines) : x.run <= run /\ (x.run = run => x.seq <= seq) /\ x.run \in Nat /\ x.seq \in Nat
  <2>1. \A x \in Sound : x.run \in Nat /\ x.seq \in Nat
    BY DEF Sound, Line
  <2> QED
    BY <1>1, <1>4, <2>1, NewestNow DEF Accounted
<1>6. TearsAreOld' /\ ("remove" \notin hit' => scan' = 1)
  <2>1. TearsAreOld'
    BY <1>1, <1>3 DEF Accounted, TearsAreOld, Elems
  <2> QED
    BY <1>1, <2>1 DEF Accounted
<1>7. Given \subseteq Nat
  BY <1>1, GivenTyped
<1>8. hit \cap Unread = {} => \A m \in Given : Cardinality((m..seq) \ Given) <= dropped
  BY <1>1 DEF Accounted, DropsCover
<1>9. \/ UNCHANGED <<buffer, dropped, seq>>
      \/ seq' = seq + 1 /\ dropped' = dropped + 1 /\ UNCHANGED buffer
      \/ seq' = seq + 1 /\ dropped' = dropped + n /\ buffer' = Append(kept, line)
  BY DEF Handle
<1>10. CASE UNCHANGED <<buffer, dropped, seq>>
  BY <1>1, <1>6, <1>10, StillAccounted
<1>11. CASE seq' = seq + 1 /\ dropped' = dropped + 1 /\ UNCHANGED buffer
  <2>1. AllLines' = AllLines
    BY <1>3, <1>11 DEF AllLines
  <2>2. Ordered(AllLines)' /\ Newest(AllLines)' /\ Whole(AllLines)'
    <3>1. Ordered(AllLines)'
      BY <2>1 DEF Accounted, Ordered
    <3>2. \A x \in Elems(AllLines') : x.run <= run' /\ (up' # "down" /\ x.run = run' => x.seq <= seq')
      BY <1>1, <1>5, <1>11, <2>1
    <3> QED
      BY <2>1, <3>1, <3>2, NewestNext, WholeNow, WholeNext DEF Accounted
  <2>3. Given' = Given
    BY <1>1, <2>1, GivenNow, GivenNext
  <2>4. DropsCover'
    <3> SUFFICES ASSUME hit \cap Unread = {}
                 PROVE  \A m \in Given' : Cardinality((m..seq') \ Given') <= dropped'
      BY <1>1 DEF DropsCover, Unread
    <3> DEFINE N == Given  f == {seq + 1}
    <3>1. IsFiniteSet(f) /\ Cardinality(f) = 1
      BY FS_Singleton
    <3>2. N \subseteq N \cup {seq + 1} /\ N \subseteq N \cup f /\ seq + 1 \in N \cup f
      OBVIOUS
    <3>3. N \subseteq Nat /\ \A m \in N : Cardinality((m..seq) \ N) <= dropped
      BY <1>7, <1>8
    <3> HIDE DEF N, f
    <3>4. \A m \in N : Cardinality((m..(seq + 1)) \ N) <= dropped + 1
      <4>1. 1 \in Nat /\ Cardinality(f) <= 1
        BY <3>1
      <4> QED
        BY <1>1, <3>1, <3>2, <3>3, <4>1, NewestComes
    <3> QED
      BY <1>11, <2>3, <3>4 DEF N
  <2> QED
    BY <1>6, <2>2, <2>4 DEF Accounted
<1>12. CASE seq' = seq + 1 /\ dropped' = dropped + n /\ buffer' = Append(kept, line)
  <2>1. kept \in Seq(Sound) /\ \A i \in DOMAIN kept : \E k \in DOMAIN buffer : k \in (n + 1)..Len(buffer) /\ kept[i] = buffer[k]
    <3>1. n + 1 \in 1..(Len(buffer) + 1) /\ Len(buffer) \in 0..Len(buffer)
      BY <1>2
    <3> QED
      BY <3>1, PartOrdered DEF IsPart
  <2>2. line.run = run /\ line.seq = seq + 1
    OBVIOUS
  <2>3. \A i \in DOMAIN buffer : i \in 1..n \/ buffer[i] \in Elems(kept)
    <3> SUFFICES ASSUME NEW i \in (n + 1)..Len(buffer) PROVE buffer[i] \in Elems(kept)
      BY <1>2
    <3>1. buffer \in Seq(Sound) /\ i - n \in 1..(Len(buffer) - n)
      BY <1>2 DEF InOrder
    <3>2. Len(kept) = Len(buffer) - n /\ kept[i - n] = buffer[i]
      <4> HIDE DEF n
      <4>1. n + 1 \in Int /\ Len(buffer) \in Int /\ \A k \in (n + 1)..Len(buffer) : buffer[k] \in Sound
        BY <1>2, <3>1
      <4>2. /\ Len(kept) = IF n + 1 <= Len(buffer) THEN Len(buffer) - (n + 1) + 1 ELSE 0
            /\ \A k \in 1..(Len(buffer) - (n + 1) + 1) : kept[k] = buffer[(n + 1) + k - 1]
        BY <4>1, SubSeqProperties
      <4>3. Len(buffer) - (n + 1) + 1 = Len(buffer) - n /\ (n + 1) + (i - n) - 1 = i /\ n + 1 <= Len(buffer)
        BY <1>2, <3>1
      <4> HIDE DEF kept
      <4> QED
        BY <3>1, <4>2, <4>3
    <3>3. i - n \in DOMAIN kept
      BY <2>1, <3>1, <3>2
    <3> QED
      BY <3>2, <3>3 DEF Elems
  <2> HIDE DEF n, kept, line
  <2>4. line \in Sound
    <3>1. buffer' \in Seq(Sound)
      BY DEF InOrder
    <3>2. Len(kept) + 1 \in 1..Len(buffer') /\ buffer'[Len(kept) + 1] = line
      <4>1. Len(buffer') = Len(kept) + 1 /\ buffer'[Len(kept) + 1] = line /\ Len(kept) \in Nat
        BY <1>12, <2>1
      <4> QED
        BY <4>1
    <3> QED
      BY <3>1, <3>2
  <2>5. Elems(buffer') = Elems(kept) \cup {line}
    <3> DEFINE one == <<line>>
    <3>1. one \in Seq(Sound) /\ Elems(one) = {line}
      BY <2>4, ElemsOne
    <3>2. buffer' = kept \o one
      BY <1>12, <2>1, <2>4
    <3> HIDE DEF one
    <3> QED
      BY <2>1, <3>1, <3>2, ElemsConcat
  <2>6. Elems(kept) \subseteq Elems(buffer)
    BY <2>1 DEF Elems
  <2>7. Elems(AllLines') = (Elems(StoredEvents) \cup Elems(kept)) \cup {line}
    BY <1>3, <2>5, LinesNext
  <2>8. Ordered(AllLines)'
    <3>1. \A x \in Elems(StoredEvents) : Precedes(x, line)
      BY <1>1, <1>4, <1>5, <2>2 DEF Precedes
    <3>2. Follows(StoredEvents', buffer')
      BY <1>3, <1>4, <2>5, <2>6, <3>1, FollowsElems
    <3>3. Ordered(buffer')
      BY DEF InOrder, Ordered
    <3>4. Ordered(AllLines')
      BY <1>3, <1>4, <3>2, <3>3, LinesNext
    <3> QED
      BY <3>4 DEF Ordered
  <2>9. Newest(AllLines)' /\ Whole(AllLines)'
    <3>1. \A x \in Elems(AllLines') : x.run <= run' /\ (up' # "down" /\ x.run = run' => x.seq <= seq')
      <4> TAKE x \in Elems(AllLines')
      <4>1. CASE x = line
        BY <1>1, <1>12, <2>2, <4>1
      <4>2. CASE x \in Elems(AllLines)
        BY <1>1, <1>5, <1>12, <4>2
      <4> QED
        BY <1>4, <2>6, <2>7, <4>1, <4>2
    <3>2. \A x \in Elems(AllLines') : ~IsGarbage(x)
      BY <1>1, <1>4, <2>2, <2>6, <2>7, WholeNow DEF Accounted, IsGarbage
    <3> QED
      BY <3>1, <3>2, NewestNext, WholeNext
  <2>10. DropsCover'
    <3> SUFFICES ASSUME hit \cap Unread = {}
                 PROVE  \A m \in Given' : Cardinality((m..seq') \ Given') <= dropped'
      BY <1>1 DEF DropsCover, Unread
    <3> DEFINE N == Given  M == Given'
    <3>1. IsFiniteSet(e) /\ Cardinality(e) <= n
      BY <1>2, FewNumbers
    <3>2. M \subseteq N \cup {seq + 1}
      <4> SUFFICES ASSUME NEW k \in M, k # seq + 1 PROVE k \in N
        OBVIOUS
      <4>1. PICK x \in Elems(AllLines') : x.run = run /\ x.seq = k
        BY <1>1, GivenNext, NumbersElems
      <4>2. x \in Elems(AllLines)
        BY <1>4, <2>2, <2>6, <2>7, <4>1
      <4> QED
        BY <4>1, <4>2, GivenNow, NumbersElems
    <3>3. N \subseteq M \cup e
      <4> SUFFICES ASSUME NEW k \in N, k \notin e PROVE k \in M
        OBVIOUS
      <4>1. PICK x \in Elems(AllLines) : x.run = run /\ x.seq = k
        BY GivenNow, NumbersElems
      <4>2. x \in Elems(AllLines')
        <5>1. CASE x \in Elems(StoredEvents)
          BY <2>7, <5>1
        <5>2. CASE x \in Elems(buffer)
          <6>1. PICK i \in DOMAIN buffer : x = buffer[i]
            BY <5>2 DEF Elems
          <6>2. i \notin 1..n
            BY <4>1, <6>1
          <6> QED
            BY <2>3, <2>7, <6>1, <6>2
        <5> QED
          BY <1>4, <5>1, <5>2
      <4> QED
        BY <1>1, <4>1, <4>2, GivenNext, NumbersElems
    <3>4. seq + 1 \in M \cup e
      BY <1>1, <2>2, <2>7, GivenNext, NumbersElems
    <3>5. N \subseteq Nat /\ \A m \in N : Cardinality((m..seq) \ N) <= dropped
      BY <1>7, <1>8
    <3> HIDE DEF N, M, e
    <3>6. \A m \in M : Cardinality((m..(seq + 1)) \ M) <= dropped + n
      BY <1>1, <1>2, <3>1, <3>2, <3>3, <3>4, <3>5, NewestComes
    <3> QED
      BY <1>12, <3>6 DEF M
  <2> QED
    BY <1>6, <2>8, <2>9, <2>10 DEF Accounted
<1> QED
  BY <1>9, <1>10, <1>11, <1>12

(* A new run has no lines.                                                 *)
LEMMA StartAccounted ==
  ASSUME TypeOK, InOrder, InOrder', Accounted, Start
  PROVE  Accounted'
<1>1. /\ run' = run + 1 /\ run \in Nat /\ UNCHANGED <<rotated, current>>
      /\ buffer' = <<>> /\ scan' = 1
  BY DEF Start, Forget, TypeOK, disk
<1>2. StoredEvents' = StoredEvents /\ Ordered(StoredEvents)
  BY <1>1, LinesNow, LinesNext DEF Accounted
<1>3. Ordered(AllLines)'
  <2>1. Ordered(AllLines')
    BY <1>1, <1>2, LinesNext, EmptyOrdered
  <2> QED
    BY <2>1 DEF Ordered
<1>4. Elems(AllLines') = Elems(StoredEvents') /\ Elems(AllLines') \subseteq Elems(AllLines)
      /\ Elems(AllLines) \subseteq Sound
  BY <1>1, <1>2, LinesNow, LinesNext, ElemsEmpty, ElemsTyped
<1>5. \A x \in Elems(AllLines') : x.run <= run' /\ x.run # run'
  <2> TAKE x \in Elems(AllLines')
  <2>1. x.run \in Nat
    BY <1>4 DEF Sound, Line
  <2>2. x.run <= run
    BY <1>4, NewestNow DEF Accounted
  <2> QED
    BY <1>1, <2>1, <2>2
<1>6. Newest(AllLines)' /\ Whole(AllLines)'
  BY <1>4, <1>5, NewestNext, WholeNow, WholeNext DEF Accounted
<1>7. TearsAreOld'
  <2> SUFFICES \A x \in Elems(StoredEvents') : x.run # run'
    BY DEF TearsAreOld, Elems
  <2> QED
    BY <1>4, <1>5
<1>8. DropsCover'
  <2>1. \A k : k \notin Given'
    BY <1>5, GivenNext, NumbersElems
  <2> QED
    BY <2>1 DEF DropsCover
<1> QED
  BY <1>1, <1>3, <1>6, <1>7, <1>8 DEF Accounted

LEMMA InitAccounted == Init => Accounted
<1> SUFFICES ASSUME Init PROVE Accounted
  OBVIOUS
<1>1. rotated = <<>> /\ current = NoFile /\ buffer = <<>> /\ up = "down" /\ scan = 1
  BY DEF Init
<1>2. AllLines = <<>>
  <2>1. StoredOf(rotated) = <<>> /\ Kept(current.lines) = <<>>
    BY <1>1, StoredEmpty, NoFileSound, KeptEmpty
  <2>2. StoredEvents = <<>> \o <<>>
    BY <2>1, InitInOrder, LinesNow
  <2>3. AllLines = (<<>> \o <<>>) \o <<>>
    BY <1>1, <2>2 DEF AllLines
  <2> QED
    BY <2>3
<1> QED
  BY <1>1, <1>2, EmptyOrdered DEF Accounted, TearsAreOld, DropsCover

LEMMA NextAccounted ==
  ASSUME TypeOK, InOrder, InOrder', Accounted, [Next]_vars
  PROVE  Accounted'
<1>1. CASE \/ UNCHANGED vars \/ \E size \in Sizes : Offer(size)
           \/ FlushTick \/ Stop \/ OpenFails \/ RenameFails \/ RemoveFails \/ ListFails \/ PruneDone
  BY <1>1, QuietAccounted
<1>2. CASE Rotate \/ RotateOver \/ RemoveOldest
  BY <1>2, RotateAccounted, RotateOverAccounted, RemoveAccounted
<1>3. CASE Write
  BY <1>3, WriteAccounted
<1>4. CASE \/ \E i \in 1..MaxEvents, n \in 0..MaxEvents, end \in Ends : WriteFails(i, n, end)
           \/ \E n \in 0..MaxEvents, end \in Ends : FlushFails(n, end)
  BY <1>4, FailAccounted
<1>5. CASE \E sampled \in SampleAnswers : Handle(sampled)
  BY <1>5, HandleAccounted
<1>6. CASE Start
  BY <1>6, StartAccounted
<1>7. CASE \E n \in 0..MaxEvents, end \in Ends : Crash(n, end)
  BY <1>7, CrashAccounted
<1> QED
  BY <1>1, <1>2, <1>3, <1>4, <1>5, <1>6, <1>7 DEF Next, LoggerStep, FileStep

-----------------------------------------------------------------------------
(* Every number once, and the missing ones between the others              *)

(* Lines in order have different numbers.                                  *)
LEMMA OneNumberEach ==
  ASSUME NEW s \in Seq(Sound), Ordered(s), Whole(s), NEW r
  PROVE  LET mine == {i \in DOMAIN s : s[i].run = r}
             seqs == {s[i].seq : i \in mine}
         IN  /\ IsFiniteSet(seqs) /\ Cardinality(mine) = Cardinality(seqs)
             /\ seqs = Numbers(Elems(s), r)
<1> DEFINE mine == {i \in DOMAIN s : s[i].run = r}
           seqs == {s[i].seq : i \in mine}
           h == [i \in mine |-> s[i].seq]
<1>1. DOMAIN s = 1..Len(s) /\ Len(s) \in Nat /\ \A i \in DOMAIN s : s[i] \in Sound
  OBVIOUS
<1>2. IsFiniteSet(mine)
  <2>1. IsFiniteSet(1..Len(s)) /\ mine \subseteq 1..Len(s)
    BY <1>1, FS_Interval
  <2> HIDE DEF mine
  <2> QED
    BY <2>1, FS_Subset
<1>3. ASSUME NEW i \in mine, NEW j \in mine, s[i].seq = s[j].seq
      PROVE  i = j
  <2>1. s[i].run = r /\ s[j].run = r /\ s[i] \in Sound /\ s[j] \in Sound /\ i \in Nat /\ j \in Nat
    BY <1>1
  <2>2. ~IsGarbage(s[i]) /\ ~IsGarbage(s[j]) /\ s[i].seq \in Nat /\ r \in Nat
    BY <2>1 DEF Sound, Line, Whole
  <2>3. i < j => Precedes(s[i], s[j])
    BY DEF Ordered
  <2>4. j < i => Precedes(s[j], s[i])
    BY DEF Ordered
  <2> QED
    BY <1>3, <2>1, <2>2, <2>3, <2>4 DEF Precedes
<1>4. h \in Surjection(mine, seqs) /\ h \in Injection(mine, seqs)
  <2>1. h \in [mine -> seqs] /\ \A t \in seqs : \E i \in mine : h[i] = t
    OBVIOUS
  <2>2. \A i, j \in mine : h[i] = h[j] => i = j
    BY <1>3
  <2> HIDE DEF h, seqs, mine
  <2> QED
    BY <2>1, <2>2 DEF Surjection, Injection, IsInjective
<1>5. seqs = Numbers(Elems(s), r)
  BY DEF Numbers, Elems
<1> HIDE DEF h, mine, seqs
<1>6. IsFiniteSet(seqs) /\ Cardinality(mine) = Cardinality(seqs)
  BY <1>2, <1>4, FS_Surjection
<1> QED
  BY <1>5, <1>6 DEF mine, seqs

(* The largest and the smallest number.                                    *)
LEMMA Extremes ==
  ASSUME NEW N, N \subseteq Nat, N # {}, NEW n \in Nat, \A k \in N : k <= n
  PROVE  /\ Max(N) \in N /\ \A k \in N : k <= Max(N)
         /\ Min(N) \in N /\ \A k \in N : Min(N) <= k
<1> DEFINE T == {k \in Nat : n - k \in N}
<1>1. T # {} /\ T \subseteq Nat
  <2> PICK k \in N : TRUE
    OBVIOUS
  <2>1. n - k \in Nat /\ n - (n - k) = k
    OBVIOUS
  <2> QED
    BY <2>1
<1>2. PICK t \in T : \A y \in T : t <= y
  <2> HIDE DEF T
  <2> QED
    BY <1>1, Sizing!SmallestNat
<1>3. \E x \in N : \A y \in N : x >= y
  <2>1. \A y \in N : n - t >= y
    <3> TAKE y \in N
    <3>1. n - y \in T
      <4>1. n - y \in Nat /\ n - (n - y) = y
        OBVIOUS
      <4> QED
        BY <4>1
    <3>2. t <= n - y /\ t \in Nat
      BY <1>1, <1>2, <3>1
    <3> QED
      BY <3>2
  <2>2. n - t \in N
    OBVIOUS
  <2> QED
    BY <2>1, <2>2
<1>4. Max(N) \in N /\ \A y \in N : Max(N) >= y
  BY <1>3 DEF Max
<1>5. \E x \in N : \A y \in N : x <= y
  BY Sizing!SmallestNat
<1>6. Min(N) \in N /\ \A y \in N : Min(N) <= y
  BY <1>5 DEF Min
<1> QED
  BY <1>4, <1>6

(* What is missing between the extremes is missing behind the smallest.    *)
LEMMA Between ==
  ASSUME NEW N, N \subseteq Nat, N # {}, NEW n \in Nat, \A k \in N : k <= n, NEW d \in Nat,
         \A m \in N : Cardinality((m..n) \ N) <= d
  PROVE  Max(N) - Min(N) + 1 - Cardinality(N) <= d
<1> DEFINE a == Min(N)  b == Max(N)  U == (a..n) \ N  T == (a..b) \ N
<1>1. a \in N /\ b \in N /\ a \in Nat /\ b \in Nat /\ a <= b /\ b <= n /\ \A k \in N : a <= k /\ k <= b
  BY Extremes
<1> HIDE DEF a, b
<1>2. IsFiniteSet(a..n) /\ IsFiniteSet(a..b) /\ Cardinality(a..b) = b - a + 1
  <2>1. a \in Int /\ b \in Int /\ n \in Int
    BY <1>1
  <2>2. Cardinality(a..b) = IF a > b THEN 0 ELSE b - a + 1
    BY <2>1, FS_Interval
  <2>3. IsFiniteSet(a..n) /\ IsFiniteSet(a..b)
    BY <2>1, FS_Interval
  <2> QED
    BY <1>1, <2>2, <2>3
<1>3. N \subseteq a..b
  <2> SUFFICES ASSUME NEW k \in N PROVE k \in a..b
    OBVIOUS
  <2>1. k \in Nat /\ a <= k /\ k <= b
    BY <1>1
  <2> QED
    BY <1>1, <2>1
<1>4. T \subseteq U /\ U \subseteq a..n /\ a..b = T \cup N /\ T \cap N = {}
  <2>1. \A k \in a..b : k \in a..n
    BY <1>1
  <2> QED
    BY <1>3, <2>1
<1>5. Cardinality(U) <= d
  BY <1>1
<1> HIDE DEF T, U
<1>6. IsFiniteSet(U) /\ IsFiniteSet(N)
  BY <1>2, <1>3, <1>4, FS_Subset
<1>7. IsFiniteSet(T) /\ Cardinality(T) <= Cardinality(U)
  BY <1>4, <1>6, FS_Subset
<1>8. Cardinality(T \cup N) = Cardinality(T) + Cardinality(N) - Cardinality(T \cap N)
  BY <1>6, <1>7, FS_Union
<1>9. Cardinality(T \cap N) = 0
  BY <1>4, FS_EmptySet
<1>10. Cardinality(T) \in Nat /\ Cardinality(U) \in Nat /\ Cardinality(N) \in Nat
  BY <1>6, <1>7, FS_CardinalityType
<1>11. Cardinality(T \cup N) = b - a + 1
  BY <1>2, <1>4, Zenon
<1>12. b - a + 1 = Cardinality(T) + Cardinality(N)
  BY <1>1, <1>8, <1>9, <1>10, <1>11
<1>13. b - a + 1 - Cardinality(N) <= d
  BY <1>1, <1>5, <1>7, <1>10, <1>12
<1> QED
  BY <1>13 DEF a, b

(* So the losses are counted.                                              *)
LEMMA AccountedCounts ==
  ASSUME TypeOK, InOrder, Accounted
  PROVE  LossesAreCounted
<1> DEFINE lines == AllLines
           mine  == {i \in DOMAIN lines : lines[i].run = run}
           seqs  == {lines[i].seq : i \in mine}
<1>1. lines \in Seq(Sound) /\ Ordered(lines) /\ Whole(lines)
  BY LinesNow DEF Accounted
<1>2. /\ Cardinality(mine) = Cardinality(seqs) /\ seqs = Given
  <2> HIDE DEF lines
  <2>1. Cardinality(mine) = Cardinality(seqs) /\ seqs = Numbers(Elems(lines), run)
    BY <1>1, OneNumberEach
  <2> QED
    BY <2>1, GivenNow DEF lines
<1>3. ASSUME up # "down", hit \cap {"write", "flush", "tie", "remove"} = {}, seqs # {}
      PROVE  Max(seqs) - Min(seqs) + 1 - Cardinality(mine) <= dropped
  <2> DEFINE N == Given
  <2>1. N \subseteq Nat /\ seq \in Nat /\ dropped \in Nat /\ N # {} /\ \A k \in N : k <= seq
    <3>1. Given \subseteq 0..seq /\ Given \subseteq Nat /\ seq \in Nat /\ dropped \in Nat
      BY <1>3, GivenTyped
    <3> HIDE DEF seqs
    <3> QED
      BY <1>2, <1>3, <3>1
  <2>2. \A m \in N : Cardinality((m..seq) \ N) <= dropped
    BY <1>3 DEF Accounted, DropsCover, Unread
  <2> HIDE DEF N, seqs, mine
  <2>3. Max(N) - Min(N) + 1 - Cardinality(N) <= dropped
    BY <2>1, <2>2, Between
  <2> QED
    BY <1>2, <2>3 DEF N
<1> HIDE DEF lines, mine, seqs
<1>4. LossesAreCounted <=>
        /\ Cardinality(mine) = Cardinality(seqs)
        /\ up # "down" /\ hit \cap {"write", "flush", "tie", "remove"} = {} /\ seqs # {}
             => Max(seqs) - Min(seqs) + 1 - Cardinality(mine) <= dropped
  BY DEF LossesAreCounted, lines, mine, seqs
<1> QED
  BY <1>2, <1>3, <1>4

(***************************************************************************)
(* No two lines of a run have the same number, whatever is written, torn,  *)
(* rotated or pruned; and while a run goes on, the numbers missing between *)
(* those of its lines, stored or buffered, are at most as many as it has   *)
(* counted as dropped, unless the disk failed in one of the ways the       *)
(* property excepts: with any limits, any number of failures and restarts. *)
(***************************************************************************)
THEOREM LossesCounted == Spec => []LossesAreCounted
<1>1. Init => Accounted
  BY InitAccounted
<1>2. TypeOK /\ InOrder /\ InOrder' /\ Accounted /\ [Next]_vars => Accounted'
  BY NextAccounted
<1>3. TypeOK /\ InOrder /\ Accounted => LossesAreCounted
  BY AccountedCounts
<1>4. Spec => []TypeOK
  BY LogTyped
<1>5. Spec => []InOrder
  BY LinesStayInOrder
<1> QED
  BY <1>1, <1>2, <1>3, <1>4, <1>5, PTL DEF Spec
=============================================================================
