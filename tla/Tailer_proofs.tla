---------------------------- MODULE Tailer_proofs ----------------------------
(***************************************************************************)
(* Proofs about Tailer: for any inodes and configurations, any rotation,   *)
(* truncation and reuse of inodes, any stops and failing writes, SInv is   *)
(* inductive, and so is TInv for a source that starts at the beginning.    *)
(***************************************************************************)
EXTENDS Tailer, FiniteSetTheorems, SequenceTheorems, TLAPS

-----------------------------------------------------------------------------
(* Lines between two positions of a content.                                *)

\* A shorter span is within a longer one.
LEMMA SpanWithin ==
  ASSUME NEW c \in Seq(LogLines), NEW a \in Nat, NEW b \in Nat, NEW x \in Nat, NEW y \in Nat,
         x <= a, b <= y
  PROVE  Span(c, a, b) \subseteq Span(c, x, y)
<1> Len(c) \in Nat
  BY LenProperties
<1> QED
  BY DEF Span

\* One more line.
LEMMA SpanNext ==
  ASSUME NEW c \in Seq(LogLines), NEW k \in Nat, k < Len(c)
  PROVE  Span(c, 0, k + 1) \subseteq Span(c, 0, k) \cup {c[k + 1].n}
<1> Len(c) \in Nat
  BY LenProperties
<1> QED
  BY DEF Span

\* No content has more lines than it is long.
LEMMA SpanAll ==
  ASSUME NEW c \in Seq(LogLines), NEW a \in Nat, NEW b \in Nat
  PROVE  Span(c, a, b) \subseteq Span(c, 0, Len(c))
<1> Len(c) \in Nat
  BY LenProperties
<1> QED
  BY DEF Span

\* Appending leaves the spans before the end alone.
LEMMA SpanAppend ==
  ASSUME NEW c \in Seq(LogLines), NEW x \in LogLines, NEW a \in Nat, NEW b \in Nat
  PROVE  /\ b <= Len(c) => Span(Append(c, x), a, b) = Span(c, a, b)
         /\ Span(c, a, b) \subseteq Span(Append(c, x), a, b)
         /\ Span(Append(c, x), 0, Len(Append(c, x))) \subseteq Span(c, 0, Len(c)) \cup {x.n}
         /\ Append(c, x) \in Seq(LogLines) /\ Len(Append(c, x)) = Len(c) + 1
<1> DEFINE d == Append(c, x)
<1>1. /\ d \in Seq(LogLines) /\ Len(d) = Len(c) + 1 /\ Len(c) \in Nat
      /\ \A j \in 1..Len(c) : d[j] = c[j]
      /\ d[Len(c) + 1] = x
  BY AppendProperties, LenProperties
<1> HIDE DEF d
<1>2. b <= Len(c) => Span(d, a, b) = Span(c, a, b)
  BY <1>1 DEF Span
<1>3. Span(c, a, b) \subseteq Span(d, a, b)
  BY <1>1 DEF Span
<1>4. Span(d, 0, Len(d)) \subseteq Span(c, 0, Len(c)) \cup {x.n}
  BY <1>1 DEF Span
<1> QED
  BY <1>1, <1>2, <1>3, <1>4 DEF d

\* Nothing is before the first line.
LEMMA SpanZero ==
  ASSUME NEW c \in Seq(LogLines)
  PROVE  Span(c, 0, 0) = {}
<1> Len(c) \in Nat
  BY LenProperties
<1> QED
  BY DEF Span

\* Nothing is in an empty file.
LEMMA SpanEmpty ==
  ASSUME NEW a, NEW b
  PROVE  Span(<< >>, a, b) = {}
BY DEF Span

\* The lines of a file that the properties speak of.
LEMMA LinesSpan ==
  ASSUME TypeOK, NEW i \in Inodes, NEW k \in Nat
  PROVE  Lines(i, k) = Span(content[i], 0, k)
<1> content[i] \in Seq(LogLines) /\ Len(content[i]) \in Nat
  BY LenProperties DEF TypeOK
<1> QED
  BY DEF Lines, Span

-----------------------------------------------------------------------------
(* What more settled lines and one more line do to a file, a checkpoint and *)
(* a stored record.                                                         *)

\* A line that is settled stays so for all of them.
LEMMA MoreSettled ==
  ASSUME NEW o, NEW p, NEW r, NEW c, NEW e, NEW l, NEW S, NEW T, NEW P, S \subseteq T
  PROVE  /\ FileOK(o, c, e, l, S) => FileOK(o, c, e, l, T)
         /\ PointOK(p, c, e, S, P) => PointOK(p, c, e, T, P)
         /\ RecordOK(r, c, e, S) => RecordOK(r, c, e, T)
<1>1. FileOK(o, c, e, l, S) => FileOK(o, c, e, l, T)
  BY Zenon DEF FileOK
<1>2. PointOK(p, c, e, S, P) => PointOK(p, c, e, T, P)
  BY Zenon DEF PointOK
<1>3. RecordOK(r, c, e, S) => RecordOK(r, c, e, T)
  BY Zenon DEF RecordOK
<1>4. QED
  BY <1>1, <1>2, <1>3

\* A line that is appended is new: it is in no pending record.
LEMMA FileAppended ==
  ASSUME NEW o \in FileStates, NEW c \in Seq(LogLines), NEW e \in Nat, NEW l \in Nat, NEW S,
         NEW x \in LogLines, x.n = l + 1, FileOK(o, c, e, l, S)
  PROVE  FileOK(o, Append(c, x), e, l + 1, S)
<1> DEFINE d == Append(c, x)
<1>1. /\ o.committed \in Nat /\ o.read \in Nat /\ o.epoch \in Nat
      /\ o.pend.from \in Nat /\ o.pend.to \in Nat /\ o.pend.lines \subseteq 1..MaxLines
  BY DEF FileStates, PendingRecords
<1>2. Len(c) \in Nat /\ Len(d) = Len(c) + 1 /\ Span(d, 0, Len(d)) \subseteq Span(c, 0, Len(c)) \cup {l + 1}
  BY SpanAppend, LenProperties
<1>3. Span(c, o.pend.from, o.pend.to) \subseteq Span(d, o.pend.from, o.pend.to)
  BY <1>1, SpanAppend
<1>4. o.read <= Len(c) => Span(d, 0, o.read) = Span(c, 0, o.read) /\ Span(d, 0, o.committed) = Span(c, 0, o.committed)
  <2>1. o.committed <= o.read
    BY DEF FileOK
  <2>2. o.read <= Len(c) => o.committed <= Len(c)
    BY <2>1, <1>1, <1>2
  <2>3. QED
    BY <1>1, <2>2, SpanAppend
<1> HIDE DEF d
<1>5. \A n \in o.pend.lines : n <= l /\ n <= l + 1 /\ n # l + 1
  BY <1>1, TailerAssumption DEF FileOK
<1>6. Span(d, 0, Len(d)) \cap o.pend.lines \subseteq Span(d, o.pend.from, o.pend.to)
  BY <1>2, <1>3, <1>5 DEF FileOK
<1>7. o.read <= Len(c) => o.read <= Len(d)
  BY <1>1, <1>2
<1>8. FileOK(o, d, e, l + 1, S)
  BY <1>4, <1>5, <1>6, <1>7 DEF FileOK
<1>9. QED
  BY <1>8 DEF d

\* Lines that are written to another file.
LEMMA FileWider ==
  ASSUME NEW o \in FileStates, NEW c, NEW e, NEW l \in Nat, NEW S, FileOK(o, c, e, l, S)
  PROVE  FileOK(o, c, e, l + 1, S)
<1>1. \A n \in o.pend.lines : n <= l => n <= l + 1
  BY TailerAssumption DEF FileStates, PendingRecords
<1>2. QED
  BY <1>1 DEF FileOK

\* A line of a checkpoint is not the one that is appended.
LEMMA PointAppended ==
  ASSUME NEW p \in Checkpoints, NEW c \in Seq(LogLines), NEW e, NEW S, NEW P, NEW x \in LogLines,
         PointOK(p, c, e, S, P)
  PROVE  PointOK(p, Append(c, x), e, S, P)
<1>1. p.offset \in Nat /\ Len(c) \in Nat /\ Len(Append(c, x)) = Len(c) + 1
  BY SpanAppend, LenProperties DEF Checkpoints
<1>2. p.offset <= Len(c) => Span(Append(c, x), 0, p.offset) = Span(c, 0, p.offset)
  BY <1>1, SpanAppend
<1>3. p.offset <= Len(c) => p.offset <= Len(Append(c, x))
  BY <1>1
<1>4. QED
  BY <1>2, <1>3 DEF PointOK

\* A line of an admitted record is not the one that is appended.
LEMMA RecordAppended ==
  ASSUME NEW r \in Admissions, NEW c \in Seq(LogLines), NEW e, NEW S, NEW x \in LogLines,
         RecordOK(r, c, e, S)
  PROVE  RecordOK(r, Append(c, x), e, S)
<1>1. r.id[3] \in Nat /\ r.id[4] \in Nat /\ Len(c) \in Nat /\ Len(Append(c, x)) = Len(c) + 1
  BY SpanAppend, LenProperties DEF Admissions
<1>2. r.id[4] <= Len(c) => Span(Append(c, x), r.id[3], r.id[4]) = Span(c, r.id[3], r.id[4])
  BY <1>1, SpanAppend
<1>3. r.id[4] <= Len(c) => r.id[4] <= Len(Append(c, x))
  BY <1>1
<1>4. QED
  BY <1>2, <1>3 DEF RecordOK

-----------------------------------------------------------------------------
(* What the steps of consume and emit do to a file.                         *)

\* Pending lines are counted.
LEMMA PendingZero ==
  ASSUME NEW o \in FileStates
  PROVE  Pending(o) \in Nat /\ (Pending(o) = 0 <=> o.pend.lines = {})
<1>1. o.pend.lines \in SUBSET (1..MaxLines)
  BY DEF FileStates, PendingRecords
<1> DEFINE L == o.pend.lines
           N == 1..MaxLines
<1>2. IsFiniteSet(N)
  BY FS_Interval, TailerAssumption
<1> HIDE DEF L, N
<1>3. IsFiniteSet(L)
  BY <1>1, <1>2, FS_Subset DEF L, N
<1>4. Cardinality(L) \in Nat /\ (Cardinality(L) = 0 <=> L = {})
  BY <1>3, FS_CardinalityType, FS_EmptySet
<1>5. QED
  BY <1>4 DEF Pending, L

\* The next line joins the pending record.
LEMMA FileTaken ==
  ASSUME NEW o \in FileStates, NEW q \in FileStates, NEW c \in Seq(LogLines), NEW e \in Nat,
         NEW l \in Nat, NEW S, FileOK(o, c, e, l, S), ContentOK(c, l), o.read < Len(c),
         q.read = o.read + 1, q.committed = o.committed, q.epoch = o.epoch,
         q.pend.from = IF o.pend.lines = {} THEN o.read ELSE o.pend.from,
         q.pend.to = o.read + 1, q.pend.lines = o.pend.lines \cup {c[o.read + 1].n},
         q.pend.passed = o.pend.passed
  PROVE  FileOK(q, c, e, l, S)
<1>1. /\ o.committed \in Nat /\ o.read \in Nat /\ o.epoch \in Nat /\ Len(c) \in Nat
      /\ o.pend.from \in Nat /\ o.pend.to \in Nat /\ o.pend.lines \subseteq 1..MaxLines
  BY LenProperties DEF FileStates, PendingRecords
<1>2. /\ o.committed <= o.read /\ o.pend.from <= o.pend.to /\ o.pend.to <= o.read
      /\ o.pend.passed \subseteq o.pend.lines /\ \A n \in o.pend.lines : n <= l
      /\ Span(c, 0, Len(c)) \cap o.pend.lines \subseteq Span(c, o.pend.from, o.pend.to)
      /\ o.epoch <= e
  BY DEF FileOK
<1>3. q.committed <= q.read /\ q.pend.from <= q.pend.to /\ q.pend.to <= q.read
  BY <1>1, <1>2, SMTT(30)
<1>4. q.pend.passed \subseteq q.pend.lines /\ (\A n \in q.pend.lines : n <= l) /\ q.epoch <= e
  BY <1>1, <1>2, SMTT(30) DEF ContentOK
<1>5. ASSUME NEW j \in 1..Len(c), c[j].n \in q.pend.lines
      PROVE  q.pend.from < j /\ j <= q.pend.to
  <2>1. CASE c[j].n = c[o.read + 1].n
    <3>1. o.read + 1 \in 1..Len(c)
      BY <1>1, SMTT(30)
    <3>2. j = o.read + 1
      BY <2>1, <3>1 DEF ContentOK
    <3>3. QED
      BY <3>2, <1>1, <1>2, SMTT(30)
  <2>2. CASE c[j].n \in o.pend.lines
    <3>1. c[j].n \in Span(c, 0, Len(c))
      BY <1>1 DEF Span
    <3>2. c[j].n \in Span(c, o.pend.from, o.pend.to)
      BY <3>1, <2>2, <1>2
    <3>3. PICK k \in 1..Len(c) : o.pend.from < k /\ k <= o.pend.to /\ c[j].n = c[k].n
      BY <3>2 DEF Span
    <3>4. j = k
      BY <3>3 DEF ContentOK
    <3>5. QED
      BY <3>3, <3>4, <2>2, <1>1, <1>2, SMTT(30)
  <2>3. QED
    BY <2>1, <2>2, <1>5
<1>6. Span(c, 0, Len(c)) \cap q.pend.lines \subseteq Span(c, q.pend.from, q.pend.to)
  BY <1>5 DEF Span
<1>7. Span(c, 0, q.read) \subseteq Span(c, 0, o.read) \cup {c[o.read + 1].n}
  BY <1>1, SpanNext
<1>8. q.epoch = e => /\ q.read <= Len(c) /\ Span(c, 0, q.read) \subseteq S \cup q.pend.lines
                     /\ Span(c, 0, q.committed) \subseteq S \cup q.pend.passed
  BY <1>1, <1>7 DEF FileOK
<1>9. QED
  BY <1>3, <1>4, <1>6, <1>8 DEF FileOK

\* The next line is refused; the commit of that overtakes the pending record.
LEMMA FileRejected ==
  ASSUME NEW o \in FileStates, NEW q \in FileStates, NEW c \in Seq(LogLines), NEW e \in Nat,
         NEW l, NEW S, FileOK(o, c, e, l, S), o.read < Len(c), c[o.read + 1].n \in S,
         q.read = o.read + 1, q.epoch = o.epoch, q.pend.from = o.pend.from, q.pend.to = o.pend.to,
         q.pend.lines = o.pend.lines, o.pend.passed \subseteq q.pend.passed,
         q.pend.passed \subseteq o.pend.lines,
         \/ q.committed = o.committed
         \/ q.committed = o.read + 1 /\ q.pend.passed = o.pend.lines
  PROVE  /\ FileOK(q, c, e, l, S)
         /\ q.epoch = e => q.read <= Len(c) /\ Span(c, 0, q.read) \subseteq S \cup q.pend.lines
<1>1. /\ o.committed \in Nat /\ o.read \in Nat /\ o.epoch \in Nat /\ Len(c) \in Nat
      /\ o.pend.from \in Nat /\ o.pend.to \in Nat
  BY LenProperties DEF FileStates, PendingRecords
<1>2. /\ o.committed <= o.read /\ o.pend.from <= o.pend.to /\ o.pend.to <= o.read
      /\ \A n \in o.pend.lines : n <= l
      /\ Span(c, 0, Len(c)) \cap o.pend.lines \subseteq Span(c, o.pend.from, o.pend.to)
      /\ o.epoch <= e
  BY DEF FileOK
<1>3. q.committed <= q.read /\ q.pend.from <= q.pend.to /\ q.pend.to <= q.read
  BY <1>1, <1>2
<1>4. Span(c, 0, q.read) \subseteq Span(c, 0, o.read) \cup {c[o.read + 1].n}
  BY <1>1, SpanNext
<1>5. q.epoch = e => q.read <= Len(c) /\ Span(c, 0, q.read) \subseteq S \cup q.pend.lines
  BY <1>1, <1>4 DEF FileOK
<1>6. q.epoch = e => Span(c, 0, q.committed) \subseteq S \cup q.pend.passed
  <2>1. CASE q.committed = o.committed
    BY <2>1 DEF FileOK
  <2>2. CASE q.committed = o.read + 1 /\ q.pend.passed = o.pend.lines
    BY <2>2, <1>5
  <2>3. QED
    BY <2>1, <2>2
<1>7. QED
  BY <1>2, <1>3, <1>5, <1>6 DEF FileOK

\* A pending record whose lines are settled is committed.
LEMMA FileEmitted ==
  ASSUME NEW o \in FileStates, NEW q \in FileStates, NEW c \in Seq(LogLines), NEW e \in Nat,
         NEW l, NEW S, FileOK(o, c, e, l, S),
         o.epoch = e => Span(c, 0, Len(c)) \cap o.pend.lines \subseteq S,
         q.read = o.read, q.committed = o.pend.to, q.epoch = o.epoch, q.pend = o.pend
  PROVE  /\ FileOK(q, c, e, l, S)
         /\ o.epoch = e => o.pend.to <= Len(c) /\ Span(c, 0, o.pend.to) \subseteq S
<1>1. o.read \in Nat /\ o.pend.to \in Nat /\ Len(c) \in Nat
  BY LenProperties DEF FileStates, PendingRecords
<1>2. o.pend.to <= o.read
  BY DEF FileOK
<1>3. Span(c, 0, o.pend.to) \subseteq Span(c, 0, o.read) /\ Span(c, 0, o.read) \subseteq Span(c, 0, Len(c))
  BY <1>1, <1>2, SpanWithin, SpanAll
<1>4. o.epoch = e => o.pend.to <= Len(c) /\ Span(c, 0, o.pend.to) \subseteq S
  BY <1>1, <1>2, <1>3 DEF FileOK
<1>5. QED
  BY <1>2, <1>4 DEF FileOK

\* The pending record is done with.
LEMMA FileActivated ==
  ASSUME NEW o \in FileStates, NEW q \in FileStates, NEW c \in Seq(LogLines), NEW e \in Nat,
         NEW l, NEW S, FileOK(o, c, e, l, S),
         o.epoch = e => Span(c, 0, Len(c)) \cap o.pend.lines \subseteq S,
         q.read = o.read, q.committed = o.committed, q.epoch = o.epoch, q.pend = NoPending
  PROVE  FileOK(q, c, e, l, S)
<1>1. o.read \in Nat /\ o.committed \in Nat
  BY DEF FileStates, PendingRecords
<1>2. Span(c, 0, o.committed) \subseteq Span(c, 0, Len(c)) /\ Span(c, 0, o.read) \subseteq Span(c, 0, Len(c))
  BY <1>1, SpanAll
<1>3. o.epoch = e => /\ Span(c, 0, o.read) \subseteq S
                     /\ Span(c, 0, o.committed) \subseteq S
  BY <1>2 DEF FileOK
<1>4. q.pend.from = 0 /\ q.pend.to = 0 /\ q.pend.lines = {} /\ q.pend.passed = {}
  BY DEF NoPending
<1>5. QED
  BY <1>1, <1>3, <1>4 DEF FileOK

\* A file that starts at a position: opened, truncated, or gone back to what is
\* committed.
LEMMA FileFresh ==
  ASSUME NEW q \in FileStates, NEW c, NEW e, NEW l, NEW S,
         q.read = q.committed, q.pend = NoPending, q.epoch <= e,
         q.epoch = e => q.read <= Len(c) /\ Span(c, 0, q.read) \subseteq S
  PROVE  FileOK(q, c, e, l, S)
<1>1. q.read \in Nat /\ q.pend.from = 0 /\ q.pend.to = 0 /\ q.pend.lines = {} /\ q.pend.passed = {}
  BY DEF FileStates, NoPending
<1>2. QED
  BY <1>1 DEF FileOK

\* A file that was replaced is taken for the old one: what it holds before the
\* read position is given up.
LEMMA FileTurned ==
  ASSUME NEW o \in FileStates, NEW q \in FileStates, NEW c \in Seq(LogLines), NEW e \in Nat,
         NEW l, NEW S, FileOK(o, c, e, l, S), o.read <= Len(c),
         o.epoch # e => Span(c, 0, o.read) \subseteq S,
         q.read = o.read, q.committed = o.committed, q.epoch = e, q.pend = o.pend
  PROVE  FileOK(q, c, e, l, S)
<1>1. o.read \in Nat /\ o.committed \in Nat /\ o.committed <= o.read
  BY DEF FileStates, FileOK
<1>2. Span(c, 0, o.committed) \subseteq Span(c, 0, o.read)
  BY <1>1, SpanWithin
<1>3. q.epoch <= e
  OBVIOUS
<1>4. QED
  BY <1>2, <1>3 DEF FileOK

\* A file of which only changes whether it is lost.
LEMMA FileSame ==
  ASSUME NEW o \in FileStates, NEW b \in {"no", "noted", "minute"}, NEW c, NEW e, NEW l, NEW S
  PROVE  /\ [o EXCEPT !.lost = b] \in FileStates /\ [o EXCEPT !.lost = b].lost = b
         /\ [o EXCEPT !.lost = b].pend = o.pend
         /\ PassedOf([o EXCEPT !.lost = b], e) = PassedOf(o, e)
         /\ FileOK(o, c, e, l, S) => FileOK([o EXCEPT !.lost = b], c, e, l, S)
<1> DEFINE q == [o EXCEPT !.lost = b]
<1>1. /\ q \in FileStates /\ q.lost = b /\ q.pend = o.pend
      /\ q.committed = o.committed /\ q.read = o.read /\ q.epoch = o.epoch
  BY DEF FileStates
<1>2. q # None /\ o # None
  BY <1>1, NoneAssumption
<1> HIDE DEF q
<1>3. PassedOf(q, e) = PassedOf(o, e)
  BY <1>1, <1>2 DEF PassedOf
<1>4. FileOK(o, c, e, l, S) => FileOK(q, c, e, l, S)
  BY <1>1 DEF FileOK
<1>5. QED
  BY <1>1, <1>3, <1>4 DEF q

\* The pending record of a file in which some lines are overtaken.
LEMMA OvertakenFields ==
  ASSUME NEW p \in PendingRecords, NEW P \in SUBSET (1..MaxLines)
  PROVE  LET q == [p EXCEPT !.passed = P]
         IN  /\ q \in PendingRecords /\ q.from = p.from /\ q.to = p.to
             /\ q.lines = p.lines /\ q.passed = P
BY DEF PendingRecords

\* The fields of a file after a line was refused and committed.
LEMMA RejectedFields ==
  ASSUME NEW o \in FileStates, NEW P \in SUBSET (1..MaxLines), NEW k \in Nat, NEW q,
         q = [o EXCEPT !.read = @ + 1, !.committed = k, !.pend.passed = P]
  PROVE  /\ q \in FileStates /\ q.read = o.read + 1 /\ q.committed = k /\ q.epoch = o.epoch
         /\ q.pend = [o.pend EXCEPT !.passed = P] /\ q.lost = o.lost
<1> DEFINE p == [o.pend EXCEPT !.passed = P]
           n == o.read + 1
<1>1. o.pend \in PendingRecords /\ n \in Nat
  BY DEF FileStates
<1>2. p \in PendingRecords
  BY <1>1, OvertakenFields
<1>3. q = [o EXCEPT !.read = n, !.committed = k, !.pend = p]
  BY DEF FileStates
<1> HIDE DEF p, n
<1>4. /\ q \in FileStates /\ q.read = n /\ q.committed = k /\ q.epoch = o.epoch
      /\ q.pend = p /\ q.lost = o.lost
  BY <1>1, <1>2, <1>3 DEF FileStates
<1>5. QED
  BY <1>4 DEF p, n

\* The same, when the commit failed.
LEMMA SkippedFields ==
  ASSUME NEW o \in FileStates, NEW P \in SUBSET (1..MaxLines), NEW q,
         q = [o EXCEPT !.read = @ + 1, !.pend.passed = P]
  PROVE  /\ q \in FileStates /\ q.read = o.read + 1 /\ q.committed = o.committed
         /\ q.epoch = o.epoch /\ q.pend = [o.pend EXCEPT !.passed = P] /\ q.lost = o.lost
<1> DEFINE p == [o.pend EXCEPT !.passed = P]
           n == o.read + 1
<1>1. o.pend \in PendingRecords /\ n \in Nat
  BY DEF FileStates
<1>2. p \in PendingRecords
  BY <1>1, OvertakenFields
<1>3. q = [o EXCEPT !.read = n, !.pend = p]
  BY DEF FileStates
<1> HIDE DEF p, n
<1>4. /\ q \in FileStates /\ q.read = n /\ q.committed = o.committed /\ q.epoch = o.epoch
      /\ q.pend = p /\ q.lost = o.lost
  BY <1>1, <1>2, <1>3 DEF FileStates
<1>5. QED
  BY <1>4 DEF p, n

\* The fields of a file with a pending record p, and of one that is done with it.
LEMMA PendingFields ==
  ASSUME NEW o \in FileStates, NEW p \in PendingRecords, NEW k \in Nat
  PROVE  LET q == [o EXCEPT !.pend = p, !.read = @ + 1]
             f == [o EXCEPT !.committed = k]
             g == [o EXCEPT !.pend = NoPending]
             h == [o EXCEPT !.read = o.committed, !.pend = NoPending]
         IN  /\ q \in FileStates /\ q.read = o.read + 1 /\ q.committed = o.committed
             /\ q.epoch = o.epoch /\ q.pend = p /\ q.lost = o.lost
             /\ f \in FileStates /\ f.read = o.read /\ f.committed = k /\ f.epoch = o.epoch
             /\ f.pend = o.pend /\ f.lost = o.lost
             /\ g \in FileStates /\ g.read = o.read /\ g.committed = o.committed
             /\ g.epoch = o.epoch /\ g.pend = NoPending /\ g.lost = o.lost
             /\ h \in FileStates /\ h.read = o.committed /\ h.committed = o.committed
             /\ h.epoch = o.epoch /\ h.pend = NoPending /\ h.lost = o.lost
<1> DEFINE q == [o EXCEPT !.pend = p, !.read = @ + 1]
           f == [o EXCEPT !.committed = k]
           g == [o EXCEPT !.pend = NoPending]
           h == [o EXCEPT !.read = o.committed, !.pend = NoPending]
<1>1. NoPending \in PendingRecords
  BY DEF NoPending, PendingRecords
<1>2. /\ q \in FileStates /\ q.read = o.read + 1 /\ q.committed = o.committed
      /\ q.epoch = o.epoch /\ q.pend = p /\ q.lost = o.lost
  <2> DEFINE n == o.read + 1
  <2>1. q = [o EXCEPT !.pend = p, !.read = n] /\ n \in Nat
    BY DEF FileStates
  <2> HIDE DEF n
  <2>2. [o EXCEPT !.pend = p, !.read = n] \in FileStates
    BY <2>1 DEF FileStates
  <2>3. QED
    BY <2>1, <2>2 DEF n, FileStates
<1>3. /\ f \in FileStates /\ f.read = o.read /\ f.committed = k /\ f.epoch = o.epoch
      /\ f.pend = o.pend /\ f.lost = o.lost
  BY DEF FileStates
<1>4. /\ g \in FileStates /\ g.read = o.read /\ g.committed = o.committed
      /\ g.epoch = o.epoch /\ g.pend = NoPending /\ g.lost = o.lost
  BY <1>1 DEF FileStates
<1>5. /\ h \in FileStates /\ h.read = o.committed /\ h.committed = o.committed
      /\ h.epoch = o.epoch /\ h.pend = NoPending /\ h.lost = o.lost
  BY <1>1 DEF FileStates
<1>6. QED
  BY <1>2, <1>3, <1>4, <1>5

\* The fields of a file that was found truncated, and of one taken for the old.
LEMMA TruncatedFields ==
  ASSUME NEW o \in FileStates, NEW g \in Nat, NEW f \in Seq(LogLines), NEW e \in Nat
  PROVE  LET q == [o EXCEPT !.gen = g, !.fp = f, !.read = 0, !.committed = 0,
                            !.pend = NoPending, !.epoch = e]
             t == [o EXCEPT !.epoch = e]
         IN  /\ q \in FileStates /\ q.read = 0 /\ q.committed = 0 /\ q.pend = NoPending
             /\ q.epoch = e /\ q.lost = o.lost
             /\ t \in FileStates /\ t.read = o.read /\ t.committed = o.committed
             /\ t.pend = o.pend /\ t.epoch = e /\ t.lost = o.lost
<1>1. NoPending \in PendingRecords
  BY DEF NoPending, PendingRecords
<1>2. QED
  BY <1>1 DEF FileStates

-----------------------------------------------------------------------------
(* Where a step is: types of the file, the line and the checkpoint it has.  *)

\* The configuration.
LEMMA ConfigFacts ==
  ASSUME TypeOK
  PROVE  /\ config \in ConfigType /\ config.kinds \subseteq {"start", "more", "big"}
         /\ config.multiline \in BOOLEAN
BY TailerAssumption DEF TypeOK, ConfigType

\* An inode.
LEMMA InodeFacts ==
  ASSUME TypeOK, NEW i \in Inodes
  PROVE  /\ content[i] \in Seq(LogLines) /\ Len(content[i]) \in Nat /\ epoch[i] \in Nat
         /\ Fingerprint(i) \in Seq(LogLines)
         /\ open[i] # None => open[i] \in FileStates
         /\ cps[i] # None => cps[i] \in Checkpoints
         /\ saved[i] # None => saved[i] \in Checkpoints
<1>1. content[i] \in Seq(LogLines) /\ Len(content[i]) \in Nat /\ epoch[i] \in Nat
  BY LenProperties DEF TypeOK
<1>2. ASSUME NEW k \in 0..Len(content[i])
      PROVE  SubSeq(content[i], 1, k) \in Seq(LogLines)
  BY <1>1, SubSeqProperties
<1>3. Fingerprint(i) \in Seq(LogLines)
  BY <1>1, <1>2, TailerAssumption DEF Fingerprint
<1>4. QED
  BY <1>1, <1>3 DEF TypeOK

\* The file that consume works on.
LEMMA FileFacts ==
  ASSUME SInv, Working
  PROVE  /\ cur \in Inodes /\ File = open[cur] /\ File \in FileStates /\ File # None
         /\ content[cur] \in Seq(LogLines) /\ Len(content[cur]) \in Nat /\ epoch[cur] \in Nat
         /\ File.pend \in PendingRecords /\ File.read \in Nat /\ File.committed \in Nat
         /\ File.epoch \in Nat /\ File.gen \in Nat /\ File.fp \in Seq(LogLines)
         /\ File.pend.to \in Nat /\ File.pend.from \in Nat
         /\ File.pend.lines \subseteq 1..MaxLines /\ File.pend.passed \subseteq 1..MaxLines
<1>1. cur \in Inodes /\ File = open[cur] /\ File # None
  BY DEF SInv, ControlInv, File
<1>2. File \in FileStates
  BY <1>1, InodeFacts DEF SInv
<1>3. QED
  BY <1>1, <1>2, InodeFacts DEF SInv, FileStates, PendingRecords

\* The line it reads.
LEMMA LineFacts ==
  ASSUME SInv, HasLine
  PROVE  /\ Working /\ pc = "lines" /\ File.read < Len(content[cur])
         /\ Line \in LogLines /\ Line = content[cur][File.read + 1] /\ Line.n \in 1..MaxLines
<1>1. Working /\ pc = "lines" /\ File.read < Len(content[cur])
  BY DEF HasLine, Working
<1>2. File.read + 1 \in 1..Len(content[cur])
  BY <1>1, FileFacts
<1>3. Line \in LogLines
  BY <1>1, <1>2, FileFacts, ElementOfSeq DEF Line
<1>4. QED
  BY <1>1, <1>3 DEF Line, LogLines

\* The pending record with that line.
LEMMA ExtendedFacts ==
  ASSUME SInv, HasLine
  PROVE  /\ Extended \in PendingRecords
         /\ Extended.from = IF File.pend.lines = {} THEN File.read ELSE File.pend.from
         /\ Extended.to = File.read + 1 /\ Extended.lines = File.pend.lines \cup {Line.n}
         /\ Extended.passed = File.pend.passed
<1>1. Pending(File) = 0 <=> File.pend.lines = {}
  BY FileFacts, LineFacts, PendingZero
<1>2. QED
  BY <1>1, FileFacts, LineFacts, SMTT(60) DEF Extended, PendingRecords

\* A checkpoint that is written for it.
LEMMA CommittedFacts ==
  ASSUME SInv, Working, NEW k \in Nat
  PROVE  /\ Committed(File, k) \in [Inodes -> Checkpoints \cup {None}]
         /\ \A i \in Inodes \ {cur} : Committed(File, k)[i] = cps[i]
         /\ Committed(File, k)[cur] \in Checkpoints
         /\ Committed(File, k)[cur].offset = k /\ Committed(File, k)[cur].epoch = File.epoch
<1>1. Checkpoint(k, File.gen, File.fp, File.epoch) \in Checkpoints
  BY FileFacts DEF Checkpoint, Checkpoints
<1>2. /\ Checkpoint(k, File.gen, File.fp, File.epoch).offset = k
      /\ Checkpoint(k, File.gen, File.fp, File.epoch).epoch = File.epoch
  BY DEF Checkpoint
<1>3. cps \in [Inodes -> Checkpoints \cup {None}] /\ cur \in Inodes
  BY FileFacts DEF SInv, TypeOK
<1>4. QED
  BY <1>1, <1>2, <1>3 DEF Committed

\* consume returns, and may close the file.
LEMMA LeaveFacts ==
  ASSUME SInv, Working, NEW o \in FileStates, Leave(o)
  PROVE  /\ open' \in [Inodes -> FileStates \cup {None}]
         /\ \A i \in Inodes \ {cur} : open'[i] = open[i]
         /\ open'[cur] \in {o, None}
         /\ open'[cur] = None => o.pend.lines = {}
         /\ pc' = "consume" /\ todo' = todo \ {cur} /\ cur' = None /\ limit' = 0 /\ seen' = seen
<1> DEFINE left == KeptOrClosed(o)
<1>1. open' = [open EXCEPT ![cur] = left]
  BY DEF Leave, Update
<1>2. left \in {o, None} /\ (left = None => o.pend.lines = {})
  BY PendingZero, NoneAssumption DEF KeptOrClosed
<1> HIDE DEF left
<1>3. open \in [Inodes -> FileStates \cup {None}] /\ cur \in Inodes
  BY FileFacts DEF SInv, TypeOK
<1>4. QED
  BY <1>1, <1>2, <1>3 DEF Leave, NextFile

\* A failed emission keeps the record, or goes back to what is committed.
LEMMA EmitFailedFacts ==
  ASSUME SInv, Working, EmitFailed(File)
  PROVE  \E o \in FileStates :
            /\ Leave(o) /\ o.epoch = File.epoch
            /\ IF config.multiline THEN o = File
               ELSE o.read = File.committed /\ o.committed = File.committed /\ o.pend = NoPending
<1> DEFINE o == IF config.multiline THEN File ELSE [File EXCEPT !.read = File.committed, !.pend = NoPending]
<1>1. Leave(o)
  BY DEF EmitFailed
<1>2. NoPending \in PendingRecords
  BY DEF NoPending, PendingRecords
<1>3. /\ o \in FileStates /\ o.epoch = File.epoch
      /\ IF config.multiline THEN o = File
         ELSE o.read = File.committed /\ o.committed = File.committed /\ o.pend = NoPending
  BY <1>2, FileFacts, PendingFields
<1>4. QED
  BY <1>1, <1>3

-----------------------------------------------------------------------------
(* SInv is inductive: one lemma for each action.                            *)

\* A step inside a file leaves pollOnce where it is.
LEMMA StayControl ==
  ASSUME SInv, Working, TypeOK', UNCHANGED system, UNCHANGED <<todo, seen, cur, limit>>,
         \A i \in Inodes \ {cur} : open'[i] = open[i],
         open'[cur] \in FileStates, Working'
  PROVE  SInv'
<1> USE DEF SInv, system
<1>1. cur \in Inodes /\ File = open[cur] /\ open[cur] # None /\ open'[cur] # None
  BY FileFacts, NoneAssumption
<1>2. \A i \in Inodes : open'[i] # None <=> open[i] # None
  BY <1>1
<1>3. OpenFiles' = OpenFiles
  BY <1>2 DEF OpenFiles
<1>4. ControlInv'
  BY <1>1, <1>3 DEF ControlInv, Working
<1>5. QED
  BY <1>4

\* consume returns.
LEMMA LeaveControl ==
  ASSUME SInv, Working, TypeOK', UNCHANGED system, NEW o \in FileStates, Leave(o)
  PROVE  SInv'
<1> USE DEF SInv, system
<1>1. cur \in Inodes /\ File = open[cur] /\ open[cur] # None
  BY FileFacts
<1>2. /\ \A i \in Inodes \ {cur} : open'[i] = open[i]
      /\ open'[cur] \in {o, None} /\ pc' = "consume" /\ todo' = todo \ {cur}
  BY LeaveFacts
<1>3. OpenFiles' \subseteq OpenFiles /\ OpenFiles \ {cur} \subseteq OpenFiles'
  BY <1>1, <1>2 DEF OpenFiles
<1>4. ControlInv'
  BY <1>2, <1>3 DEF ControlInv, Working
<1>5. QED
  BY <1>4

\* Init establishes SInv.
LEMMA InitSInv == Init => SInv
<1> SUFFICES ASSUME Init PROVE SInv
  OBVIOUS
<1> USE TailerAssumption, NoneAssumption DEF Init
<1>1. live \in Inodes
  BY Zenon
<1>2. content \in [Inodes -> Seq(LogLines)] /\ epoch \in [Inodes -> Nat]
  BY EmptySeq
<1>3. TypeOK
  BY <1>1, <1>2 DEF TypeOK
<1>4. OpenFiles = {}
  BY DEF OpenFiles
<1>5. QED
  BY <1>3, <1>4 DEF SInv, ControlInv, Working

\* An application writes a line.
LEMMA Append1SInv ==
  ASSUME SInv, NEW v \in Inodes, NEW k \in config.kinds, Append1(v, k)
  PROVE  SInv'
<1> USE TailerAssumption DEF SInv, handled, poll
<1>1. content[v] \in Seq(LogLines) /\ lines + 1 \in 1..MaxLines
  BY DEF TypeOK, Append1
<1>2. [n |-> lines + 1, kind |-> k] \in LogLines
  BY <1>1, ConfigFacts DEF LogLines
<1>3. Append(content[v], [n |-> lines + 1, kind |-> k]) \in Seq(LogLines)
  BY <1>1, <1>2, AppendProperties
<1>4. content' \in [Inodes -> Seq(LogLines)]
  BY <1>1, <1>3 DEF Append1, TypeOK
<1>5. TypeOK'
  BY <1>1, <1>4 DEF Append1, TypeOK
<1>6. OpenFiles' = OpenFiles /\ (Working' <=> Working)
  BY DEF Append1, OpenFiles, Working
<1>7. ControlInv'
  BY <1>6 DEF ControlInv, Append1
<1>8. QED
  BY <1>5, <1>7

\* logrotate moves the name to another inode.
LEMMA RotateSInv ==
  ASSUME SInv, NEW i \in Inodes, Rotate(i)
  PROVE  SInv'
<1> USE DEF SInv, handled, poll
<1>1. TypeOK'
  BY DEF Rotate, TypeOK
<1>2. OpenFiles' = OpenFiles /\ (Working' <=> Working)
  BY DEF Rotate, OpenFiles, Working
<1>3. ControlInv'
  BY <1>2 DEF ControlInv, Rotate
<1>4. QED
  BY <1>1, <1>3

\* The content of an inode goes.
LEMMA ReplacedSInv ==
  ASSUME SInv, NEW i \in Inodes, Replaced(i), live \in listed', listed' \subseteq listed
  PROVE  SInv'
<1> USE DEF SInv, handled, poll
<1>1. content' \in [Inodes -> Seq(LogLines)] /\ epoch' \in [Inodes -> Nat]
  BY EmptySeq DEF Replaced, TypeOK
<1>2. TypeOK'
  BY <1>1 DEF Replaced, TypeOK
<1>3. OpenFiles' = OpenFiles /\ (Working' <=> Working)
  BY DEF Replaced, OpenFiles, Working
<1>4. ControlInv'
  BY <1>3 DEF ControlInv, Replaced
<1>5. QED
  BY <1>2, <1>4

\* copytruncate empties the followed file.
LEMMA TruncateSInv ==
  ASSUME SInv, Truncate
  PROVE  SInv'
BY ReplacedSInv DEF Truncate, SInv, TypeOK

\* A file is deleted and its inode used again.
LEMMA DeleteSInv ==
  ASSUME SInv, NEW i \in Inodes, Delete(i)
  PROVE  SInv'
<1>1. live \in listed' /\ listed' \subseteq listed
  BY DEF Delete, SInv, TypeOK
<1>2. QED
  BY <1>1, ReplacedSInv DEF Delete

\* Start loads the checkpoint.
LEMMA StartSInv ==
  ASSUME SInv, Start
  PROVE  SInv'
<1> USE DEF SInv, system, handled, Start
<1>1. TypeOK'
  BY DEF TypeOK
<1>2. OpenFiles' = {}
  BY DEF ControlInv, OpenFiles
<1>3. QED
  BY <1>1, <1>2 DEF ControlInv, Working

\* The agent stops or is killed.
LEMMA StopSInv ==
  ASSUME SInv, Stop
  PROVE  SInv'
<1> USE DEF SInv, system, Stop
<1>1. ASSUME NEW i \in Inodes
      PROVE  Overtaken(i) \subseteq 1..MaxLines
  BY InodeFacts DEF Overtaken, FileStates, PendingRecords
<1>2. excused' \subseteq 1..MaxLines
  BY <1>1 DEF TypeOK
<1>3. TypeOK'
  BY <1>2 DEF TypeOK
<1>4. OpenFiles' = {}
  BY DEF OpenFiles
<1>5. QED
  BY <1>3, <1>4 DEF ControlInv, Working

\* A poll begins.
LEMMA PollBeginSInv ==
  ASSUME SInv, PollBegin
  PROVE  SInv'
<1> USE DEF SInv, system, handled, PollBegin
<1>1. TypeOK'
  BY DEF TypeOK
<1>2. OpenFiles' = OpenFiles
  BY DEF OpenFiles
<1>3. QED
  BY <1>1, <1>2 DEF ControlInv, Working

\* A name that is open, or is not opened.
LEMMA DiscoverKnownSInv ==
  ASSUME SInv, NEW i \in Inodes, DiscoverKnown(i)
  PROVE  SInv'
<1> USE DEF SInv, system, handled
<1>1. CASE UNCHANGED open
  <2>1. TypeOK' /\ OpenFiles' = OpenFiles
    BY <1>1 DEF TypeOK, DiscoverKnown, OpenFiles
  <2>2. QED
    BY <1>1, <2>1 DEF ControlInv, Working, DiscoverKnown
<1>2. CASE open[i] # None /\ open' = [open EXCEPT ![i].lost = "no"]
  <2>1. open' = [open EXCEPT ![i] = [open[i] EXCEPT !.lost = "no"]] /\ open[i] \in FileStates
    BY <1>2, InodeFacts
  <2>2. [open[i] EXCEPT !.lost = "no"] \in FileStates
    BY <2>1, FileSame
  <2>3. /\ open'[i] \in FileStates /\ open'[i] # None
        /\ \A j \in Inodes \ {i} : open'[j] = open[j]
    BY <2>1, <2>2, NoneAssumption DEF TypeOK
  <2>4. open' \in [Inodes -> FileStates \cup {None}]
    BY <2>1, <2>2 DEF TypeOK
  <2>5. TypeOK'
    BY <2>4 DEF TypeOK, DiscoverKnown
  <2>6. OpenFiles' = OpenFiles
    BY <1>2, <2>3 DEF OpenFiles
  <2>7. ControlInv'
    BY <2>6 DEF ControlInv, Working, DiscoverKnown
  <2>8. QED
    BY <2>5, <2>7
<1>3. QED
  BY <1>1, <1>2 DEF DiscoverKnown

\* What a file that is opened starts with.
LEMMA OpenedFacts ==
  ASSUME TypeOK, NEW i \in Inodes
  PROVE  /\ Offset(i) \in Nat /\ Generation(i) \in Nat /\ PositionEpoch(i) \in Nat
         /\ Opened(i) \in FileStates /\ Opened(i) # None
         /\ Opened(i).pend = NoPending /\ Opened(i).read = Offset(i)
         /\ Opened(i).committed = Offset(i) /\ Opened(i).epoch = PositionEpoch(i)
         /\ Checkpoint(Offset(i), Generation(i), Fingerprint(i), PositionEpoch(i)) \in Checkpoints
         /\ Checkpoint(Offset(i), Generation(i), Fingerprint(i), PositionEpoch(i)).offset = Offset(i)
         /\ Checkpoint(Offset(i), Generation(i), Fingerprint(i), PositionEpoch(i)).epoch = PositionEpoch(i)
<1>1. cps[i] # None => cps[i].offset \in Nat /\ cps[i].gen \in Nat /\ cps[i].epoch \in Nat
  BY InodeFacts DEF Checkpoints
<1>2. Len(content[i]) \in Nat /\ epoch[i] \in Nat /\ Fingerprint(i) \in Seq(LogLines)
  BY InodeFacts
<1>3. Offset(i) \in Nat /\ Generation(i) \in Nat /\ PositionEpoch(i) \in Nat
  BY <1>1, <1>2 DEF Offset, Generation, PositionEpoch
<1>4. NoPending \in PendingRecords
  BY DEF NoPending, PendingRecords
<1>5. Opened(i) \in FileStates
  BY <1>2, <1>3, <1>4 DEF Opened, FileStates
<1>6. /\ Opened(i).pend = NoPending /\ Opened(i).read = Offset(i)
      /\ Opened(i).committed = Offset(i) /\ Opened(i).epoch = PositionEpoch(i)
  BY DEF Opened
<1>7. /\ Checkpoint(Offset(i), Generation(i), Fingerprint(i), PositionEpoch(i)) \in Checkpoints
      /\ Checkpoint(Offset(i), Generation(i), Fingerprint(i), PositionEpoch(i)).offset = Offset(i)
      /\ Checkpoint(Offset(i), Generation(i), Fingerprint(i), PositionEpoch(i)).epoch = PositionEpoch(i)
  BY <1>2, <1>3 DEF Checkpoint, Checkpoints
<1>8. QED
  BY <1>3, <1>5, <1>6, <1>7, NoneAssumption

\* A file is opened, or the write of its first checkpoint fails.
LEMMA DiscoverSInv ==
  ASSUME SInv, NEW i \in Inodes, Discover(i)
  PROVE  SInv'
<1> USE DEF SInv, system
<1> DEFINE c == [cps EXCEPT ![i] = Checkpoint(Offset(i), Generation(i), Fingerprint(i), PositionEpoch(i))]
<1>1. c \in [Inodes -> Checkpoints \cup {None}]
  BY OpenedFacts DEF TypeOK
<1>2. /\ cps' \in {cps, c} /\ saved' \in {saved, c} /\ faults' \in Nat
      /\ open' = open \/ open' = [open EXCEPT ![i] = Opened(i)]
  BY DEF Discover, Save, SaveFails, TypeOK
<1>3. open' \in [Inodes -> FileStates \cup {None}]
  BY <1>2, OpenedFacts, ZenonT(60) DEF TypeOK
<1>4. before' \subseteq 1..MaxLines
  <2>1. ASSUME NEW j \in 1..Len(content[i])
        PROVE  content[i][j].n \in 1..MaxLines
    <3>1. content[i][j] \in LogLines
      BY InodeFacts, ElementOfSeq
    <3>2. QED
      BY <3>1 DEF LogLines
  <2>2. Lines(i, Offset(i)) \subseteq 1..MaxLines
    BY <2>1 DEF Lines
  <2>3. QED
    BY <2>2 DEF Discover, TypeOK
<1> HIDE DEF c
<1>5. TypeOK'
  BY <1>1, <1>2, <1>3, <1>4 DEF TypeOK, Discover
<1>6. QED
  BY <1>5 DEF ControlInv, Working, Discover

\* Open files that were not seen are lost.
LEMMA DiscoveredSInv ==
  ASSUME SInv, Discovered
  PROVE  SInv'
<1> USE DEF SInv, system, handled
<1>1. ASSUME NEW i \in Inodes
      PROVE  open'[i] \in FileStates \cup {None} /\ (open'[i] = None <=> open[i] = None)
  <2>1. CASE open[i] # None /\ i \notin seen /\ open[i].lost = "no"
    <3>1. open'[i] = [open[i] EXCEPT !.lost = "noted"]
      BY <2>1 DEF Discovered
    <3>2. QED
      BY <2>1, <3>1, FileSame, InodeFacts, NoneAssumption
  <2>2. CASE ~(open[i] # None /\ i \notin seen /\ open[i].lost = "no")
    <3>1. open'[i] = open[i]
      BY <2>2 DEF Discovered
    <3>2. QED
      BY <3>1 DEF TypeOK
  <2>3. QED
    BY <2>1, <2>2
<1>2. open' \in [Inodes -> FileStates \cup {None}]
  BY <1>1 DEF Discovered
<1>3. OpenFiles' = OpenFiles
  BY <1>1 DEF OpenFiles
<1>4. TypeOK'
  BY <1>2 DEF TypeOK, Discovered, OpenFiles
<1>5. QED
  BY <1>1, <1>3, <1>4 DEF ControlInv, Working, Discovered, OpenFiles

\* A lost file has been so for a minute.
LEMMA MinutePassesSInv ==
  ASSUME SInv, NEW i \in Inodes, MinutePasses(i)
  PROVE  SInv'
<1> USE DEF SInv, system, handled, poll
<1>1. open' = [open EXCEPT ![i] = [open[i] EXCEPT !.lost = "minute"]] /\ open[i] \in FileStates
  BY InodeFacts DEF MinutePasses
<1>2. [open[i] EXCEPT !.lost = "minute"] \in FileStates
  BY <1>1, FileSame
<1>3. open' \in [Inodes -> FileStates \cup {None}]
  BY <1>1, <1>2 DEF TypeOK
<1>4. TypeOK'
  BY <1>3 DEF TypeOK, MinutePasses
<1>5. QED
  BY <1>4 DEF ControlInv, Working, MinutePasses

\* A poll is over.
LEMMA PolledSInv ==
  ASSUME SInv, Polled
  PROVE  SInv'
<1> USE DEF SInv, system, handled, Polled
<1>1. TypeOK' /\ OpenFiles' = OpenFiles
  BY DEF TypeOK, OpenFiles
<1>2. QED
  BY <1>1 DEF ControlInv, Working

\* consume starts on a file.
LEMMA ConsumeSInv ==
  ASSUME SInv, NEW i \in Inodes, Consume(i)
  PROVE  SInv'
<1> USE DEF SInv, system
<1>1. open[i] # None /\ open[i] \in FileStates /\ pc = "consume" /\ epoch[i] \in Nat
  BY InodeFacts DEF Consume, ControlInv, OpenFiles
<1>2. /\ open' \in [Inodes -> FileStates \cup {None}]
      /\ \A j \in Inodes \ {i} : open'[j] = open[j]
      /\ open'[i] \in FileStates /\ open'[i] # None
  <2>1. CASE Regrown(i)
    <3>1. open' = [open EXCEPT ![i] = [open[i] EXCEPT !.epoch = epoch[i]]]
      BY <2>1 DEF Consume
    <3>2. [open[i] EXCEPT !.epoch = epoch[i]] \in FileStates
      BY <1>1 DEF FileStates
    <3>3. QED
      BY <3>1, <3>2, NoneAssumption DEF TypeOK
  <2>2. CASE ~Regrown(i)
    BY <1>1, <2>2 DEF Consume, TypeOK
  <2>3. QED
    BY <2>1, <2>2
<1>3. excused' \subseteq 1..MaxLines
  <2>1. ASSUME NEW j \in 1..Len(content[i])
        PROVE  content[i][j].n \in 1..MaxLines
    <3>1. content[i][j] \in LogLines
      BY InodeFacts, ElementOfSeq
    <3>2. QED
      BY <3>1 DEF LogLines
  <2>2. Lines(i, open[i].read) \subseteq 1..MaxLines
    BY <2>1 DEF Lines
  <2>3. QED
    BY <2>2 DEF Consume, TypeOK
<1>4. TypeOK'
  BY <1>2, <1>3, InodeFacts DEF TypeOK, Consume
<1>5. OpenFiles' = OpenFiles
  BY <1>1, <1>2 DEF OpenFiles
<1>6. ControlInv'
  BY <1>2, <1>5 DEF ControlInv, Working, Consume
<1>7. QED
  BY <1>4, <1>6

\* The file that was found truncated, and its checkpoint.
LEMMA TruncatedFacts ==
  ASSUME SInv, NEW i \in Inodes, ConsumeTruncated(i)
  PROVE  LET g == open[i].gen + 1
             c == [cps EXCEPT ![i] = Checkpoint(0, g, Fingerprint(i), epoch[i])]
             o == [open[i] EXCEPT !.gen = g, !.fp = Fingerprint(i), !.read = 0,
                                  !.committed = 0, !.pend = NoPending, !.epoch = epoch[i]]
         IN  /\ pc = "consume" /\ i \in OpenFiles /\ open[i] \in FileStates
             /\ c \in [Inodes -> Checkpoints \cup {None}]
             /\ \A j \in Inodes \ {i} : c[j] = cps[j]
             /\ c[i].offset = 0 /\ c[i].epoch = epoch[i]
             /\ o \in FileStates /\ o # None /\ o.read = 0 /\ o.committed = 0
             /\ o.pend = NoPending /\ o.epoch = epoch[i]
             /\ \/ /\ cps' = c /\ Save(c) /\ open' = [open EXCEPT ![i] = o]
                   /\ cur' = i /\ limit' = Len(content[i]) /\ pc' = "lines" /\ UNCHANGED todo
                \/ /\ SaveFails(c)
                   /\ \E left \in {o, None} : open' = [open EXCEPT ![i] = left]
                   /\ todo' = todo \ {i} /\ UNCHANGED <<cps, cur, limit, pc>>
<1> DEFINE g == open[i].gen + 1
           k == Checkpoint(0, g, Fingerprint(i), epoch[i])
           c == [cps EXCEPT ![i] = k]
           o == [open[i] EXCEPT !.gen = g, !.fp = Fingerprint(i), !.read = 0,
                                !.committed = 0, !.pend = NoPending, !.epoch = epoch[i]]
<1> USE DEF SInv
<1>1. pc = "consume" /\ i \in OpenFiles
  BY DEF ConsumeTruncated, ControlInv
<1>2. open[i] \in FileStates /\ Fingerprint(i) \in Seq(LogLines) /\ epoch[i] \in Nat
  BY <1>1, InodeFacts DEF OpenFiles
<1>3. g \in Nat
  BY <1>2 DEF FileStates
<1>4. k \in Checkpoints /\ k.offset = 0 /\ k.epoch = epoch[i]
  BY <1>2, <1>3 DEF Checkpoint, Checkpoints
<1>5. \/ /\ cps' = c /\ Save(c) /\ open' = [open EXCEPT ![i] = o]
         /\ cur' = i /\ limit' = Len(content[i]) /\ pc' = "lines" /\ UNCHANGED todo
      \/ /\ SaveFails(c)
         /\ \E left \in {o, None} : open' = [open EXCEPT ![i] = left]
         /\ todo' = todo \ {i} /\ UNCHANGED <<cps, cur, limit, pc>>
  <2>1. KeptOrClosed(o) \in {o, None}
    BY DEF KeptOrClosed
  <2>2. QED
    BY <2>1 DEF ConsumeTruncated
<1> HIDE DEF g
<1>6. /\ o \in FileStates /\ o.read = 0 /\ o.committed = 0
      /\ o.pend = NoPending /\ o.epoch = epoch[i]
  <2> DEFINE p == open[i]
             f == Fingerprint(i)
             e == epoch[i]
  <2> HIDE DEF p, f, e
  <2>1. p \in FileStates /\ f \in Seq(LogLines) /\ e \in Nat
    BY <1>2 DEF p, f, e
  <2> DEFINE q == [p EXCEPT !.gen = g, !.fp = f, !.read = 0, !.committed = 0,
                            !.pend = NoPending, !.epoch = e]
  <2>2. /\ q \in FileStates /\ q.read = 0 /\ q.committed = 0
        /\ q.pend = NoPending /\ q.epoch = e
    <3>1. q \in FileStates
      BY <1>3, <2>1, TruncatedFields
    <3>2. q.read = 0 /\ q.committed = 0
      BY <2>1 DEF FileStates
    <3>3. q.pend = NoPending /\ q.epoch = e
      BY <2>1 DEF FileStates
    <3>4. QED
      BY <3>1, <3>2, <3>3
  <2>3. QED
    BY <2>2 DEF p, f, e
<1> HIDE DEF k
<1>7. /\ c \in [Inodes -> Checkpoints \cup {None}]
      /\ \A j \in Inodes \ {i} : c[j] = cps[j]
      /\ c[i] = k
  BY <1>4 DEF TypeOK
<1>8. o # None
  BY <1>6, NoneAssumption
<1> HIDE DEF o, c
<1>9. QED
  BY <1>1, <1>2, <1>4, <1>5, <1>6, <1>7, <1>8 DEF g, k, c, o

\* consume finds the file truncated.
LEMMA ConsumeTruncatedSInv ==
  ASSUME SInv, NEW i \in Inodes, ConsumeTruncated(i)
  PROVE  SInv'
<1> USE DEF SInv, system, handled
<1> DEFINE g == open[i].gen + 1
           c == [cps EXCEPT ![i] = Checkpoint(0, g, Fingerprint(i), epoch[i])]
           o == [open[i] EXCEPT !.gen = g, !.fp = Fingerprint(i), !.read = 0,
                                !.committed = 0, !.pend = NoPending, !.epoch = epoch[i]]
<1>1. /\ pc = "consume" /\ i \in OpenFiles /\ open[i] \in FileStates
      /\ c \in [Inodes -> Checkpoints \cup {None}]
      /\ o \in FileStates /\ o # None
  BY TruncatedFacts, ZenonT(60)
<1>2. \/ /\ cps' = c /\ Save(c) /\ open' = [open EXCEPT ![i] = o]
         /\ cur' = i /\ limit' = Len(content[i]) /\ pc' = "lines" /\ UNCHANGED todo
      \/ /\ SaveFails(c)
         /\ \E left \in {o, None} : open' = [open EXCEPT ![i] = left]
         /\ todo' = todo \ {i} /\ UNCHANGED <<cps, cur, limit, pc>>
  BY TruncatedFacts
<1> HIDE DEF g, c, o
<1>3. /\ cps' \in {cps, c} /\ saved' \in {saved, c} /\ faults' \in Nat
      /\ \E left \in {o, None} : open' = [open EXCEPT ![i] = left]
  BY <1>2 DEF Save, SaveFails, TypeOK
<1>4. open' \in [Inodes -> FileStates \cup {None}]
  BY <1>1, <1>3 DEF TypeOK
<1>5. TypeOK'
  <2>1. todo' \subseteq Inodes /\ cur' \in Inodes \cup {None} /\ limit' \in Nat /\ pc' \in {"lines", "consume"}
    BY <1>1, <1>2, InodeFacts DEF TypeOK
  <2>2. cps' \in [Inodes -> Checkpoints \cup {None}] /\ saved' \in [Inodes -> Checkpoints \cup {None}]
    BY <1>1, <1>3 DEF TypeOK
  <2>3. QED
    BY <1>3, <1>4, <2>1, <2>2 DEF TypeOK, ConsumeTruncated
<1>6. (\A j \in Inodes \ {i} : open'[j] = open[j]) /\ open'[i] \in {o, None}
  BY <1>3 DEF TypeOK
<1>7. OpenFiles' \subseteq OpenFiles /\ OpenFiles \ {i} \subseteq OpenFiles'
  BY <1>1, <1>6 DEF OpenFiles
<1>8. CASE pc' = "lines"
  <2>1. open'[i] = o /\ cur' = i /\ limit' = Len(content[i]) /\ todo' = todo /\ content' = content
    BY <1>1, <1>2, <1>8 DEF TypeOK, ConsumeTruncated
  <2>2. OpenFiles' = OpenFiles
    BY <2>1, <1>1, <1>7 DEF OpenFiles
  <2>3. ControlInv'
    BY <1>1, <1>8, <2>1, <2>2 DEF ControlInv, Working
  <2>4. QED
    BY <1>5, <2>3
<1>9. CASE pc' = "consume" /\ todo' = todo \ {i}
  BY <1>1, <1>5, <1>7, <1>9 DEF ControlInv, Working
<1>10. QED
  BY <1>1, <1>2, <1>8, <1>9, SMTT(30)

\* A line is refused.
LEMMA RejectLineSInv ==
  ASSUME SInv, RejectLine
  PROVE  SInv'
<1> USE DEF SInv
<1> DEFINE c == Committed(File, File.read + 1)
<1>1. HasLine /\ Working /\ File.read + 1 \in Nat /\ Line.n \in 1..MaxLines
  BY LineFacts, FileFacts, SMTT(30) DEF RejectLine
<1>2. c \in [Inodes -> Checkpoints \cup {None}]
  BY <1>1, CommittedFacts
<1> HIDE DEF c
<1>3. rejected' \subseteq 1..MaxLines
  BY <1>1 DEF RejectLine, TypeOK
<1>4. CASE /\ cps' = c /\ Save(c) /\ Goto("lines")
           /\ Update([File EXCEPT !.read = @ + 1, !.committed = File.read + 1,
                                  !.pend.passed = File.pend.lines])
  <2> DEFINE k == File.read + 1
             P == File.pend.lines
             o == [File EXCEPT !.read = @ + 1, !.committed = k, !.pend.passed = P]
  <2>a. k \in Nat /\ P \in SUBSET (1..MaxLines) /\ File \in FileStates
    BY <1>1, FileFacts
  <2> HIDE DEF k, P
  <2>b. o = [File EXCEPT !.read = @ + 1, !.committed = k, !.pend.passed = P]
    OBVIOUS
  <2> HIDE DEF o
  <2>1. o \in FileStates
    BY <2>a, <2>b, RejectedFields DEF FileStates
  <2>2. /\ open' \in [Inodes -> FileStates \cup {None}] /\ open'[cur] = o
        /\ \A i \in Inodes \ {cur} : open'[i] = open[i]
    BY <1>1, <1>4, <2>1, FileFacts DEF Update, TypeOK, o, k, P
  <2>3. TypeOK'
    BY <1>2, <1>3, <1>4, <2>2 DEF TypeOK, RejectLine, Save, Goto, system
  <2>4. QED
    BY <1>1, <1>4, <2>1, <2>2, <2>3, StayControl DEF RejectLine, Goto, Working
<1>5. CASE /\ SaveFails(c) /\ UNCHANGED cps
           /\ Leave([File EXCEPT !.read = @ + 1,
                        !.pend.passed = IF saved' = c THEN File.pend.lines ELSE @])
  <2> DEFINE P == IF saved' = c THEN File.pend.lines ELSE File.pend.passed
             o == [File EXCEPT !.read = @ + 1, !.pend.passed = P]
  <2>1. Leave(o)
    BY <1>5
  <2>2. P \in SUBSET (1..MaxLines)
    BY <1>1, FileFacts
  <2> HIDE DEF P
  <2>a. o = [File EXCEPT !.read = @ + 1, !.pend.passed = P] /\ File \in FileStates
    BY <1>1, FileFacts
  <2> HIDE DEF o
  <2>3. o \in FileStates
    BY <2>2, <2>a, SkippedFields DEF FileStates
  <2>4. /\ open' \in [Inodes -> FileStates \cup {None}] /\ pc' = "consume"
        /\ todo' = todo \ {cur} /\ cur' = None /\ limit' = 0 /\ seen' = seen
    BY <1>1, <2>1, <2>3, LeaveFacts
  <2>5. saved' \in [Inodes -> Checkpoints \cup {None}] /\ faults' \in Nat
    BY <1>2, <1>5 DEF SaveFails, TypeOK
  <2>6. TypeOK'
    BY <1>3, <1>5, <2>4, <2>5 DEF TypeOK, RejectLine, system
  <2>7. QED
    BY <1>1, <2>1, <2>3, <2>6, LeaveControl DEF RejectLine
<1>6. QED
  BY <1>4, <1>5 DEF RejectLine, c

\* A line joins the pending record.
LEMMA TakenSInv ==
  ASSUME SInv, HasLine, Update([File EXCEPT !.pend = Extended, !.read = @ + 1]),
         UNCHANGED <<system, saved, handled, cps, stops, faults>>, Goto("admit") \/ Goto("lines")
  PROVE  SInv'
<1> USE DEF SInv
<1> DEFINE o == [File EXCEPT !.pend = Extended, !.read = @ + 1]
<1>1. Working
  BY LineFacts
<1>2. o \in FileStates
  BY <1>1, FileFacts, ExtendedFacts, PendingFields
<1> HIDE DEF o
<1>3. /\ open' \in [Inodes -> FileStates \cup {None}] /\ open'[cur] = o
      /\ \A i \in Inodes \ {cur} : open'[i] = open[i]
  BY <1>1, <1>2, FileFacts DEF Update, TypeOK, o
<1>4. TypeOK'
  BY <1>3 DEF TypeOK, Goto, system, handled
<1>5. QED
  BY <1>1, <1>2, <1>3, <1>4, StayControl DEF Goto, Working

\* A line that ends the record is taken and the record emitted.
LEMMA EmitLineSInv ==
  ASSUME SInv, EmitLine
  PROVE  SInv'
BY TakenSInv DEF EmitLine

\* A line is taken into a record that stays open.
LEMMA TakeLineSInv ==
  ASSUME SInv, TakeLine
  PROVE  SInv'
BY TakenSInv DEF TakeLine

\* The pending record is emitted.
LEMMA EmitSInv ==
  ASSUME SInv, Working, Goto("admit"), UNCHANGED <<system, saved, handled, cps, open, stops, faults>>
  PROVE  SInv'
<1> USE DEF SInv
<1>1. TypeOK'
  BY DEF TypeOK, Goto, system, handled
<1>2. QED
  BY <1>1, FileFacts, StayControl DEF Goto, Working

\* The pending record is emitted before the next line.
LEMMA EmitPendingSInv ==
  ASSUME SInv, EmitPending
  PROVE  SInv'
BY EmitSInv, LineFacts DEF EmitPending

\* The pending record is emitted by the multiline timeout.
LEMMA FlushTimeoutSInv ==
  ASSUME SInv, FlushTimeout
  PROVE  SInv'
BY EmitSInv DEF FlushTimeout, Working

\* consume is at the end of the file.
LEMMA FileDoneSInv ==
  ASSUME SInv, FileDone
  PROVE  SInv'
<1> USE DEF SInv
<1>1. Working /\ Leave(File)
  BY DEF FileDone, Working
<1>2. /\ open' \in [Inodes -> FileStates \cup {None}] /\ pc' = "consume"
      /\ todo' = todo \ {cur} /\ cur' = None /\ limit' = 0 /\ seen' = seen
  BY <1>1, FileFacts, LeaveFacts
<1>3. TypeOK'
  BY <1>2 DEF TypeOK, FileDone, system, handled
<1>4. QED
  BY <1>1, <1>3, FileFacts, LeaveControl DEF FileDone

\* The record is stored, or found.
LEMMA AdmitSInv ==
  ASSUME SInv, Admit
  PROVE  SInv'
<1> USE DEF SInv
<1>1. Working
  BY DEF Admit, Working
<1>2. [id |-> AdmissionID, lines |-> File.pend.lines, epoch |-> File.epoch] \in Admissions
  BY <1>1, FileFacts DEF AdmissionID, Admissions
<1>3. spooled' \subseteq Admissions
  BY <1>2 DEF Admit, TypeOK
<1>4. excused' \subseteq 1..MaxLines
  BY <1>1, FileFacts DEF Admit, TypeOK
<1>5. TypeOK'
  BY <1>3, <1>4 DEF TypeOK, Goto, system, Admit
<1>6. QED
  BY <1>1, <1>5, FileFacts, StayControl DEF Admit, Goto, Working

\* The emission fails.
LEMMA EmitFailedSInv ==
  ASSUME SInv, Working, EmitFailed(File), UNCHANGED <<system, handled, cps, stops>>, faults' \in Nat,
         saved' \in [Inodes -> Checkpoints \cup {None}]
  PROVE  SInv'
<1> USE DEF SInv
<1>1. PICK o \in FileStates : Leave(o)
  BY EmitFailedFacts
<1>2. TypeOK'
  BY <1>1, LeaveFacts, SMTT(30) DEF TypeOK, system, handled
<1>3. QED
  BY <1>1, <1>2, LeaveControl

\* The spool refuses the record.
LEMMA AdmitFailsSInv ==
  ASSUME SInv, AdmitFails
  PROVE  SInv'
<1>1. Working /\ EmitFailed(File) /\ faults' \in Nat /\ saved' \in [Inodes -> Checkpoints \cup {None}]
  BY DEF AdmitFails, Working, SInv, TypeOK
<1>2. QED
  BY <1>1, EmitFailedSInv DEF AdmitFails

\* The checkpoint or the activation of the record fails.
LEMMA ActivateFailsSInv ==
  ASSUME SInv, ActivateFails
  PROVE  SInv'
<1>1. Working /\ EmitFailed(File) /\ faults' \in Nat /\ saved' \in [Inodes -> Checkpoints \cup {None}]
  BY DEF ActivateFails, Working, SInv, TypeOK
<1>2. QED
  BY <1>1, EmitFailedSInv DEF ActivateFails

\* The checkpoint passes the record.
LEMMA CommitSInv ==
  ASSUME SInv, Commit
  PROVE  SInv'
<1> USE DEF SInv
<1> DEFINE c == Committed(File, File.pend.to)
<1>1. Working
  BY DEF Commit, Working
<1>2. c \in [Inodes -> Checkpoints \cup {None}]
  BY <1>1, FileFacts, CommittedFacts
<1> HIDE DEF c
<1>3. CASE cps' = c /\ Save(c) /\ Goto("activate") /\ Update([File EXCEPT !.committed = File.pend.to])
  <2> DEFINE o == [File EXCEPT !.committed = File.pend.to]
  <2>1. o \in FileStates
    BY <1>1, FileFacts, PendingFields, ZenonT(60)
  <2> HIDE DEF o
  <2>2. /\ open' \in [Inodes -> FileStates \cup {None}] /\ open'[cur] = o
        /\ \A i \in Inodes \ {cur} : open'[i] = open[i]
    BY <1>1, <1>3, <2>1, FileFacts DEF Update, TypeOK, o
  <2>3. TypeOK'
    BY <1>2, <1>3, <2>2 DEF TypeOK, Commit, Save, Goto, system, handled
  <2>4. QED
    BY <1>1, <1>3, <2>1, <2>2, <2>3, StayControl DEF Commit, Goto, Working
<1>4. CASE SaveFails(c) /\ UNCHANGED cps /\ EmitFailed(File)
  <2>1. faults' \in Nat /\ saved' \in [Inodes -> Checkpoints \cup {None}]
    BY <1>2, <1>4 DEF SaveFails, TypeOK
  <2>2. QED
    BY <1>1, <1>4, <2>1, EmitFailedSInv DEF Commit
<1>5. QED
  BY <1>3, <1>4 DEF Commit, c

\* The record is handed over.
LEMMA ActivateSInv ==
  ASSUME SInv, Activate
  PROVE  SInv'
<1> USE DEF SInv
<1> DEFINE o == [File EXCEPT !.pend = NoPending]
<1>1. Working
  BY DEF Activate, Working
<1>2. o \in FileStates
  BY <1>1, FileFacts, PendingFields
<1> HIDE DEF o
<1>3. /\ open' \in [Inodes -> FileStates \cup {None}] /\ open'[cur] = o
      /\ \A i \in Inodes \ {cur} : open'[i] = open[i]
  BY <1>1, <1>2, FileFacts DEF Activate, Update, TypeOK, o
<1>4. TypeOK'
  BY <1>3 DEF TypeOK, Activate, Goto, system, handled
<1>5. QED
  BY <1>1, <1>2, <1>3, <1>4, StayControl DEF Activate, Goto, Working

\* Steps that change nothing.
LEMMA StutterSInv ==
  ASSUME SInv, UNCHANGED vars
  PROVE  SInv'
BY DEF vars, system, handled, poll, SInv, TypeOK, ControlInv, Working, OpenFiles, File

\* Every step preserves SInv.
LEMMA NextSInv ==
  ASSUME SInv, [Next]_vars
  PROVE  SInv'
<1>1. CASE TailerStep
  BY <1>1, StartSInv, PollBeginSInv, DiscoveredSInv, PolledSInv, DiscoverKnownSInv,
     DiscoverSInv,
     ConsumeSInv, ConsumeTruncatedSInv, RejectLineSInv, EmitLineSInv, EmitPendingSInv, TakeLineSInv,
     FlushTimeoutSInv, FileDoneSInv, AdmitSInv, CommitSInv, ActivateSInv DEF TailerStep
<1>2. CASE Environment
  BY <1>2, Append1SInv, RotateSInv, DeleteSInv, MinutePassesSInv, TruncateSInv, StopSInv, AdmitFailsSInv,
     ActivateFailsSInv DEF Environment
<1>3. QED
  BY <1>1, <1>2, StutterSInv DEF Next

\* Every variable keeps its type, and pollOnce and consume work on open files.
THEOREM Structure == Spec => []SInv
BY InitSInv, NextSInv, PTL DEF Spec

-----------------------------------------------------------------------------
(* TInv is inductive.                                                       *)

\* Nothing that is settled is forgotten.
LEMMA SettledGrows ==
  ASSUME rejected \subseteq rejected', before \subseteq before', spooled \subseteq spooled',
         excused \subseteq excused'
  PROVE  Settled \subseteq Settled'
BY DEF Settled, Handled

\* A checkpoint stays good when more is settled or overtaken.
LEMMA PointMore ==
  ASSUME NEW p, NEW c, NEW e, NEW S, NEW P, NEW T, NEW Q, S \cup P \subseteq T \cup Q,
         PointOK(p, c, e, S, P)
  PROVE  PointOK(p, c, e, T, Q)
BY Zenon DEF PointOK

\* What TInv says of one inode.
LEMMA InodeInv ==
  ASSUME TInv, NEW i \in Inodes
  PROVE  /\ ContentOK(content[i], lines)
         /\ open[i] # None => FileOK(open[i], content[i], epoch[i], lines, Settled)
         /\ saved[i] # None => PointOK(saved[i], content[i], epoch[i], Settled, PassedOf(open[i], epoch[i]))
         /\ cps[i] # None => PointOK(cps[i], content[i], epoch[i], Settled, PassedOf(open[i], epoch[i]))
BY DEF TInv, NumberInv, PositionInv

\* A step of the tailer concerns one file, its checkpoints, and new records.
LEMMA Moves ==
  ASSUME TInv, UNCHANGED system, Settled \subseteq Settled', NEW i \in Inodes,
         \A k \in Inodes \ {i} : open'[k] = open[k],
         \A k \in Inodes \ {i} : saved'[k] \in {saved[k], cps[k]} /\ cps'[k] = cps[k],
         open'[i] # None => FileOK(open'[i], content[i], epoch[i], lines, Settled'),
         saved'[i] # None =>
            PointOK(saved'[i], content[i], epoch[i], Settled', PassedOf(open'[i], epoch[i])),
         cps'[i] # None =>
            PointOK(cps'[i], content[i], epoch[i], Settled', PassedOf(open'[i], epoch[i])),
         \A r \in spooled' \ spooled : RecordOK(r, content[r.id[1]], epoch[r.id[1]], Settled'),
         cur = i \/ pc \notin {"admit", "commit", "activate"},
         ~config.multiline /\ open'[i] # None =>
            /\ open'[i].pend.passed = {}
            /\ (cur' = i /\ pc' \in {"admit", "commit", "activate"}) \/ open'[i].pend.lines = {}
  PROVE  FromBeginning' /\ NumberInv' /\ PositionInv' /\ SingleInv'
<1> USE DEF system
<1>1. FromBeginning' /\ NumberInv'
  BY DEF TInv, FromBeginning, NumberInv
<1>2. ASSUME NEW k \in Inodes, open'[k] # None
      PROVE  FileOK(open'[k], content[k], epoch[k], lines, Settled')
  <2>1. CASE k # i
    <3>1. FileOK(open[k], content[k], epoch[k], lines, Settled) /\ open'[k] = open[k]
      BY <1>2, <2>1, InodeInv
    <3>2. QED
      BY <3>1, MoreSettled
  <2>2. QED
    BY <1>2, <2>1
<1>3. ASSUME NEW k \in Inodes, saved'[k] # None
      PROVE  PointOK(saved'[k], content[k], epoch[k], Settled', PassedOf(open'[k], epoch[k]))
  <2>1. CASE k # i
    <3>1. /\ PointOK(saved'[k], content[k], epoch[k], Settled, PassedOf(open[k], epoch[k]))
          /\ open'[k] = open[k]
      BY <1>3, <2>1, InodeInv
    <3>2. QED
      BY <3>1, MoreSettled
  <2>2. QED
    BY <1>3, <2>1
<1>4. ASSUME NEW k \in Inodes, cps'[k] # None
      PROVE  PointOK(cps'[k], content[k], epoch[k], Settled', PassedOf(open'[k], epoch[k]))
  <2>1. CASE k # i
    <3>1. /\ PointOK(cps[k], content[k], epoch[k], Settled, PassedOf(open[k], epoch[k]))
          /\ cps'[k] = cps[k] /\ open'[k] = open[k]
      BY <1>4, <2>1, InodeInv
    <3>2. QED
      BY <3>1, MoreSettled
  <2>2. QED
    BY <1>4, <2>1
<1>5. ASSUME NEW r \in spooled'
      PROVE  RecordOK(r, content[r.id[1]], epoch[r.id[1]], Settled')
  <2>1. CASE r \in spooled
    <3>1. RecordOK(r, content[r.id[1]], epoch[r.id[1]], Settled)
      BY <2>1 DEF TInv, PositionInv
    <3>2. QED
      BY <3>1, MoreSettled
  <2>2. QED
    BY <2>1
<1>6. PositionInv'
  BY <1>2, <1>3, <1>4, <1>5 DEF PositionInv
<1>7. SingleInv'
  BY DEF TInv, SingleInv
<1>8. QED
  BY <1>1, <1>6, <1>7

\* Steps that concern none.
LEMMA Stays ==
  ASSUME TInv, SInv', UNCHANGED <<system, saved, cps, open, spooled>>, Settled \subseteq Settled',
         pc \notin {"admit", "commit", "activate"}, pc' \notin {"commit", "activate"}
  PROVE  TInv'
<1>1. FromBeginning' /\ NumberInv' /\ PositionInv' /\ SingleInv'
  <2>1. PICK i \in Inodes : TRUE
    BY NoneAssumption
  <2>2. /\ open[i] # None => FileOK(open[i], content[i], epoch[i], lines, Settled')
        /\ saved[i] # None => PointOK(saved[i], content[i], epoch[i], Settled', PassedOf(open[i], epoch[i]))
        /\ cps[i] # None => PointOK(cps[i], content[i], epoch[i], Settled', PassedOf(open[i], epoch[i]))
    BY InodeInv, MoreSettled
  <2>3. ~config.multiline /\ open[i] # None => open[i].pend.passed = {} /\ open[i].pend.lines = {}
    BY DEF TInv, SingleInv
  <2>4. QED
    BY <2>2, <2>3, Moves
<1>2. EmitInv'
  BY DEF EmitInv
<1>3. QED
  BY <1>1, <1>2 DEF TInv

\* consume returns with the file o, or without it.
LEMMA LeaveMoves ==
  ASSUME TInv, SInv', Working, UNCHANGED system, Settled \subseteq Settled', spooled' = spooled,
         NEW o \in FileStates, Leave(o), FileOK(o, content[cur], epoch[cur], lines, Settled'),
         ~config.multiline => o.pend.lines = {} /\ o.pend.passed = {},
         \A k \in Inodes \ {cur} : saved'[k] \in {saved[k], cps[k]} /\ cps'[k] = cps[k],
         saved'[cur] # None =>
            PointOK(saved'[cur], content[cur], epoch[cur], Settled', PassedOf(o, epoch[cur])),
         cps'[cur] # None =>
            PointOK(cps'[cur], content[cur], epoch[cur], Settled', PassedOf(o, epoch[cur]))
  PROVE  TInv'
<1>1. cur \in Inodes /\ o # None
  BY FileFacts, NoneAssumption DEF TInv
<1>2. /\ \A i \in Inodes \ {cur} : open'[i] = open[i]
      /\ open'[cur] \in {o, None} /\ (open'[cur] = None => o.pend.lines = {})
      /\ pc' = "consume"
  BY LeaveFacts DEF TInv
<1>3. o.pend.passed \subseteq o.pend.lines
  BY DEF FileOK
<1>4. PassedOf(open'[cur], epoch[cur]) = PassedOf(o, epoch[cur])
  BY <1>1, <1>2, <1>3 DEF PassedOf
<1>5. open'[cur] # None => FileOK(open'[cur], content[cur], epoch[cur], lines, Settled')
  BY <1>2
<1>6. ~config.multiline /\ open'[cur] # None => open'[cur].pend.passed = {} /\ open'[cur].pend.lines = {}
  BY <1>2
<1>7. FromBeginning' /\ NumberInv' /\ PositionInv' /\ SingleInv'
  BY <1>1, <1>2, <1>4, <1>5, <1>6, Moves
<1>8. EmitInv'
  BY <1>2 DEF EmitInv
<1>9. QED
  BY <1>7, <1>8 DEF TInv

\* Init establishes TInv.
LEMMA InitTInv == Init /\ FromBeginning => TInv
<1> SUFFICES ASSUME Init, FromBeginning PROVE TInv
  OBVIOUS
<1> USE DEF Init
<1>1. SInv
  BY InitSInv
<1>2. NumberInv
  BY DEF NumberInv, ContentOK
<1>3. PositionInv
  BY DEF PositionInv
<1>4. SingleInv /\ EmitInv
  BY DEF SingleInv, EmitInv
<1>5. QED
  BY <1>1, <1>2, <1>3, <1>4 DEF TInv

\* An application writes a line.
LEMMA Append1TInv ==
  ASSUME TInv, SInv', NEW v \in Inodes, NEW k \in config.kinds, Append1(v, k)
  PROVE  TInv'
<1> USE DEF handled, poll
<1> DEFINE x == [n |-> lines + 1, kind |-> k]
<1>1. content[v] \in Seq(LogLines) /\ lines \in Nat /\ lines + 1 \in 1..MaxLines
  BY TailerAssumption DEF TInv, SInv, TypeOK, Append1
<1>2. x \in LogLines /\ x.n = lines + 1
  BY <1>1, ConfigFacts DEF LogLines, TInv, SInv
<1>3. /\ content'[v] = Append(content[v], x) /\ lines' = lines + 1
      /\ \A i \in Inodes \ {v} : content'[i] = content[i]
      /\ UNCHANGED <<config, epoch, saved, handled, cps, open, pc, cur>>
  BY <1>1 DEF Append1, TInv, SInv, TypeOK
<1> HIDE DEF x
<1>4. Settled' = Settled
  BY <1>3 DEF Settled, Handled
<1>5. NumberInv'
  <2>1. ASSUME NEW i \in Inodes
        PROVE  ContentOK(content'[i], lines + 1)
    <3>0. content[i] \in Seq(LogLines) /\ Len(content[i]) \in Nat /\ ContentOK(content[i], lines)
      BY InodeFacts, InodeInv DEF TInv, SInv
    <3>1. \A j \in 1..Len(content[i]) : content[i][j].n \in Nat /\ content[i][j].n <= lines
      <4>1. \A j \in 1..Len(content[i]) : content[i][j] \in LogLines
        BY <3>0, ElementOfSeq
      <4>2. QED
        BY <3>0, <4>1, TailerAssumption DEF LogLines, ContentOK
    <3>2. CASE i # v
      <4>1. content'[i] = content[i]
        BY <1>3, <3>2
      <4>2. \A j \in 1..Len(content[i]) : content[i][j].n <= lines + 1
        BY <1>1, <3>1
      <4>3. QED
        BY <3>0, <4>1, <4>2 DEF ContentOK
    <3>3. CASE i = v
      <4> DEFINE d == Append(content[v], x)
      <4>1. /\ Len(d) = Len(content[i]) + 1 /\ d[Len(content[i]) + 1] = x
            /\ \A j \in 1..Len(content[i]) : d[j] = content[i][j]
        BY <1>2, <3>0, <3>3, AppendProperties
      <4> HIDE DEF d
      <4>2. \A j \in 1..Len(d) : j = Len(content[i]) + 1 \/ j \in 1..Len(content[i])
        BY <4>1, <3>0
      <4>3. \A j \in 1..Len(d) : d[j].n <= lines + 1
        BY <1>1, <1>2, <3>1, <4>1, <4>2
      <4>4. \A j, m \in 1..Len(d) : d[j].n = d[m].n => j = m
        <5> SUFFICES ASSUME NEW j \in 1..Len(d), NEW m \in 1..Len(d), d[j].n = d[m].n
                     PROVE  j = m
          OBVIOUS
        <5>1. CASE j \in 1..Len(content[i]) /\ m \in 1..Len(content[i])
          BY <5>1, <3>0, <4>1 DEF ContentOK
        <5>2. CASE j = Len(content[i]) + 1 /\ m \in 1..Len(content[i])
          <6>1. d[j].n = lines + 1 /\ d[m].n \in Nat /\ d[m].n <= lines
            BY <5>2, <1>2, <3>1, <4>1
          <6>2. QED
            BY <6>1, <1>1
        <5>3. CASE m = Len(content[i]) + 1 /\ j \in 1..Len(content[i])
          <6>1. d[m].n = lines + 1 /\ d[j].n \in Nat /\ d[j].n <= lines
            BY <5>3, <1>2, <3>1, <4>1
          <6>2. QED
            BY <6>1, <1>1
        <5>4. QED
          BY <4>2, <5>1, <5>2, <5>3
      <4>5. QED
        BY <1>3, <3>3, <4>3, <4>4, ZenonT(60) DEF ContentOK, d
    <3>4. QED
      BY <3>2, <3>3
  <2>2. QED
    BY <1>3, <2>1 DEF NumberInv
<1>6. ASSUME NEW i \in Inodes, open[i] # None
      PROVE  FileOK(open[i], content'[i], epoch[i], lines + 1, Settled)
  <2>1. open[i] \in FileStates /\ FileOK(open[i], content[i], epoch[i], lines, Settled) /\ epoch[i] \in Nat
    BY <1>6, InodeFacts, InodeInv DEF TInv, SInv
  <2>2. CASE i = v
    BY <1>1, <1>2, <1>3, <2>1, <2>2, FileAppended
  <2>3. CASE i # v
    BY <1>1, <1>3, <2>1, <2>3, FileWider
  <2>4. QED
    BY <2>2, <2>3
<1>7. ASSUME NEW i \in Inodes, NEW p \in Checkpoints, NEW P,
             PointOK(p, content[i], epoch[i], Settled, P)
      PROVE  PointOK(p, content'[i], epoch[i], Settled, P)
  <2>1. CASE i = v
    BY <1>1, <1>2, <1>3, <1>7, <2>1, PointAppended
  <2>2. CASE i # v
    BY <1>3, <1>7, <2>2
  <2>3. QED
    BY <2>1, <2>2
<1>8. ASSUME NEW r \in spooled
      PROVE  RecordOK(r, content'[r.id[1]], epoch[r.id[1]], Settled)
  <2>1. r \in Admissions /\ r.id[1] \in Inodes /\ RecordOK(r, content[r.id[1]], epoch[r.id[1]], Settled)
    BY DEF TInv, SInv, TypeOK, PositionInv, Admissions
  <2>2. CASE r.id[1] = v
    <3>1. RecordOK(r, content[v], epoch[v], Settled)
      BY <2>1, <2>2
    <3>2. RecordOK(r, Append(content[v], x), epoch[v], Settled)
      BY <1>1, <1>2, <2>1, <3>1, RecordAppended
    <3>3. QED
      BY <1>3, <2>2, <3>2
  <2>3. CASE r.id[1] # v
    BY <1>3, <2>1, <2>3
  <2>4. QED
    BY <2>2, <2>3
<1>9. PositionInv'
  <2>1. /\ \A i \in Inodes : saved[i] # None =>
             PointOK(saved[i], content'[i], epoch[i], Settled, PassedOf(open[i], epoch[i]))
        /\ \A i \in Inodes : cps[i] # None =>
             PointOK(cps[i], content'[i], epoch[i], Settled, PassedOf(open[i], epoch[i]))
    BY <1>7, InodeFacts, InodeInv DEF TInv, SInv
  <2>2. QED
    BY <1>3, <1>4, <1>6, <1>8, <2>1 DEF PositionInv
<1>10. FromBeginning' /\ SingleInv'
  BY <1>3 DEF TInv, FromBeginning, SingleInv
<1>11. EmitInv'
  <2>1. ASSUME pc \in {"commit", "activate"}, File.epoch = epoch[cur]
        PROVE  Span(content'[cur], 0, Len(content'[cur])) \cap File.pend.lines \subseteq Settled
    <3>1. Working /\ cur \in Inodes /\ File = open[cur] /\ File # None /\ File \in FileStates
      BY <2>1, FileFacts DEF Working, TInv
    <3>2. Span(content[cur], 0, Len(content[cur])) \cap File.pend.lines \subseteq Settled
      BY <2>1 DEF TInv, EmitInv
    <3>3. lines + 1 \notin File.pend.lines
      <4>1. \A n \in File.pend.lines : n <= lines
        BY <3>1, InodeInv DEF FileOK
      <4>2. QED
        BY <4>1, <1>1
    <3>4. Span(content'[cur], 0, Len(content'[cur]))
             \subseteq Span(content[cur], 0, Len(content[cur])) \cup {lines + 1}
      <4>1. CASE cur = v
        BY <1>1, <1>2, <1>3, <4>1, SpanAppend
      <4>2. CASE cur # v
        BY <1>3, <3>1, <4>2
      <4>3. QED
        BY <4>1, <4>2
    <3>5. QED
      BY <3>2, <3>3, <3>4
  <2>2. QED
    BY <1>3, <1>4, <2>1 DEF EmitInv, File
<1>12. QED
  BY <1>5, <1>9, <1>10, <1>11 DEF TInv

\* logrotate moves the name.
LEMMA RotateTInv ==
  ASSUME TInv, SInv', NEW i \in Inodes, Rotate(i)
  PROVE  TInv'
<1>1. UNCHANGED <<config, content, lines, epoch, saved, handled, cps, open, poll>>
  BY DEF Rotate
<1>2. Settled' = Settled
  BY <1>1 DEF Settled, Handled, handled
<1>3. QED
  BY <1>1, <1>2 DEF TInv, FromBeginning, NumberInv, PositionInv, SingleInv, EmitInv, File,
     poll, handled

\* Contents go: the positions that were counted in them are of the past.
LEMMA ReplacedTInv ==
  ASSUME TInv, SInv', NEW i \in Inodes, Replaced(i)
  PROVE  TInv'
<1> USE DEF handled, poll
<1>1. /\ content'[i] = << >> /\ epoch'[i] = epoch[i] + 1
      /\ \A k \in Inodes \ {i} : content'[k] = content[k] /\ epoch'[k] = epoch[k]
      /\ UNCHANGED <<config, lines, saved, handled, cps, open, pc, cur>>
  BY DEF Replaced, TInv, SInv, TypeOK
<1>2. Settled' = Settled
  BY <1>1 DEF Settled, Handled
<1>3. epoch[i] \in Nat
  BY InodeFacts DEF TInv, SInv
<1>4. NumberInv'
  <2>1. ContentOK(<< >>, lines)
    BY DEF ContentOK
  <2>2. QED
    BY <1>1, <2>1 DEF TInv, NumberInv
<1>5. ASSUME NEW k \in Inodes, open[k] # None
      PROVE  FileOK(open[k], content'[k], epoch'[k], lines, Settled)
  <2>1. open[k] \in FileStates /\ FileOK(open[k], content[k], epoch[k], lines, Settled)
    BY <1>5, InodeFacts, InodeInv DEF TInv, SInv
  <2>2. CASE k = i
    <3>1. FileOK(open[k], << >>, epoch[i] + 1, lines, Settled)
      <4>1. open[k].epoch \in Nat
        BY <2>1 DEF FileStates
      <4>2. QED
        BY <2>1, <2>2, <4>1, <1>3, SpanEmpty DEF FileOK
    <3>2. QED
      BY <1>1, <2>2, <3>1
  <2>3. CASE k # i
    BY <1>1, <2>1, <2>3
  <2>4. QED
    BY <2>2, <2>3
<1>6. ASSUME NEW k \in Inodes, NEW p \in Checkpoints,
             PointOK(p, content[k], epoch[k], Settled, PassedOf(open[k], epoch[k]))
      PROVE  PointOK(p, content'[k], epoch'[k], Settled, PassedOf(open[k], epoch'[k]))
  <2>1. CASE k = i
    <3>1. p.epoch \in Nat /\ p.epoch <= epoch[i]
      BY <1>6, <2>1 DEF Checkpoints, PointOK
    <3>2. p.epoch <= epoch[i] + 1 /\ p.epoch # epoch[i] + 1
      BY <1>3, <3>1
    <3>3. QED
      BY <1>1, <2>1, <3>2 DEF PointOK
  <2>2. CASE k # i
    BY <1>1, <1>6, <2>2
  <2>3. QED
    BY <2>1, <2>2
<1>7. ASSUME NEW r \in spooled
      PROVE  RecordOK(r, content'[r.id[1]], epoch'[r.id[1]], Settled)
  <2>1. r \in Admissions /\ r.id[1] \in Inodes /\ RecordOK(r, content[r.id[1]], epoch[r.id[1]], Settled)
    BY DEF TInv, SInv, TypeOK, PositionInv, Admissions
  <2>2. CASE r.id[1] = i
    <3>1. r.epoch \in Nat /\ r.epoch <= epoch[i]
      BY <2>1, <2>2 DEF Admissions, RecordOK
    <3>2. r.epoch <= epoch[i] + 1 /\ r.epoch # epoch[i] + 1
      BY <1>3, <3>1
    <3>3. QED
      BY <1>1, <2>2, <3>2 DEF RecordOK
  <2>3. CASE r.id[1] # i
    BY <1>1, <2>1, <2>3
  <2>4. QED
    BY <2>2, <2>3
<1>8. PositionInv'
  <2>1. /\ \A k \in Inodes : saved[k] # None =>
             PointOK(saved[k], content'[k], epoch'[k], Settled, PassedOf(open[k], epoch'[k]))
        /\ \A k \in Inodes : cps[k] # None =>
             PointOK(cps[k], content'[k], epoch'[k], Settled, PassedOf(open[k], epoch'[k]))
    BY <1>6, InodeFacts, InodeInv DEF TInv, SInv
  <2>2. QED
    BY <1>1, <1>2, <1>5, <1>7, <2>1 DEF PositionInv
<1>9. FromBeginning' /\ SingleInv'
  BY <1>1 DEF TInv, FromBeginning, SingleInv
<1>10. EmitInv'
  <2>1. ASSUME pc \in {"commit", "activate"}, File.epoch = epoch'[cur]
        PROVE  Span(content'[cur], 0, Len(content'[cur])) \cap File.pend.lines \subseteq Settled
    <3>1. cur \in Inodes
      BY <2>1, FileFacts DEF Working, TInv
    <3>2. CASE cur = i
      BY <1>1, <3>2, SpanEmpty
    <3>3. CASE cur # i
      BY <1>1, <2>1, <3>1, <3>3 DEF TInv, EmitInv
    <3>4. QED
      BY <3>2, <3>3
  <2>2. QED
    BY <1>1, <1>2, <2>1 DEF EmitInv, File
<1>11. QED
  BY <1>4, <1>8, <1>9, <1>10 DEF TInv

\* copytruncate empties the followed file.
LEMMA TruncateTInv ==
  ASSUME TInv, SInv', Truncate
  PROVE  TInv'
BY ReplacedTInv DEF Truncate, TInv, SInv, TypeOK

\* A file is deleted and its inode used again.
LEMMA DeleteTInv ==
  ASSUME TInv, SInv', NEW i \in Inodes, Delete(i)
  PROVE  TInv'
BY ReplacedTInv DEF Delete

\* Start loads the checkpoint.
LEMMA StartTInv ==
  ASSUME TInv, SInv', Start
  PROVE  TInv'
<1> USE DEF system, handled, Start
<1>1. Settled' = Settled
  BY DEF Settled, Handled
<1>2. FromBeginning' /\ NumberInv' /\ SingleInv' /\ EmitInv'
  BY DEF TInv, FromBeginning, NumberInv, SingleInv, EmitInv
<1>3. PositionInv'
  BY <1>1 DEF TInv, PositionInv
<1>4. QED
  BY <1>2, <1>3 DEF TInv

\* The agent stops: what was overtaken is excused.
LEMMA StopTInv ==
  ASSUME TInv, SInv', Stop
  PROVE  TInv'
<1> USE DEF system
<1>1. /\ UNCHANGED <<config, content, epoch, lines, saved, spooled, rejected, before>>
      /\ \A i \in Inodes : open'[i] = None /\ cps'[i] = None
      /\ excused' = excused \cup UNION {Overtaken(i) : i \in Inodes} /\ pc' = "down"
  BY DEF Stop
<1>2. Settled \subseteq Settled'
  BY <1>1, SettledGrows
<1>3. ASSUME NEW i \in Inodes, saved[i] # None
      PROVE  PointOK(saved[i], content[i], epoch[i], Settled', PassedOf(open'[i], epoch[i]))
  <2>1. PassedOf(open[i], epoch[i]) \subseteq Overtaken(i)
    BY DEF PassedOf, Overtaken
  <2>2. Overtaken(i) \subseteq Settled'
    BY <1>1 DEF Settled
  <2>3. PointOK(saved[i], content[i], epoch[i], Settled, PassedOf(open[i], epoch[i]))
    BY <1>3, InodeInv
  <2>4. QED
    BY <1>2, <2>1, <2>2, <2>3, PointMore
<1>4. \A r \in spooled : RecordOK(r, content[r.id[1]], epoch[r.id[1]], Settled')
  BY <1>2, MoreSettled DEF TInv, PositionInv
<1>5. PositionInv'
  BY <1>1, <1>3, <1>4 DEF PositionInv
<1>6. FromBeginning' /\ NumberInv' /\ SingleInv' /\ EmitInv'
  BY <1>1 DEF TInv, FromBeginning, NumberInv, SingleInv, EmitInv
<1>7. QED
  BY <1>5, <1>6 DEF TInv

\* A poll begins and ends, and a pending record is to be emitted.
LEMMA PollBeginTInv ==
  ASSUME TInv, SInv', PollBegin
  PROVE  TInv'
<1>1. Settled \subseteq Settled'
  BY SettledGrows DEF PollBegin, handled
<1>2. QED
  BY <1>1, Stays DEF PollBegin, handled

\* A poll is over.
LEMMA PolledTInv ==
  ASSUME TInv, SInv', Polled
  PROVE  TInv'
<1>1. Settled \subseteq Settled'
  BY SettledGrows DEF Polled, handled
<1>2. QED
  BY <1>1, Stays DEF Polled, handled

\* The pending record is emitted before the next line.
LEMMA EmitPendingTInv ==
  ASSUME TInv, SInv', EmitPending
  PROVE  TInv'
<1>1. Settled \subseteq Settled'
  BY SettledGrows DEF EmitPending, handled
<1>2. QED
  BY <1>1, Stays DEF EmitPending, handled, HasLine, Goto

\* The pending record is emitted by the multiline timeout.
LEMMA FlushTimeoutTInv ==
  ASSUME TInv, SInv', FlushTimeout
  PROVE  TInv'
<1>1. Settled \subseteq Settled'
  BY SettledGrows DEF FlushTimeout, handled
<1>2. QED
  BY <1>1, Stays DEF FlushTimeout, handled, Goto

\* A name that is open, or is not opened.
LEMMA DiscoverKnownTInv ==
  ASSUME TInv, SInv', NEW i \in Inodes, DiscoverKnown(i)
  PROVE  TInv'
<1>1. Settled \subseteq Settled'
  BY SettledGrows DEF DiscoverKnown, handled
<1>2. CASE UNCHANGED open
  BY <1>1, <1>2, Stays DEF DiscoverKnown, handled
<1>3. CASE open[i] # None /\ open' = [open EXCEPT ![i].lost = "no"]
  <2> DEFINE q == [open[i] EXCEPT !.lost = "no"]
  <2>1. open[i] \in FileStates /\ open' = [open EXCEPT ![i] = q]
    BY <1>3, InodeFacts DEF TInv, SInv
  <2>2. /\ q.pend = open[i].pend /\ PassedOf(q, epoch[i]) = PassedOf(open[i], epoch[i])
        /\ FileOK(q, content[i], epoch[i], lines, Settled')
    <3>1. FileOK(open[i], content[i], epoch[i], lines, Settled')
      BY <1>1, <1>3, InodeInv, MoreSettled
    <3>2. QED
      BY <2>1, <3>1, FileSame
  <2> HIDE DEF q
  <2>3. open'[i] = q /\ \A k \in Inodes \ {i} : open'[k] = open[k]
    BY <2>1 DEF TInv, SInv, TypeOK
  <2>4. /\ saved[i] # None => PointOK(saved[i], content[i], epoch[i], Settled', PassedOf(q, epoch[i]))
        /\ cps[i] # None => PointOK(cps[i], content[i], epoch[i], Settled', PassedOf(q, epoch[i]))
    BY <1>1, <2>2, InodeInv, MoreSettled
  <2>5. ~config.multiline => q.pend.passed = {} /\ q.pend.lines = {}
    BY <1>3, <2>2 DEF TInv, SingleInv, DiscoverKnown
  <2>6. FromBeginning' /\ NumberInv' /\ PositionInv' /\ SingleInv'
    BY <1>1, <2>2, <2>3, <2>4, <2>5, Moves DEF DiscoverKnown, handled
  <2>7. EmitInv'
    BY DEF EmitInv, DiscoverKnown
  <2>8. QED
    BY <2>6, <2>7 DEF TInv
<1>4. QED
  BY <1>2, <1>3 DEF DiscoverKnown

\* A file is opened at its checkpoint, or at its first line.
LEMMA DiscoverTInv ==
  ASSUME TInv, SInv', NEW i \in Inodes, Discover(i)
  PROVE  TInv'
<1> USE DEF TInv
<1> DEFINE k == Checkpoint(Offset(i), Generation(i), Fingerprint(i), PositionEpoch(i))
           c == [cps EXCEPT ![i] = k]
           q == Opened(i)
<1>1. Settled \subseteq Settled'
  BY SettledGrows DEF Discover
<1>2. /\ q \in FileStates /\ q.pend = NoPending /\ q # None /\ q.read = Offset(i)
      /\ q.committed = Offset(i) /\ q.epoch = PositionEpoch(i)
      /\ k.offset = Offset(i) /\ k.epoch = PositionEpoch(i)
  BY OpenedFacts DEF SInv
<1>3. /\ PositionEpoch(i) <= epoch[i]
      /\ PositionEpoch(i) = epoch[i] =>
            Offset(i) <= Len(content[i]) /\ Span(content[i], 0, Offset(i)) \subseteq Settled'
  <2>1. PassedOf(open[i], epoch[i]) = {}
    BY DEF PassedOf, Discover
  <2>2. CASE cps[i] = None
    <3>1. Offset(i) = 0 /\ PositionEpoch(i) = epoch[i]
      BY <2>2 DEF Offset, PositionEpoch, FromBeginning
    <3>2. QED
      BY <3>1, SpanZero, InodeFacts DEF SInv
  <2>3. CASE cps[i] # None
    <3>1. Offset(i) = cps[i].offset /\ PositionEpoch(i) = cps[i].epoch
      BY <2>3 DEF Offset, PositionEpoch, FromBeginning
    <3>2. PointOK(cps[i], content[i], epoch[i], Settled, {})
      BY <2>1, <2>3, InodeInv
    <3>3. QED
      BY <1>1, <3>1, <3>2 DEF PointOK
  <2>4. QED
    BY <2>2, <2>3
<1> HIDE DEF q, k
<1>4. FileOK(q, content[i], epoch[i], lines, Settled')
  BY <1>2, <1>3, FileFresh
<1>5. PassedOf(q, epoch[i]) = {} /\ PassedOf(open[i], epoch[i]) = {} /\ q.pend.passed = {} /\ q.pend.lines = {}
  BY <1>2 DEF PassedOf, NoPending, Discover
<1>6. PointOK(k, content[i], epoch[i], Settled', {})
  BY <1>2, <1>3 DEF PointOK
<1>7. /\ saved[i] # None => PointOK(saved[i], content[i], epoch[i], Settled', {})
      /\ cps[i] # None => PointOK(cps[i], content[i], epoch[i], Settled', {})
  BY <1>1, <1>5, InodeInv, MoreSettled
<1>8. /\ cps' \in {cps, c} /\ saved' \in {saved, c}
      /\ open' = open \/ open' = [open EXCEPT ![i] = q]
  BY DEF Discover, Save, SaveFails, k, q
<1>9. c[i] = k /\ \A j \in Inodes \ {i} : c[j] = cps[j]
  BY DEF SInv, TypeOK
<1> HIDE DEF c
<1>10. open'[i] \in {open[i], q} /\ \A j \in Inodes \ {i} : open'[j] = open[j]
  BY <1>8 DEF SInv, TypeOK
<1>11. /\ open'[i] # None => open'[i] = q
       /\ PassedOf(open'[i], epoch[i]) = {}
  BY <1>5, <1>10 DEF Discover
<1>12. /\ saved'[i] # None => PointOK(saved'[i], content[i], epoch[i], Settled', {})
       /\ cps'[i] # None => PointOK(cps'[i], content[i], epoch[i], Settled', {})
  BY <1>6, <1>7, <1>8, <1>9
<1>13. \A j \in Inodes \ {i} : saved'[j] \in {saved[j], cps[j]} /\ cps'[j] = cps[j]
  BY <1>8, <1>9
<1>14. UNCHANGED <<system, spooled, pc>> /\ pc = "discover"
  BY DEF Discover
<1>15. FromBeginning' /\ NumberInv' /\ PositionInv' /\ SingleInv'
  BY <1>1, <1>4, <1>5, <1>10, <1>11, <1>12, <1>13, <1>14, Moves
<1>16. EmitInv'
  BY <1>14 DEF EmitInv
<1>17. QED
  BY <1>15, <1>16

\* Files are lost; nothing else of them changes.
LEMMA DiscoveredTInv ==
  ASSUME TInv, SInv', Discovered
  PROVE  TInv'
<1> USE DEF system, handled
<1>1. /\ UNCHANGED <<config, content, epoch, lines, saved, spooled, rejected, before, excused, cps>>
      /\ pc = "discover" /\ pc' = "consume"
  BY DEF Discovered
<1>2. Settled' = Settled
  BY <1>1 DEF Settled, Handled
<1>3. ASSUME NEW i \in Inodes
      PROVE  /\ PassedOf(open'[i], epoch[i]) = PassedOf(open[i], epoch[i])
             /\ open'[i] # None => /\ open[i] # None /\ open'[i].pend = open[i].pend
                                   /\ FileOK(open'[i], content[i], epoch[i], lines, Settled)
  <2>1. CASE open[i] # None /\ i \notin seen /\ open[i].lost = "no"
    <3>1. open'[i] = [open[i] EXCEPT !.lost = "noted"] /\ open[i] \in FileStates
      BY <2>1, InodeFacts DEF Discovered, TInv, SInv
    <3> DEFINE q == [open[i] EXCEPT !.lost = "noted"]
    <3>2. FileOK(open[i], content[i], epoch[i], lines, Settled)
      BY <2>1, InodeInv
    <3>3. /\ q.pend = open[i].pend /\ PassedOf(q, epoch[i]) = PassedOf(open[i], epoch[i])
          /\ FileOK(q, content[i], epoch[i], lines, Settled)
      BY <3>1, <3>2, FileSame
    <3>4. open'[i] = q
      BY <3>1
    <3> HIDE DEF q
    <3>5. QED
      BY <2>1, <3>3, <3>4
  <2>2. CASE ~(open[i] # None /\ i \notin seen /\ open[i].lost = "no")
    <3>1. open'[i] = open[i]
      BY <2>2 DEF Discovered
    <3>2. QED
      BY <3>1, InodeInv
  <2>3. QED
    BY <2>1, <2>2
<1>4. PositionInv'
  BY <1>1, <1>2, <1>3 DEF TInv, PositionInv
<1>5. SingleInv'
  BY <1>1, <1>3 DEF TInv, SingleInv
<1>6. FromBeginning' /\ NumberInv' /\ EmitInv'
  BY <1>1 DEF TInv, FromBeginning, NumberInv, EmitInv
<1>7. QED
  BY <1>4, <1>5, <1>6 DEF TInv

\* A lost file has been so for a minute.
LEMMA MinutePassesTInv ==
  ASSUME TInv, SInv', NEW i \in Inodes, MinutePasses(i)
  PROVE  TInv'
<1> USE DEF handled, poll
<1> DEFINE q == [open[i] EXCEPT !.lost = "minute"]
<1>1. Settled \subseteq Settled'
  BY SettledGrows DEF MinutePasses
<1>2. open[i] # None /\ open[i] \in FileStates /\ open' = [open EXCEPT ![i] = q]
  BY InodeFacts DEF MinutePasses, TInv, SInv
<1>3. /\ q.pend = open[i].pend /\ PassedOf(q, epoch[i]) = PassedOf(open[i], epoch[i])
      /\ FileOK(q, content[i], epoch[i], lines, Settled')
  <2>1. FileOK(open[i], content[i], epoch[i], lines, Settled')
    BY <1>1, <1>2, InodeInv, MoreSettled
  <2>2. QED
    BY <1>2, <2>1, FileSame
<1> HIDE DEF q
<1>4. open'[i] = q /\ \A k \in Inodes \ {i} : open'[k] = open[k]
  BY <1>2 DEF TInv, SInv, TypeOK
<1>5. /\ saved[i] # None => PointOK(saved[i], content[i], epoch[i], Settled', PassedOf(q, epoch[i]))
      /\ cps[i] # None => PointOK(cps[i], content[i], epoch[i], Settled', PassedOf(q, epoch[i]))
  BY <1>1, <1>3, InodeInv, MoreSettled
<1>6. ~config.multiline => q.pend.passed = {} /\ q.pend.lines = {}
  BY <1>2, <1>3 DEF TInv, SingleInv, MinutePasses
<1>7. FromBeginning' /\ NumberInv' /\ PositionInv' /\ SingleInv'
  BY <1>1, <1>3, <1>4, <1>5, <1>6, Moves DEF MinutePasses
<1>8. EmitInv'
  BY DEF EmitInv, MinutePasses
<1>9. QED
  BY <1>7, <1>8 DEF TInv

\* consume starts on a file; one that was replaced and has grown again is taken
\* for the old one.
LEMMA ConsumeTInv ==
  ASSUME TInv, SInv', NEW i \in Inodes, Consume(i)
  PROVE  TInv'
<1> USE DEF TInv
<1>1. pc = "consume" /\ pc' = "lines" /\ UNCHANGED <<system, saved, cps, spooled>>
  BY DEF Consume
<1>2. open[i] # None /\ open[i] \in FileStates /\ epoch[i] \in Nat /\ content[i] \in Seq(LogLines)
  BY InodeFacts DEF SInv, Consume, ControlInv, OpenFiles
<1>3. Settled \subseteq Settled'
  BY SettledGrows DEF Consume
<1>4. FileOK(open[i], content[i], epoch[i], lines, Settled')
  BY <1>2, <1>3, InodeInv, MoreSettled
<1>5. ~config.multiline => open[i].pend.passed = {} /\ open[i].pend.lines = {}
  BY <1>1, <1>2 DEF SingleInv
<1>6. /\ open'[i] # None /\ open'[i].pend = open[i].pend
      /\ FileOK(open'[i], content[i], epoch[i], lines, Settled')
      /\ PassedOf(open[i], epoch[i]) \subseteq PassedOf(open'[i], epoch[i])
      /\ \A k \in Inodes \ {i} : open'[k] = open[k]
  <2>1. CASE Regrown(i)
    <3> DEFINE q == [open[i] EXCEPT !.epoch = epoch[i]]
    <3>1. open' = [open EXCEPT ![i] = q]
      BY <2>1 DEF Consume
    <3>2. /\ q \in FileStates /\ q.read = open[i].read /\ q.committed = open[i].committed
          /\ q.epoch = epoch[i] /\ q.pend = open[i].pend
      BY <1>2 DEF FileStates
    <3> HIDE DEF q
    <3>3. open[i].read <= Len(content[i]) /\ open[i].read \in Nat
      BY <1>2, <2>1, InodeFacts DEF Regrown, FileStates, SInv
    <3>4. open[i].epoch # epoch[i] => Span(content[i], 0, open[i].read) \subseteq Settled'
      <4>1. open[i].epoch # epoch[i] => Lines(i, open[i].read) \subseteq excused'
        BY <2>1 DEF Consume, Unnoticed
      <4>2. Lines(i, open[i].read) = Span(content[i], 0, open[i].read)
        BY <3>3, LinesSpan DEF SInv
      <4>3. QED
        BY <4>1, <4>2 DEF Settled
    <3>5. FileOK(q, content[i], epoch[i], lines, Settled')
      BY <1>2, <1>4, <3>2, <3>3, <3>4, FileTurned
    <3>6. q # None
      BY <3>2, NoneAssumption
    <3>7. PassedOf(open[i], epoch[i]) \subseteq PassedOf(q, epoch[i])
      BY <1>2, <3>2, <3>6 DEF PassedOf
    <3>8. open'[i] = q /\ \A k \in Inodes \ {i} : open'[k] = open[k]
      BY <3>1 DEF SInv, TypeOK
    <3>9. QED
      BY <3>2, <3>5, <3>6, <3>7, <3>8
  <2>2. CASE ~Regrown(i)
    <3>1. open' = open
      BY <2>2 DEF Consume
    <3>2. QED
      BY <1>2, <1>4, <3>1
  <2>3. QED
    BY <2>1, <2>2
<1>7. /\ saved[i] # None => PointOK(saved[i], content[i], epoch[i], Settled', PassedOf(open'[i], epoch[i]))
      /\ cps[i] # None => PointOK(cps[i], content[i], epoch[i], Settled', PassedOf(open'[i], epoch[i]))
  BY <1>3, <1>6, InodeInv, PointMore
<1>8. FromBeginning' /\ NumberInv' /\ PositionInv' /\ SingleInv'
  BY <1>1, <1>3, <1>5, <1>6, <1>7, Moves
<1>9. EmitInv'
  BY <1>1, SMTT(30) DEF EmitInv
<1>10. QED
  BY <1>8, <1>9

\* The file is shorter than what was committed: it was replaced.
LEMMA ConsumeTruncatedTInv ==
  ASSUME TInv, SInv', NEW i \in Inodes, ConsumeTruncated(i)
  PROVE  TInv'
<1> USE DEF TInv
<1> DEFINE g == open[i].gen + 1
           c == [cps EXCEPT ![i] = Checkpoint(0, g, Fingerprint(i), epoch[i])]
           o == [open[i] EXCEPT !.gen = g, !.fp = Fingerprint(i), !.read = 0,
                                !.committed = 0, !.pend = NoPending, !.epoch = epoch[i]]
<1>1. /\ pc = "consume" /\ i \in OpenFiles /\ open[i] \in FileStates
      /\ \A j \in Inodes \ {i} : c[j] = cps[j]
      /\ c[i].offset = 0 /\ c[i].epoch = epoch[i]
  BY TruncatedFacts, ZenonT(60)
<1>2. /\ o \in FileStates /\ o # None /\ o.read = 0 /\ o.committed = 0
      /\ o.pend = NoPending /\ o.epoch = epoch[i]
  BY TruncatedFacts, ZenonT(60)
<1>3. /\ cps' \in {cps, c} /\ saved' \in {saved, c} /\ pc' \in {"lines", "consume"}
      /\ \E left \in {o, None} : open' = [open EXCEPT ![i] = left]
  <2>1. \/ /\ cps' = c /\ Save(c) /\ open' = [open EXCEPT ![i] = o]
           /\ cur' = i /\ limit' = Len(content[i]) /\ pc' = "lines" /\ UNCHANGED todo
        \/ /\ SaveFails(c)
           /\ \E left \in {o, None} : open' = [open EXCEPT ![i] = left]
           /\ todo' = todo \ {i} /\ UNCHANGED <<cps, cur, limit, pc>>
    BY TruncatedFacts
  <2>2. QED
    BY <1>1, <2>1, SMTT(30) DEF Save, SaveFails
<1> HIDE DEF g, c, o
<1>4. Settled \subseteq Settled' /\ UNCHANGED <<system, spooled>>
  BY SettledGrows DEF ConsumeTruncated, handled
<1>5. open'[i] \in {o, None} /\ \A j \in Inodes \ {i} : open'[j] = open[j]
  BY <1>3 DEF SInv, TypeOK
<1>6. content[i] \in Seq(LogLines) /\ Len(content[i]) \in Nat /\ epoch[i] \in Nat
  BY InodeFacts DEF SInv
<1>7. FileOK(o, content[i], epoch[i], lines, Settled')
  BY <1>2, <1>6, SpanZero, FileFresh
<1>8. open[i].epoch # epoch[i]
  <2>1. FileOK(open[i], content[i], epoch[i], lines, Settled)
    BY <1>1, InodeInv DEF OpenFiles
  <2>2. open[i].committed \in Nat /\ open[i].read \in Nat /\ open[i].committed <= open[i].read
    BY <1>1, <2>1 DEF FileStates, FileOK
  <2>3. Len(content[i]) < open[i].committed
    BY DEF ConsumeTruncated
  <2>4. ~(open[i].read <= Len(content[i]))
    BY <1>6, <2>2, <2>3
  <2>5. QED
    BY <2>1, <2>4 DEF FileOK
<1>9. PassedOf(open[i], epoch[i]) = {} /\ PassedOf(open'[i], epoch[i]) = {}
  BY <1>2, <1>5, <1>8 DEF PassedOf, NoPending
<1>10. PointOK(c[i], content[i], epoch[i], Settled', {})
  BY <1>1, <1>6, SpanZero DEF PointOK
<1>11. /\ saved[i] # None => PointOK(saved[i], content[i], epoch[i], Settled', {})
       /\ cps[i] # None => PointOK(cps[i], content[i], epoch[i], Settled', {})
  BY <1>4, <1>9, InodeInv, MoreSettled
<1>12. /\ saved'[i] # None => PointOK(saved'[i], content[i], epoch[i], Settled', {})
       /\ cps'[i] # None => PointOK(cps'[i], content[i], epoch[i], Settled', {})
       /\ \A j \in Inodes \ {i} : saved'[j] \in {saved[j], cps[j]} /\ cps'[j] = cps[j]
  BY <1>1, <1>3, <1>10, <1>11
<1>13. open'[i] # None => /\ FileOK(open'[i], content[i], epoch[i], lines, Settled')
                          /\ open'[i].pend.passed = {} /\ open'[i].pend.lines = {}
  BY <1>2, <1>5, <1>7 DEF NoPending
<1>14. FromBeginning' /\ NumberInv' /\ PositionInv' /\ SingleInv'
  BY <1>1, <1>4, <1>5, <1>9, <1>12, <1>13, Moves
<1>15. EmitInv'
  BY <1>3 DEF EmitInv
<1>16. QED
  BY <1>14, <1>15

\* What a refused line leaves.
LEMMA RejectLineFacts ==
  ASSUME SInv, RejectLine
  PROVE  LET c == Committed(File, File.read + 1)
         IN  \E o \in FileStates :
               /\ o.read = File.read + 1 /\ o.epoch = File.epoch
               /\ o.pend.from = File.pend.from /\ o.pend.to = File.pend.to
               /\ o.pend.lines = File.pend.lines
               /\ \/ /\ cps' = c /\ saved' = c /\ open' = [open EXCEPT ![cur] = o] /\ Goto("lines")
                     /\ o.committed = File.read + 1 /\ o.pend.passed = File.pend.lines
                  \/ /\ cps' = cps /\ Leave(o) /\ o.committed = File.committed
                     /\ faults' = faults + 1
                     /\ \/ saved' = c /\ o.pend.passed = File.pend.lines
                        \/ saved' = saved /\ o.pend.passed = File.pend.passed
<1> DEFINE c == Committed(File, File.read + 1)
<1>1. Working /\ File \in FileStates /\ File.read + 1 \in Nat /\ File.pend \in PendingRecords
  BY LineFacts, FileFacts DEF RejectLine
<1>2. File.pend.lines \in SUBSET (1..MaxLines) /\ File.pend.passed \in SUBSET (1..MaxLines)
  BY <1>1, FileFacts
<1> HIDE DEF c
<1>3. CASE /\ cps' = c /\ Save(c) /\ Goto("lines")
           /\ Update([File EXCEPT !.read = @ + 1, !.committed = File.read + 1,
                                  !.pend.passed = File.pend.lines])
  <2> DEFINE k == File.read + 1
             P == File.pend.lines
             o == [File EXCEPT !.read = @ + 1, !.committed = k, !.pend.passed = P]
             p == [File.pend EXCEPT !.passed = P]
  <2>1. k \in Nat /\ P \in SUBSET (1..MaxLines) /\ File \in FileStates
    BY <1>1, <1>2
  <2>2. open' = [open EXCEPT ![cur] = o]
    BY <1>3 DEF Update
  <2> HIDE DEF k, P
  <2>3. o = [File EXCEPT !.read = @ + 1, !.committed = k, !.pend.passed = P]
    OBVIOUS
  <2> HIDE DEF o
  <2>4. /\ o \in FileStates /\ o.read = File.read + 1 /\ o.committed = k /\ o.epoch = File.epoch
        /\ o.pend = p
    BY <2>1, <2>3, RejectedFields DEF FileStates
  <2>5. p.from = File.pend.from /\ p.to = File.pend.to /\ p.lines = File.pend.lines /\ p.passed = P
    BY <1>1 DEF PendingRecords
  <2> HIDE DEF p
  <2>6. QED
    BY <1>3, <2>2, <2>4, <2>5 DEF Save, k, P, c
<1>4. CASE /\ SaveFails(c) /\ UNCHANGED cps
           /\ Leave([File EXCEPT !.read = @ + 1,
                        !.pend.passed = IF saved' = c THEN File.pend.lines ELSE @])
  <2> DEFINE P == IF saved' = c THEN File.pend.lines ELSE File.pend.passed
             o == [File EXCEPT !.read = @ + 1, !.pend.passed = P]
             p == [File.pend EXCEPT !.passed = P]
  <2>1. Leave(o)
    BY <1>4
  <2>2. P \in SUBSET (1..MaxLines)
    BY <1>2
  <2> HIDE DEF P
  <2>3. o = [File EXCEPT !.read = @ + 1, !.pend.passed = P] /\ File \in FileStates
    BY <1>1
  <2> HIDE DEF o
  <2>4. /\ o \in FileStates /\ o.read = File.read + 1 /\ o.committed = File.committed
        /\ o.epoch = File.epoch /\ o.pend = p
    BY <2>2, <2>3, SkippedFields DEF FileStates
  <2>5. p.from = File.pend.from /\ p.to = File.pend.to /\ p.lines = File.pend.lines /\ p.passed = P
    BY <1>1 DEF PendingRecords
  <2> HIDE DEF p
  <2>6. saved' \in {saved, c} /\ faults' = faults + 1
    BY <1>4 DEF SaveFails
  <2>7. QED
    BY <1>4, <2>1, <2>4, <2>5, <2>6 DEF P, c
<1>5. QED
  BY <1>3, <1>4 DEF RejectLine, c

\* A line is refused; the commit of that overtakes the pending lines.
LEMMA RejectLineTInv ==
  ASSUME TInv, SInv', RejectLine
  PROVE  TInv'
<1> USE DEF TInv
<1> DEFINE c == Committed(File, File.read + 1)
<1>1. /\ Working /\ pc = "lines" /\ cur \in Inodes /\ File = open[cur] /\ File # None
      /\ File \in FileStates /\ content[cur] \in Seq(LogLines) /\ epoch[cur] \in Nat
      /\ File.read \in Nat /\ File.read < Len(content[cur]) /\ File.read + 1 \in Nat
      /\ Line = content[cur][File.read + 1]
  BY LineFacts, FileFacts DEF RejectLine
<1>2. /\ \A i \in Inodes \ {cur} : c[i] = cps[i]
      /\ c[cur].offset = File.read + 1 /\ c[cur].epoch = File.epoch
  BY <1>1, CommittedFacts
<1>3. PICK o \in FileStates :
         /\ o.read = File.read + 1 /\ o.epoch = File.epoch
         /\ o.pend.from = File.pend.from /\ o.pend.to = File.pend.to
         /\ o.pend.lines = File.pend.lines
         /\ \/ /\ cps' = c /\ saved' = c /\ open' = [open EXCEPT ![cur] = o] /\ Goto("lines")
               /\ o.committed = File.read + 1 /\ o.pend.passed = File.pend.lines
            \/ /\ cps' = cps /\ Leave(o) /\ o.committed = File.committed
               /\ \/ saved' = c /\ o.pend.passed = File.pend.lines
                  \/ saved' = saved /\ o.pend.passed = File.pend.passed
  BY RejectLineFacts
<1> HIDE DEF c
<1>4. Settled \subseteq Settled' /\ Line.n \in Settled' /\ UNCHANGED <<system, spooled>>
  <2>1. Settled \subseteq Settled' /\ UNCHANGED <<system, spooled>>
    BY SettledGrows DEF RejectLine
  <2>2. Line.n \in rejected'
    BY DEF RejectLine
  <2>3. QED
    BY <2>1, <2>2 DEF Settled, Handled
<1>5. FileOK(File, content[cur], epoch[cur], lines, Settled') /\ File.pend.passed \subseteq File.pend.lines
  <2>1. FileOK(File, content[cur], epoch[cur], lines, Settled)
    BY <1>1, InodeInv
  <2>2. QED
    BY <1>4, <2>1, MoreSettled DEF FileOK
<1>6. o # None /\ ~config.multiline => o.pend.passed = {} /\ o.pend.lines = {}
  BY <1>1, <1>3 DEF SingleInv
<1>7. o # None
  BY NoneAssumption
<1>8. /\ FileOK(o, content[cur], epoch[cur], lines, Settled')
      /\ o.epoch = epoch[cur] =>
            o.read <= Len(content[cur]) /\ Span(content[cur], 0, o.read) \subseteq Settled' \cup o.pend.lines
  BY <1>1, <1>3, <1>4, <1>5, FileRejected
<1>9. File.epoch <= epoch[cur]
  BY <1>5 DEF FileOK
<1>10. PassedOf(File, epoch[cur]) \subseteq PassedOf(o, epoch[cur])
  BY <1>1, <1>3, <1>5, <1>7 DEF PassedOf
<1>11. o.pend.passed = File.pend.lines =>
          PointOK(c[cur], content[cur], epoch[cur], Settled', PassedOf(o, epoch[cur]))
  BY <1>2, <1>3, <1>7, <1>8, <1>9 DEF PointOK, PassedOf
<1>12. /\ saved[cur] # None =>
            PointOK(saved[cur], content[cur], epoch[cur], Settled', PassedOf(o, epoch[cur]))
       /\ cps[cur] # None =>
            PointOK(cps[cur], content[cur], epoch[cur], Settled', PassedOf(o, epoch[cur]))
  BY <1>1, <1>4, <1>10, InodeInv, PointMore
<1>13. /\ saved'[cur] # None =>
            PointOK(saved'[cur], content[cur], epoch[cur], Settled', PassedOf(o, epoch[cur]))
       /\ cps'[cur] # None =>
            PointOK(cps'[cur], content[cur], epoch[cur], Settled', PassedOf(o, epoch[cur]))
       /\ \A k \in Inodes \ {cur} : saved'[k] \in {saved[k], cps[k]} /\ cps'[k] = cps[k]
  BY <1>2, <1>3, <1>11, <1>12
<1>14. CASE Leave(o)
  BY <1>1, <1>4, <1>6, <1>7, <1>8, <1>13, <1>14, LeaveMoves
<1>15. CASE open' = [open EXCEPT ![cur] = o] /\ Goto("lines")
  <2>1. open'[cur] = o /\ \A k \in Inodes \ {cur} : open'[k] = open[k]
    BY <1>1, <1>15 DEF SInv, TypeOK
  <2>2. FromBeginning' /\ NumberInv' /\ PositionInv' /\ SingleInv'
    BY <1>1, <1>4, <1>6, <1>7, <1>8, <1>13, <2>1, Moves
  <2>3. EmitInv'
    BY <1>15 DEF EmitInv, Goto
  <2>4. QED
    BY <2>2, <2>3
<1>16. QED
  BY <1>3, <1>14, <1>15

\* A line joins the pending record.
LEMMA TakenTInv ==
  ASSUME TInv, SInv', HasLine, Update([File EXCEPT !.pend = Extended, !.read = @ + 1]),
         UNCHANGED <<system, saved, handled, cps, stops, faults>>,
         Goto("admit") \/ (Goto("lines") /\ config.multiline)
  PROVE  TInv'
<1> USE DEF TInv
<1> DEFINE o == [File EXCEPT !.pend = Extended, !.read = @ + 1]
<1>1. /\ Working /\ pc = "lines" /\ cur \in Inodes /\ File = open[cur] /\ File # None
      /\ File \in FileStates /\ content[cur] \in Seq(LogLines) /\ epoch[cur] \in Nat
      /\ File.read < Len(content[cur]) /\ Line = content[cur][File.read + 1]
  BY LineFacts, FileFacts
<1>2. /\ Extended \in PendingRecords
      /\ Extended.from = IF File.pend.lines = {} THEN File.read ELSE File.pend.from
      /\ Extended.to = File.read + 1 /\ Extended.lines = File.pend.lines \cup {Line.n}
      /\ Extended.passed = File.pend.passed
  BY ExtendedFacts
<1>3. /\ o \in FileStates /\ o.read = File.read + 1 /\ o.committed = File.committed
      /\ o.epoch = File.epoch /\ o.pend = Extended
  BY <1>1, <1>2, PendingFields, ZenonT(60) DEF FileStates
<1>4. open' = [open EXCEPT ![cur] = o]
  BY DEF Update
<1> HIDE DEF o
<1>5. o # None
  BY <1>3, NoneAssumption
<1>6. open'[cur] = o /\ \A k \in Inodes \ {cur} : open'[k] = open[k]
  BY <1>1, <1>4 DEF SInv, TypeOK
<1>7. Settled \subseteq Settled' /\ UNCHANGED <<system, saved, cps, spooled>>
  BY SettledGrows DEF handled
<1>8. FileOK(o, content[cur], epoch[cur], lines, Settled')
  <2>1. FileOK(File, content[cur], epoch[cur], lines, Settled') /\ ContentOK(content[cur], lines)
    BY <1>1, <1>7, InodeInv, MoreSettled
  <2>2. lines \in Nat
    BY DEF SInv, TypeOK
  <2>3. QED
    BY <1>1, <1>2, <1>3, <2>1, <2>2, FileTaken
<1>9. PassedOf(o, epoch[cur]) = PassedOf(File, epoch[cur])
  BY <1>1, <1>2, <1>3, <1>5 DEF PassedOf
<1>10. /\ saved[cur] # None =>
            PointOK(saved[cur], content[cur], epoch[cur], Settled', PassedOf(o, epoch[cur]))
       /\ cps[cur] # None =>
            PointOK(cps[cur], content[cur], epoch[cur], Settled', PassedOf(o, epoch[cur]))
  BY <1>1, <1>7, <1>9, InodeInv, MoreSettled
<1>11. ~config.multiline => o.pend.passed = {} /\ cur' = cur /\ pc' = "admit"
  BY <1>1, <1>2, <1>3 DEF SingleInv, Goto
<1>12. FromBeginning' /\ NumberInv' /\ PositionInv' /\ SingleInv'
  BY <1>1, <1>6, <1>7, <1>8, <1>10, <1>11, Moves
<1>13. EmitInv'
  BY DEF EmitInv, Goto
<1>14. QED
  BY <1>12, <1>13

\* A line that ends the record is taken and the record emitted.
LEMMA EmitLineTInv ==
  ASSUME TInv, SInv', EmitLine
  PROVE  TInv'
BY TakenTInv DEF EmitLine

\* A line is taken into a record that stays open.
LEMMA TakeLineTInv ==
  ASSUME TInv, SInv', TakeLine
  PROVE  TInv'
BY TakenTInv DEF TakeLine

\* What TInv says of the file that consume works on.
LEMMA FileInv ==
  ASSUME TInv, Working, Settled \subseteq Settled'
  PROVE  /\ FileOK(File, content[cur], epoch[cur], lines, Settled')
         /\ saved[cur] # None =>
              PointOK(saved[cur], content[cur], epoch[cur], Settled', PassedOf(File, epoch[cur]))
         /\ cps[cur] # None =>
              PointOK(cps[cur], content[cur], epoch[cur], Settled', PassedOf(File, epoch[cur]))
<1>1. cur \in Inodes /\ File = open[cur] /\ File # None
  BY FileFacts DEF TInv
<1>2. QED
  BY <1>1, InodeInv, MoreSettled

\* consume is at the end of the file.
LEMMA FileDoneTInv ==
  ASSUME TInv, SInv', FileDone
  PROVE  TInv'
<1> USE DEF TInv
<1>1. /\ Working /\ pc = "lines" /\ Leave(File) /\ UNCHANGED <<system, saved, cps, spooled>>
      /\ Settled \subseteq Settled'
  BY SettledGrows DEF FileDone, Working, handled
<1>2. cur \in Inodes /\ File = open[cur] /\ File # None /\ File \in FileStates
  BY <1>1, FileFacts
<1>3. ~config.multiline => File.pend.lines = {} /\ File.pend.passed = {}
  BY <1>1, <1>2 DEF SingleInv
<1>4. QED
  BY <1>1, <1>2, <1>3, FileInv, LeaveMoves

\* An emission fails: the record stays pending, or is read again.
LEMMA EmitFailedTInv ==
  ASSUME TInv, SInv', Working, EmitFailed(File), UNCHANGED <<system, handled, cps>>,
         \A k \in Inodes \ {cur} : saved'[k] \in {saved[k], cps[k]},
         saved'[cur] # None =>
            PointOK(saved'[cur], content[cur], epoch[cur], Settled, PassedOf(File, epoch[cur]))
  PROVE  TInv'
<1> USE DEF TInv
<1>1. Settled \subseteq Settled' /\ spooled' = spooled
  BY SettledGrows DEF handled
<1>2. /\ cur \in Inodes /\ File = open[cur] /\ File # None /\ File \in FileStates
      /\ content[cur] \in Seq(LogLines) /\ File.committed \in Nat /\ File.read \in Nat
      /\ Len(content[cur]) \in Nat
  BY FileFacts
<1>3. PICK o \in FileStates :
         /\ Leave(o) /\ o.epoch = File.epoch
         /\ IF config.multiline THEN o = File
            ELSE o.read = File.committed /\ o.committed = File.committed /\ o.pend = NoPending
  BY EmitFailedFacts
<1>4. FileOK(File, content[cur], epoch[cur], lines, Settled')
  BY <1>1, FileInv
<1>5. /\ FileOK(o, content[cur], epoch[cur], lines, Settled')
      /\ PassedOf(o, epoch[cur]) = PassedOf(File, epoch[cur])
      /\ ~config.multiline => o.pend.lines = {} /\ o.pend.passed = {}
  <2>1. CASE config.multiline
    BY <1>3, <1>4, <2>1
  <2>2. CASE ~config.multiline
    <3>1. o.read = File.committed /\ o.committed = File.committed /\ o.pend = NoPending
      BY <1>3, <2>2
    <3>2. File.pend.passed = {}
      BY <1>2, <2>2 DEF SingleInv
    <3>3. /\ File.epoch <= epoch[cur] /\ File.committed <= File.read
          /\ File.epoch = epoch[cur] => /\ File.read <= Len(content[cur])
                                        /\ Span(content[cur], 0, File.committed) \subseteq Settled'
      BY <1>4, <3>2 DEF FileOK
    <3>4. File.epoch = epoch[cur] => File.committed <= Len(content[cur])
      BY <1>2, <3>3
    <3>5. FileOK(o, content[cur], epoch[cur], lines, Settled')
      BY <1>3, <3>1, <3>3, <3>4, FileFresh
    <3>6. o # None
      BY NoneAssumption
    <3>7. PassedOf(o, epoch[cur]) = PassedOf(File, epoch[cur])
      BY <1>2, <3>1, <3>2, <3>6 DEF PassedOf, NoPending
    <3>8. QED
      BY <3>1, <3>5, <3>7 DEF NoPending
  <2>3. QED
    BY <2>1, <2>2
<1>6. /\ saved'[cur] # None =>
            PointOK(saved'[cur], content[cur], epoch[cur], Settled', PassedOf(o, epoch[cur]))
      /\ cps'[cur] # None =>
            PointOK(cps'[cur], content[cur], epoch[cur], Settled', PassedOf(o, epoch[cur]))
  BY <1>1, <1>5, FileInv, MoreSettled
<1>7. QED
  BY <1>1, <1>3, <1>5, <1>6, LeaveMoves

\* The spool refuses the record.
LEMMA AdmitFailsTInv ==
  ASSUME TInv, SInv', AdmitFails
  PROVE  TInv'
<1>1. Working /\ EmitFailed(File) /\ UNCHANGED <<system, saved, handled, cps>>
  BY DEF AdmitFails, Working
<1>2. cur \in Inodes /\ File = open[cur]
  BY <1>1, FileFacts DEF TInv
<1>3. QED
  BY <1>1, <1>2, InodeInv, EmitFailedTInv

\* The checkpoint or the activation of the record fails.
LEMMA ActivateFailsTInv ==
  ASSUME TInv, SInv', ActivateFails
  PROVE  TInv'
<1>1. Working /\ EmitFailed(File) /\ UNCHANGED <<system, saved, handled, cps>>
  BY DEF ActivateFails, Working
<1>2. cur \in Inodes /\ File = open[cur]
  BY <1>1, FileFacts DEF TInv
<1>3. QED
  BY <1>1, <1>2, InodeInv, EmitFailedTInv

\* The record is stored; or the spool has its identity, whose positions are
\* settled if it was given in the same content, and else its lines are excused.
LEMMA AdmitTInv ==
  ASSUME TInv, SInv', Admit
  PROVE  TInv'
<1> USE DEF TInv
<1> DEFINE new == [id |-> AdmissionID, lines |-> File.pend.lines, epoch |-> File.epoch]
<1>1. /\ Working /\ pc = "admit" /\ pc' = "commit" /\ cur' = cur /\ UNCHANGED <<system, saved, cps, open>>
  BY DEF Admit, Goto, Working
<1>2. /\ cur \in Inodes /\ File = open[cur] /\ File # None /\ File \in FileStates
      /\ content[cur] \in Seq(LogLines) /\ File.pend.from \in Nat /\ File.pend.to \in Nat
      /\ File.read \in Nat /\ Len(content[cur]) \in Nat
  BY <1>1, FileFacts
<1>3. spooled \subseteq spooled' /\ spooled' \subseteq spooled \cup {new}
  BY DEF Admit
<1>4. Settled \subseteq Settled'
  BY <1>3, SettledGrows DEF Admit
<1>5. FileOK(File, content[cur], epoch[cur], lines, Settled')
  BY <1>1, <1>4, FileInv
<1>6. new \in spooled' => File.pend.lines \subseteq Settled'
  <2>1. new.lines = File.pend.lines
    OBVIOUS
  <2> HIDE DEF new
  <2>2. QED
    BY <2>1 DEF Settled, Handled
<1>7. \A r \in spooled' \ spooled : RecordOK(r, content[r.id[1]], epoch[r.id[1]], Settled')
  <2>1. SUFFICES ASSUME new \in spooled'
                 PROVE  RecordOK(new, content[new.id[1]], epoch[new.id[1]], Settled')
    BY <1>3
  <2>2. new.id[1] = cur /\ new.id[3] = File.pend.from /\ new.id[4] = File.pend.to /\ new.epoch = File.epoch
    BY DEF AdmissionID
  <2>3. File.pend.to <= File.read /\ File.epoch <= epoch[cur]
    BY <1>5 DEF FileOK
  <2>4. Span(content[cur], File.pend.from, File.pend.to) \subseteq Span(content[cur], 0, File.read)
    BY <1>2, <2>3, SpanWithin
  <2>5. File.epoch = epoch[cur] =>
           /\ File.read <= Len(content[cur])
           /\ Span(content[cur], 0, File.read) \subseteq Settled' \cup File.pend.lines
    BY <1>5 DEF FileOK
  <2>6. File.epoch = epoch[cur] => File.pend.to <= Len(content[cur])
    BY <1>2, <2>3, <2>5
  <2> HIDE DEF new
  <2>7. QED
    BY <1>6, <2>1, <2>2, <2>3, <2>4, <2>5, <2>6 DEF RecordOK
<1>8. EmitInv'
  <2>1. ASSUME File.epoch = epoch[cur]
        PROVE  Span(content[cur], 0, Len(content[cur])) \cap File.pend.lines \subseteq Settled'
    <3>1. CASE Held = {}
      BY <1>6, <3>1 DEF Admit
    <3>2. CASE \E r \in Held : r.epoch # File.epoch
      <4>1. File.pend.lines \subseteq excused'
        BY <3>2 DEF Admit
      <4>2. QED
        BY <4>1 DEF Settled
    <3>3. CASE Held # {} /\ \A r \in Held : r.epoch = File.epoch
      <4>1. PICK r \in spooled : r.id = AdmissionID /\ r.epoch = File.epoch
        BY <3>3 DEF Held
      <4>2. r.id[1] = cur /\ r.id[3] = File.pend.from /\ r.id[4] = File.pend.to
        BY <4>1 DEF AdmissionID
      <4>3. RecordOK(r, content[cur], epoch[cur], Settled)
        BY <4>2 DEF PositionInv
      <4>4. Span(content[cur], File.pend.from, File.pend.to) \subseteq Settled
        BY <2>1, <4>1, <4>2, <4>3 DEF RecordOK
      <4>5. Span(content[cur], 0, Len(content[cur])) \cap File.pend.lines
               \subseteq Span(content[cur], File.pend.from, File.pend.to)
        BY <1>5 DEF FileOK
      <4>6. QED
        BY <1>4, <4>4, <4>5
    <3>4. QED
      BY <3>1, <3>2, <3>3
  <2>2. File' = File /\ content' = content /\ epoch' = epoch
    BY <1>1 DEF File, system
  <2>3. QED
    BY <1>1, <2>1, <2>2 DEF EmitInv
<1>9. FromBeginning' /\ NumberInv' /\ PositionInv' /\ SingleInv'
  <2>1. ~config.multiline => File.pend.passed = {}
    BY <1>2 DEF SingleInv
  <2>2. /\ open'[cur] = File /\ saved' = saved /\ cps' = cps /\ pc' \in {"admit", "commit", "activate"}
        /\ \A k \in Inodes \ {cur} : open'[k] = open[k]
    BY <1>1, <1>2
  <2>3. QED
    BY <1>1, <1>2, <1>4, <1>7, <2>1, <2>2, FileInv, Moves
<1>10. QED
  BY <1>8, <1>9

\* The checkpoint passes a record whose lines are settled.
LEMMA CommitTInv ==
  ASSUME TInv, SInv', Commit
  PROVE  TInv'
<1> USE DEF TInv
<1> DEFINE c == Committed(File, File.pend.to)
           o == [File EXCEPT !.committed = File.pend.to]
<1>1. Working /\ pc = "commit" /\ UNCHANGED <<system, handled>>
  BY DEF Commit, Working
<1>2. /\ cur \in Inodes /\ File = open[cur] /\ File # None /\ File \in FileStates
      /\ content[cur] \in Seq(LogLines) /\ File.pend.to \in Nat /\ File.epoch \in Nat
      /\ epoch[cur] \in Nat
  BY <1>1, FileFacts
<1>3. /\ \A i \in Inodes \ {cur} : c[i] = cps[i]
      /\ c[cur].offset = File.pend.to /\ c[cur].epoch = File.epoch
  BY <1>1, <1>2, CommittedFacts
<1>4. /\ o \in FileStates /\ o.read = File.read /\ o.committed = File.pend.to
      /\ o.epoch = File.epoch /\ o.pend = File.pend
  BY <1>2 DEF FileStates
<1>5. \/ cps' = c /\ Save(c) /\ Goto("activate") /\ open' = [open EXCEPT ![cur] = o]
      \/ SaveFails(c) /\ UNCHANGED cps /\ EmitFailed(File)
  BY DEF Commit, Update
<1> HIDE DEF c, o
<1>6. Settled' = Settled
  BY <1>1 DEF Settled, Handled, handled
<1>7. FileOK(File, content[cur], epoch[cur], lines, Settled)
  BY <1>1, <1>6, FileInv
<1>8. File.epoch = epoch[cur] => Span(content[cur], 0, Len(content[cur])) \cap File.pend.lines \subseteq Settled
  BY <1>1 DEF EmitInv
<1>9. /\ FileOK(o, content[cur], epoch[cur], lines, Settled)
      /\ File.epoch = epoch[cur] => /\ File.pend.to <= Len(content[cur])
                                    /\ Span(content[cur], 0, File.pend.to) \subseteq Settled
  BY <1>2, <1>4, <1>7, <1>8, FileEmitted
<1>10. \A P : PointOK(c[cur], content[cur], epoch[cur], Settled, P)
  <2>1. File.epoch <= epoch[cur]
    BY <1>7 DEF FileOK
  <2>2. QED
    BY <1>3, <1>9, <2>1 DEF PointOK
<1>11. CASE SaveFails(c) /\ UNCHANGED cps /\ EmitFailed(File)
  <2>1. saved' \in {saved, c}
    BY <1>11 DEF SaveFails
  <2>2. saved[cur] # None =>
           PointOK(saved[cur], content[cur], epoch[cur], Settled, PassedOf(File, epoch[cur]))
    BY <1>2, InodeInv
  <2>3. QED
    BY <1>1, <1>3, <1>10, <1>11, <2>1, <2>2, EmitFailedTInv
<1>12. CASE cps' = c /\ Save(c) /\ Goto("activate") /\ open' = [open EXCEPT ![cur] = o]
  <2>1. saved' = c /\ pc' = "activate" /\ cur' = cur
    BY <1>12 DEF Save, Goto
  <2>2. open'[cur] = o /\ \A k \in Inodes \ {cur} : open'[k] = open[k]
    BY <1>2, <1>12 DEF SInv, TypeOK
  <2>3. ~config.multiline => o.pend.passed = {}
    BY <1>2, <1>4 DEF SingleInv
  <2>4. FromBeginning' /\ NumberInv' /\ PositionInv' /\ SingleInv'
    <3>1. \A k \in Inodes \ {cur} : saved'[k] \in {saved[k], cps[k]} /\ cps'[k] = cps[k]
      BY <1>3, <1>12, <2>1
    <3>2. spooled' = spooled /\ Settled \subseteq Settled'
      BY <1>1, <1>6 DEF handled
    <3>3. /\ FileOK(open'[cur], content[cur], epoch[cur], lines, Settled')
          /\ PointOK(saved'[cur], content[cur], epoch[cur], Settled', PassedOf(open'[cur], epoch[cur]))
          /\ PointOK(cps'[cur], content[cur], epoch[cur], Settled', PassedOf(open'[cur], epoch[cur]))
      BY <1>6, <1>9, <1>10, <1>12, <2>1, <2>2
    <3>4. QED
      BY <1>1, <1>2, <2>1, <2>2, <2>3, <3>1, <3>2, <3>3, Moves
  <2>5. EmitInv'
    <3>1. File' = o /\ content' = content /\ epoch' = epoch
      BY <1>1, <2>1, <2>2 DEF File, system
    <3>2. QED
      BY <1>4, <1>6, <1>8, <2>1, <3>1 DEF EmitInv
  <2>6. QED
    BY <2>4, <2>5
<1>13. QED
  BY <1>5, <1>11, <1>12

\* The record is handed over.
LEMMA ActivateTInv ==
  ASSUME TInv, SInv', Activate
  PROVE  TInv'
<1> USE DEF TInv
<1> DEFINE o == [File EXCEPT !.pend = NoPending]
<1>1. Working /\ pc = "activate" /\ UNCHANGED <<system, handled, saved, cps>> /\ pc' = "lines"
  BY DEF Activate, Working, Goto
<1>2. /\ cur \in Inodes /\ File = open[cur] /\ File # None /\ File \in FileStates
      /\ content[cur] \in Seq(LogLines) /\ epoch[cur] \in Nat
  BY <1>1, FileFacts
<1>3. /\ o \in FileStates /\ o.read = File.read /\ o.committed = File.committed
      /\ o.epoch = File.epoch /\ o.pend = NoPending
  <2>1. NoPending \in PendingRecords
    BY DEF NoPending, PendingRecords
  <2>2. QED
    BY <1>2, <2>1 DEF FileStates
<1>4. open' = [open EXCEPT ![cur] = o]
  BY DEF Activate, Update
<1> HIDE DEF o
<1>5. Settled' = Settled /\ spooled' = spooled
  BY <1>1 DEF Settled, Handled, handled
<1>6. File.epoch = epoch[cur] => Span(content[cur], 0, Len(content[cur])) \cap File.pend.lines \subseteq Settled
  BY <1>1 DEF EmitInv
<1>7. FileOK(File, content[cur], epoch[cur], lines, Settled)
  BY <1>1, <1>5, FileInv
<1>8. FileOK(o, content[cur], epoch[cur], lines, Settled)
  BY <1>2, <1>3, <1>6, <1>7, FileActivated
<1>9. ASSUME NEW p \in Checkpoints,
             PointOK(p, content[cur], epoch[cur], Settled, PassedOf(File, epoch[cur]))
      PROVE  PointOK(p, content[cur], epoch[cur], Settled, PassedOf(o, epoch[cur]))
  <2>1. CASE File.epoch = epoch[cur]
    <3>1. p.offset \in Nat
      BY DEF Checkpoints
    <3>2. Span(content[cur], 0, p.offset) \subseteq Span(content[cur], 0, Len(content[cur]))
      BY <1>2, <3>1, SpanAll
    <3>3. PassedOf(File, epoch[cur]) \subseteq File.pend.lines
      BY <1>7 DEF PassedOf, FileOK
    <3>4. QED
      BY <1>6, <1>9, <2>1, <3>2, <3>3 DEF PointOK
  <2>2. CASE File.epoch # epoch[cur]
    <3>1. PassedOf(File, epoch[cur]) = {}
      BY <2>2 DEF PassedOf
    <3>2. QED
      BY <1>9, <3>1, PointMore
  <2>3. QED
    BY <2>1, <2>2
<1>10. /\ saved[cur] # None =>
            PointOK(saved[cur], content[cur], epoch[cur], Settled, PassedOf(o, epoch[cur]))
       /\ cps[cur] # None =>
            PointOK(cps[cur], content[cur], epoch[cur], Settled, PassedOf(o, epoch[cur]))
  <2>1. /\ saved[cur] # None => saved[cur] \in Checkpoints
        /\ cps[cur] # None => cps[cur] \in Checkpoints
    BY <1>2, InodeFacts DEF SInv
  <2>2. QED
    BY <1>2, <1>9, <2>1, InodeInv
<1>11. open'[cur] = o /\ \A k \in Inodes \ {cur} : open'[k] = open[k]
  BY <1>2, <1>4 DEF SInv, TypeOK
<1>12. o.pend.passed = {} /\ o.pend.lines = {}
  BY <1>3 DEF NoPending
<1>13. FromBeginning' /\ NumberInv' /\ PositionInv' /\ SingleInv'
  BY <1>1, <1>2, <1>5, <1>8, <1>10, <1>11, <1>12, Moves
<1>14. EmitInv'
  BY <1>1 DEF EmitInv
<1>15. QED
  BY <1>13, <1>14

\* Steps that change nothing.
LEMMA StutterTInv ==
  ASSUME TInv, SInv', UNCHANGED vars
  PROVE  TInv'
BY DEF vars, system, handled, poll, TInv, FromBeginning, NumberInv, PositionInv, SingleInv,
   EmitInv,
       Settled, Handled, File

\* Every step preserves TInv.
LEMMA NextTInv ==
  ASSUME TInv, [Next]_vars
  PROVE  TInv'
<1>1. SInv'
  BY NextSInv DEF TInv
<1>2. CASE TailerStep
  BY <1>1, <1>2, StartTInv, PollBeginTInv, DiscoveredTInv, PolledTInv, DiscoverKnownTInv,
     DiscoverTInv,
     ConsumeTInv, ConsumeTruncatedTInv, RejectLineTInv, EmitLineTInv, EmitPendingTInv, TakeLineTInv,
     FlushTimeoutTInv, FileDoneTInv, AdmitTInv, CommitTInv, ActivateTInv DEF TailerStep
<1>3. CASE Environment
  BY <1>1, <1>3, Append1TInv, RotateTInv, DeleteTInv, MinutePassesTInv, TruncateTInv, StopTInv, AdmitFailsTInv,
     ActivateFailsTInv DEF Environment
<1>4. QED
  BY <1>1, <1>2, <1>3, StutterTInv DEF Next

\* TInv holds in every reachable state of a source that starts at the beginning.
THEOREM Invariance == Spec /\ FromBeginning => []TInv
BY InitTInv, NextTInv, PTL DEF Spec

-----------------------------------------------------------------------------
(* The properties of the runs.                                              *)

\* Every variable keeps its type.
THEOREM TypeCorrect == Spec => []TypeOK
BY Structure, PTL DEF SInv

\* No crash, rotation, truncation, reuse of an inode or failing write makes the
\* checkpoint file pass a line that is not accounted for.
THEOREM NothingSkipped == Spec /\ FromBeginning => []NoSkippedLine
<1>1. TInv => NoSkippedLine
  <2> SUFFICES ASSUME TInv, NEW i \in Inodes, saved[i] # None, saved[i].epoch = epoch[i]
               PROVE  Lines(i, saved[i].offset) \subseteq Handled \cup excused \cup Overtaken(i)
    BY DEF NoSkippedLine
  <2>1. saved[i].offset \in Nat
    BY InodeFacts DEF TInv, SInv, Checkpoints
  <2>2. Lines(i, saved[i].offset) = Span(content[i], 0, saved[i].offset)
    BY <2>1, LinesSpan DEF TInv, SInv
  <2>3. PassedOf(open[i], epoch[i]) \subseteq Overtaken(i)
    BY DEF PassedOf, Overtaken
  <2>4. PointOK(saved[i], content[i], epoch[i], Settled, PassedOf(open[i], epoch[i]))
    BY InodeInv
  <2>5. QED
    BY <2>2, <2>3, <2>4 DEF PointOK, Settled
<1>2. QED
  BY <1>1, Invariance, PTL

\* A file that is updated stays open.
LEMMA UpdatedIsOpen ==
  ASSUME SInv, Working, NEW o \in FileStates, open' = [open EXCEPT ![cur] = o],
         NEW i \in Inodes, open[i] # None
  PROVE  open'[i] # None
BY FileFacts, NoneAssumption DEF SInv, TypeOK

\* consume lets go of a lost file, with no failure, only where it took its end to be.
LEMMA ClosedAtEnd ==
  ASSUME TInv, [Next]_vars, NEW i \in Inodes, open[i] # None, open'[i] = None, pc' # "down",
         faults' = faults, open[i].epoch = epoch[i]
  PROVE  Lines(i, limit) \subseteq Handled' \cup excused
<1> USE DEF TInv
<1>1. /\ open[i] \in FileStates /\ content[i] \in Seq(LogLines) /\ Len(content[i]) \in Nat
      /\ faults \in Nat /\ limit \in Nat
  BY InodeFacts DEF SInv, TypeOK
<1>2. faults' # faults + 1
  BY <1>1
<1>3. FileDone /\ cur = i
  <2>1. CASE FileDone
    <3>1. Working /\ Leave(File)
      BY <2>1 DEF FileDone, Working
    <3>2. \A k \in Inodes \ {cur} : open'[k] = open[k]
      BY <3>1, FileFacts, LeaveFacts
    <3>3. QED
      BY <2>1, <3>2
  <2>2. CASE Discovered
    <3>1. open'[i] = open[i] \/ open'[i] = [open[i] EXCEPT !.lost = "noted"]
      BY <2>2 DEF Discovered
    <3>2. [open[i] EXCEPT !.lost = "noted"] # None
      BY <1>1, FileSame, NoneAssumption
    <3>3. QED
      BY <3>1, <3>2
  <2>3. ASSUME NEW k \in Inodes, DiscoverKnown(k) \/ MinutePasses(k)
        PROVE  FALSE
    <3>1. PICK b \in {"no", "minute"} : open' = [open EXCEPT ![k].lost = b]
      BY <2>3 DEF DiscoverKnown, MinutePasses
    <3>2. k = i /\ open'[i] = [open[i] EXCEPT !.lost = b]
      BY <3>1 DEF SInv, TypeOK
    <3>3. [open[i] EXCEPT !.lost = b] \in FileStates
      <4>1. b \in {"no", "noted", "minute"}
        BY <3>1
      <4>2. QED
        BY <1>1, <4>1, FileSame
    <3>4. QED
      BY <3>2, <3>3, NoneAssumption
  <2>4. ASSUME NEW k \in Inodes, Discover(k)
        PROVE  FALSE
    <3>1. open' = open \/ open' = [open EXCEPT ![k] = Opened(k)]
      BY <2>4 DEF Discover
    <3>2. Opened(k) # None
      BY OpenedFacts DEF SInv
    <3>3. QED
      BY <3>1, <3>2 DEF SInv, TypeOK
  <2>5. ASSUME NEW k \in Inodes, Consume(k)
        PROVE  FALSE
    <3>1. open' = open \/ (open' = [open EXCEPT ![k] = [open[k] EXCEPT !.epoch = epoch[k]]] /\ k = i)
      BY <2>5 DEF Consume, SInv, TypeOK
    <3>2. [open[i] EXCEPT !.epoch = epoch[i]] \in FileStates
      BY <1>1, InodeFacts DEF FileStates, SInv
    <3>3. open' # open => open'[i] = [open[i] EXCEPT !.epoch = epoch[i]]
      BY <3>1 DEF SInv, TypeOK
    <3>4. QED
      BY <3>2, <3>3, NoneAssumption
  <2>6. ASSUME NEW k \in Inodes, ConsumeTruncated(k)
        PROVE  FALSE
    <3> DEFINE g == open[k].gen + 1
               c == [cps EXCEPT ![k] = Checkpoint(0, g, Fingerprint(k), epoch[k])]
               o == [open[k] EXCEPT !.gen = g, !.fp = Fingerprint(k), !.read = 0,
                                    !.committed = 0, !.pend = NoPending, !.epoch = epoch[k]]
    <3>1. /\ o # None
          /\ open' = [open EXCEPT ![k] = o] \/ SaveFails(c)
      BY <2>6, TruncatedFacts
    <3> HIDE DEF o
    <3>2. open' = [open EXCEPT ![k] = o]
      BY <1>2, <3>1 DEF SaveFails
    <3>3. QED
      BY <3>1, <3>2, SMTT(60) DEF SInv, TypeOK
  <2>7. ~RejectLine
    <3>1. SUFFICES ASSUME RejectLine PROVE FALSE
      OBVIOUS
    <3>2. Working
      BY <3>1, LineFacts DEF RejectLine
    <3>3. PICK o \in FileStates : open' = [open EXCEPT ![cur] = o] \/ faults' = faults + 1
      BY <3>1, RejectLineFacts
    <3>4. QED
      BY <1>2, <3>2, <3>3, UpdatedIsOpen
  <2>8. ~(EmitLine \/ TakeLine)
    <3>1. SUFFICES ASSUME EmitLine \/ TakeLine PROVE FALSE
      OBVIOUS
    <3>2. Working /\ HasLine
      BY <3>1, LineFacts DEF EmitLine, TakeLine
    <3> DEFINE o == [File EXCEPT !.pend = Extended, !.read = @ + 1]
    <3>3. o \in FileStates
      BY <3>2, FileFacts, ExtendedFacts, PendingFields DEF FileStates
    <3>4. open' = [open EXCEPT ![cur] = o]
      BY <3>1 DEF EmitLine, TakeLine, Update
    <3> HIDE DEF o
    <3>5. QED
      BY <3>2, <3>3, <3>4, UpdatedIsOpen
  <2>9. ~Commit
    <3>1. SUFFICES ASSUME Commit PROVE FALSE
      OBVIOUS
    <3>2. Working
      BY <3>1 DEF Commit, Working
    <3> DEFINE o == [File EXCEPT !.committed = File.pend.to]
    <3>3. o \in FileStates
      BY <3>2, FileFacts DEF FileStates
    <3>4. open' = [open EXCEPT ![cur] = o]
      BY <1>2, <3>1 DEF Commit, Update, SaveFails
    <3> HIDE DEF o
    <3>5. QED
      BY <3>2, <3>3, <3>4, UpdatedIsOpen
  <2>10. ~Activate
    <3>1. SUFFICES ASSUME Activate PROVE FALSE
      OBVIOUS
    <3>2. Working
      BY <3>1 DEF Activate, Working
    <3> DEFINE o == [File EXCEPT !.pend = NoPending]
    <3>3. o \in FileStates
      <4>1. NoPending \in PendingRecords
        BY DEF NoPending, PendingRecords
      <4>2. QED
        BY <3>2, <4>1, FileFacts DEF FileStates
    <3>4. open' = [open EXCEPT ![cur] = o]
      BY <3>1 DEF Activate, Update
    <3> HIDE DEF o
    <3>5. QED
      BY <3>2, <3>3, <3>4, UpdatedIsOpen
  <2>11. open' # open
    OBVIOUS
  <2>12. ~(Start \/ PollBegin \/ Polled \/ EmitPending \/ FlushTimeout \/ Admit \/ Stop)
    BY <2>11 DEF Start, PollBegin, Polled, EmitPending, FlushTimeout, Admit, Stop
  <2>13. ~(AdmitFails \/ ActivateFails)
    BY <1>2 DEF AdmitFails, ActivateFails
  <2>14. /\ ~Truncate /\ ~\E k \in Inodes : Rotate(k) \/ Delete(k)
         /\ ~\E k \in Inodes, x \in config.kinds : Append1(k, x)
    BY <2>11 DEF Truncate, Delete, Replaced, Append1, Rotate
  <2>15. Next
    BY <2>11 DEF vars
  <2>16. QED
    BY <2>1, <2>2, <2>3, <2>4, <2>5, <2>6, <2>7, <2>8, <2>9, <2>10, <2>12, <2>13, <2>14, <2>15
       DEF Next, TailerStep, Environment
<1>4. /\ Working /\ pc = "lines" /\ Leave(File) /\ ~HasLine /\ Handled' = Handled
      /\ File = open[i] /\ File.read \in Nat
  BY <1>1, <1>3 DEF FileDone, Working, Handled, handled, File, FileStates
<1>5. File.pend.lines = {}
  BY <1>1, <1>3, <1>4, LeaveFacts
<1>6. limit <= File.read \/ Len(content[i]) <= File.read
  BY <1>1, <1>3, <1>4 DEF HasLine
<1>7. Span(content[i], 0, limit) \subseteq Span(content[i], 0, File.read)
  <2>1. CASE limit <= File.read
    BY <1>1, <1>4, <2>1, SpanWithin
  <2>2. CASE Len(content[i]) <= File.read
    <3>1. Span(content[i], 0, Len(content[i])) \subseteq Span(content[i], 0, File.read)
      BY <1>1, <1>4, <2>2, SpanWithin
    <3>2. QED
      BY <1>1, <3>1, SpanAll
  <2>3. QED
    BY <1>6, <2>1, <2>2
<1>8. Span(content[i], 0, File.read) \subseteq Settled
  <2>1. FileOK(open[i], content[i], epoch[i], lines, Settled)
    BY InodeInv
  <2>2. QED
    BY <1>4, <1>5, <2>1 DEF FileOK
<1>9. Lines(i, limit) = Span(content[i], 0, limit)
  BY <1>1, LinesSpan DEF SInv
<1>10. QED
  BY <1>4, <1>7, <1>8, <1>9 DEF Settled

\* While the agent runs it lets go of a rotated file only when every line that the
\* Stat of the last poll saw in it is accounted for, whoever still writes to it.
THEOREM RotatedFilesFinished == Spec /\ FromBeginning => RotatedFinished
<1>1. TInv /\ [Next]_vars =>
        [\A i \in Inodes :
           /\ open[i] # None /\ open'[i] = None /\ pc' # "down"
           /\ faults' = faults /\ open[i].epoch = epoch[i]
           => Lines(i, limit) \subseteq Handled' \cup excused]_vars
  BY ClosedAtEnd
<1>2. QED
  BY <1>1, Invariance, PTL DEF Spec, RotatedFinished

=============================================================================
