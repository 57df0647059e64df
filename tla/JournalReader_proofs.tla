------------------------ MODULE JournalReader_proofs ------------------------
(***************************************************************************)
(* Proofs about JournalReader: for any journal, any number of stops and of *)
(* failing calls, JInv is inductive.                                       *)
(***************************************************************************)
EXTENDS JournalReader, FiniteSetTheorems, SequenceTheorems, TLAPS

-----------------------------------------------------------------------------
(* Checkpoints, the spool and the first record of a stream.                 *)

\* The interval that counts from one.
LEMMA IntervalLemma ==
  ASSUME NEW l \in Nat
  PROVE  IsFiniteSet(1..l) /\ Cardinality(1..l) = l
BY FS_Interval

\* --since takes whole seconds, rounded down.
LEMMA RoundedDown ==
  ASSUME NEW a \in Nat, NEW t \in Nat \ {0}
  PROVE  (a \div t) * t \in Int /\ (a \div t) * t <= a
OBVIOUS

\* A record of the journal has a time.
LEMMA RecordTime ==
  ASSUME TypeOK
  PROVE  \A n \in 1..Len(journal) : journal[n].at \in 1..MaxClock /\ n \in Positions
<1> SUFFICES ASSUME NEW n \in 1..Len(journal)
             PROVE  journal[n].at \in 1..MaxClock /\ n \in Positions
  OBVIOUS
<1>1. journal[n] \in [kind : Kinds, at : 1..MaxClock]
  BY ElementOfSeq DEF TypeOK
<1>2. n \in Positions
  BY JournalAssumption DEF TypeOK, Positions
<1>3. QED
  BY <1>1, <1>2

\* The watermark is the checkpoint in memory with the time of the clock.
LEMMA WatermarkLemma ==
  ASSUME TypeOK
  PROVE  /\ Watermark \in Checkpoints /\ Watermark.since = clock /\ clock > 0
         /\ Watermark.cursor = cp.cursor /\ Watermark.id = cp.id
<1>1. cp \in Checkpoints /\ clock \in 1..MaxClock
  BY DEF TypeOK
<1>2. Watermark \in Checkpoints
  BY <1>1, JournalAssumption DEF Checkpoints, Watermark
<1>3. Watermark.since = clock /\ clock > 0
  BY <1>1, JournalAssumption DEF Checkpoints, Watermark
<1>4. Watermark.cursor = cp.cursor /\ Watermark.id = cp.id
  BY <1>1 DEF Checkpoints, Watermark
<1>5. QED
  BY <1>2, <1>3, <1>4

\* The checkpoint that passes the record being read.
LEMMA PassedLemma ==
  ASSUME TypeOK, pos <= Len(journal)
  PROVE  /\ Passed \in Checkpoints /\ Passed.cursor = pos /\ Passed.id = pos /\ Passed.since = 0
         /\ pos \in Positions
BY JournalAssumption DEF TypeOK, Checkpoints, Passed, Positions

\* Activating the record that the checkpoint names changes that record only.
LEMMA ActivatedLemma ==
  ASSUME TypeOK, Activated(cp.id)
  PROVE  /\ spool' \in [Positions -> {"none", "unready", "ready", "delivered"}]
         /\ \A n \in Positions :
               \/ spool'[n] = spool[n]
               \/ n = cp.cursor /\ spool[n] = "unready" /\ spool'[n] = "ready"
BY JournalAssumption DEF TypeOK, Activated, Positions, Checkpoints

\* journalctl starts behind the cursor, or with --since, which is rounded down,
\* at or before the first record that start_at: end selects: the records before
\* that one are the only ones that can be earlier than the watermark.
LEMMA FirstLemma ==
  ASSUME JInv, pc = "run"
  PROVE  /\ First \in 1..(Len(journal) + 1) /\ cp.cursor < First
         /\ \A n \in Selected : n < First => Accounted(n)
<1> DEFINE Older == {n \in 1..Len(journal) : journal[n].at < Since}
<1> USE JournalAssumption
<1>1. /\ Len(journal) \in Nat /\ cp.cursor \in Nat /\ cp.since \in Nat /\ saved.cursor \in Nat
      /\ cp.cursor <= saved.cursor /\ saved.cursor <= Len(journal)
  BY DEF JInv, TypeOK, StreamInv, Checkpoints
<1>2. CASE cp.cursor # 0
  <2>1. First = cp.cursor + 1
    BY <1>2 DEF First
  <2>2. QED
    BY <1>1, <2>1 DEF JInv, NoSkippedRecord, Accounted, Selected
<1>3. CASE cp.cursor = 0 /\ cp.since > 0
  <2>1. startAt = "end" /\ cp.since = boundary
    BY <1>3 DEF JInv, BoundaryInv
  <2>2. Since \in Int /\ Since <= cp.since
    BY <1>1, RoundedDown DEF Since
  <2>3. IsFiniteSet(1..Len(journal)) /\ Cardinality(1..Len(journal)) = Len(journal)
    BY <1>1, IntervalLemma
  <2>4. IsFiniteSet(Older) /\ Cardinality(Older) \in Nat /\ Cardinality(Older) <= Len(journal)
    BY <2>3, FS_Subset, FS_CardinalityType
  <2>5. First = Cardinality(Older) + 1
    BY <1>3 DEF First
  <2>6. ASSUME NEW n \in Selected
        PROVE  First <= n
    <3>1. n \in 1..Len(journal) /\ journal[n].at >= boundary
      BY <2>1 DEF Selected
    <3>2. Older \subseteq 1..(n - 1)
      <4> SUFFICES ASSUME NEW m \in 1..Len(journal), journal[m].at < Since, m >= n
                   PROVE  FALSE
        BY <3>1
      <4>1. journal[n].at <= journal[m].at
        BY <3>1, RecordTime DEF JInv, JournalInv
      <4>2. QED
        BY <4>1, <3>1, <2>1, <2>2, <1>1, RecordTime DEF JInv
    <3>3. n - 1 \in Nat
      BY <3>1, <1>1
    <3>4. Cardinality(Older) <= n - 1
      <4> DEFINE Before == 1..(n - 1)
      <4>1. IsFiniteSet(Before) /\ Cardinality(Before) = n - 1
        BY <3>3, IntervalLemma
      <4>2. Older \in SUBSET Before
        BY <3>2
      <4> HIDE DEF Older, Before
      <4>3. Cardinality(Older) <= Cardinality(Before)
        BY <4>1, <4>2, FS_Subset
      <4>4. QED
        BY <4>1, <4>3
    <3>5. QED
      BY <2>4, <2>5, <3>1, <3>4
  <2> HIDE DEF Older
  <2>7. First \in 1..(Len(journal) + 1) /\ cp.cursor < First
    BY <1>1, <1>3, <2>4, <2>5
  <2>8. QED
    BY <2>6, <2>7, <1>1 DEF Selected
<1>4. CASE cp.cursor = 0 /\ ~(cp.since > 0)
  <2>1. startAt = "beginning"
    BY <1>1, <1>4 DEF JInv, BoundaryInv, NeedsWatermark, TypeOK
  <2>2. First = 1
    BY <1>4, <2>1 DEF First
  <2>3. QED
    BY <1>1, <1>4, <2>2 DEF Selected
<1>5. QED
  BY <1>2, <1>3, <1>4

-----------------------------------------------------------------------------
(* JInv is inductive: one lemma for each action.                            *)

\* A unit logs a record, behind every cursor.
LEMMA LogStep ==
  ASSUME JInv, NEW k \in Kinds, Log(k)
  PROVE  JInv'
<1> DEFINE e == [kind |-> k, at |-> clock]
<1>1. /\ TypeOK /\ Len(journal) < MaxRecords /\ journal' = Append(journal, e)
      /\ UNCHANGED <<startAt, clock, saved, spool, cp, pc, pos, rejected, boundary, stops, faults,
                     activateFaults>>
  BY DEF JInv, Log, bounds
<1>2. e \in [kind : Kinds, at : 1..MaxClock] /\ e.at = clock
  BY <1>1 DEF TypeOK
<1> HIDE DEF e
<1>3. /\ Len(journal) \in Nat /\ journal' \in Seq([kind : Kinds, at : 1..MaxClock])
      /\ Len(journal') = Len(journal) + 1 /\ journal'[Len(journal) + 1].at = clock
      /\ \A n \in 1..Len(journal) : journal'[n] = journal[n]
  BY <1>1, <1>2, AppendProperties DEF TypeOK
<1>4. \A n \in Selected' : n \in Selected \/ n = Len(journal) + 1
  BY <1>1, <1>3 DEF Selected
<1>5. \A n \in 1..Len(journal) : n \in Nat /\ journal[n].at \in Nat /\ clock \in Nat
  BY <1>1, RecordTime, JournalAssumption DEF TypeOK
<1> USE <1>1, <1>3, JournalAssumption DEF JInv
<1>6. TypeOK'
  BY DEF TypeOK
<1>7. JournalInv'
  BY <1>5, SMTT(30) DEF JournalInv
<1>8. BoundaryInv'
  BY DEF BoundaryInv, NeedsWatermark
<1>9. StreamInv'
  BY <1>4 DEF StreamInv, Accounted, TypeOK, Checkpoints
<1>10. ReadyInv'
  BY DEF ReadyInv
<1>11. NoSkippedRecord'
  BY <1>4 DEF NoSkippedRecord, StreamInv, TypeOK, Checkpoints
<1>12. QED
  BY <1>6, <1>7, <1>8, <1>9, <1>10, <1>11

\* Time passes.
LEMMA TickStep ==
  ASSUME JInv, Tick
  PROVE  JInv'
<1> USE JournalAssumption DEF JInv, TypeOK, Tick, world, bounds
<1>1. TypeOK'
  BY DEF Checkpoints, Positions
<1>2. JournalInv'
  BY RecordTime DEF JournalInv
<1>3. BoundaryInv'
  BY DEF BoundaryInv, NeedsWatermark, Checkpoints
<1>4. StreamInv'
  BY DEF StreamInv, Selected, Accounted, Checkpoints, Positions
<1>5. ReadyInv'
  BY DEF ReadyInv, Positions, Checkpoints
<1>6. NoSkippedRecord'
  BY DEF NoSkippedRecord, Selected, Positions, Checkpoints
<1>7. QED
  BY <1>1, <1>2, <1>3, <1>4, <1>5, <1>6 DEF JInv

\* The delivery loop delivers a record.
LEMMA DeliverStep ==
  ASSUME JInv, NEW n \in Positions, Deliver(n)
  PROVE  JInv'
<1> USE JournalAssumption DEF JInv, TypeOK, Deliver, world, bounds
<1>1. TypeOK'
  BY DEF Checkpoints, Positions
<1>2. JournalInv'
  BY DEF JournalInv
<1>3. BoundaryInv'
  BY DEF BoundaryInv, NeedsWatermark, Checkpoints
<1>4. StreamInv'
  BY SMTT(30) DEF StreamInv, Selected, Accounted, Checkpoints, Positions
<1>5. ReadyInv'
  BY DEF ReadyInv, Positions, Checkpoints
<1>6. NoSkippedRecord'
  BY DEF NoSkippedRecord, Selected, Positions, Checkpoints
<1>7. QED
  BY <1>1, <1>2, <1>3, <1>4, <1>5, <1>6 DEF JInv

\* The reader loads its checkpoint.
LEMMA LoadStep ==
  ASSUME JInv, Load
  PROVE  JInv'
<1> USE JournalAssumption DEF JInv, TypeOK, Load, Goto, world, bounds
<1>1. TypeOK'
  BY DEF Checkpoints, Positions
<1>2. JournalInv'
  BY DEF JournalInv
<1>3. BoundaryInv'
  BY DEF BoundaryInv, NeedsWatermark, Checkpoints
<1>4. StreamInv'
  BY DEF StreamInv, Selected, Accounted, Checkpoints, Positions
<1>5. ReadyInv'
  BY DEF ReadyInv, Positions, Checkpoints
<1>6. NoSkippedRecord'
  BY DEF NoSkippedRecord, Selected, Positions, Checkpoints
<1>7. QED
  BY <1>1, <1>2, <1>3, <1>4, <1>5, <1>6 DEF JInv

\* The boundary of start_at: end is saved.
LEMMA SetWatermarkStep ==
  ASSUME JInv, SetWatermark
  PROVE  JInv'
<1> USE JournalAssumption DEF JInv, TypeOK, SetWatermark, Goto, Save, NeedsWatermark, world, bounds
<1>1. TypeOK'
  BY WatermarkLemma, SMTT(30) DEF Checkpoints
<1>2. JournalInv'
  BY DEF JournalInv
<1>3. BoundaryInv'
  BY WatermarkLemma DEF BoundaryInv, StreamInv, Checkpoints
<1>4. StreamInv'
  BY WatermarkLemma DEF StreamInv, Checkpoints
<1>5. ReadyInv'
  BY WatermarkLemma DEF ReadyInv, StreamInv
<1>6. NoSkippedRecord'
  BY WatermarkLemma, SMTT(30) DEF NoSkippedRecord, StreamInv, Selected
<1>7. QED
  BY <1>1, <1>2, <1>3, <1>4, <1>5, <1>6 DEF JInv

\* Saving the boundary fails, before or after the rename.
LEMMA SetWatermarkFailsStep ==
  ASSUME JInv, SetWatermarkFails
  PROVE  JInv'
<1>1. /\ pc = "watermark" /\ cp = saved /\ pc' = "failed" /\ cp' = Watermark
      /\ faults' = faults + 1 /\ cp.cursor = 0 /\ cp.since = 0 /\ startAt = "end"
      /\ saved' \in {saved, Watermark} /\ boundary' = IF saved' = Watermark THEN clock ELSE boundary
      /\ UNCHANGED <<startAt, clock, journal, spool, pos, rejected, stops, activateFaults>>
  BY DEF JInv, StreamInv, SetWatermarkFails, SaveFails, NeedsWatermark, Goto, world
<1>2. /\ Watermark \in Checkpoints /\ Watermark.since = clock /\ clock > 0
      /\ Watermark.cursor = 0 /\ Watermark.id = 0
  BY <1>1, WatermarkLemma DEF JInv, TypeOK
<1>3. saved' \in Checkpoints /\ saved'.id = 0 /\ saved'.cursor = 0 /\ saved.cursor = 0
  BY <1>1, <1>2 DEF JInv, TypeOK
<1> USE <1>1, <1>2, <1>3, JournalAssumption DEF JInv
<1>4. TypeOK'
  BY DEF TypeOK
<1>5. JournalInv'
  BY DEF JournalInv
<1>6. BoundaryInv'
  BY DEF BoundaryInv
<1>7. StreamInv' /\ ReadyInv'
  BY DEF StreamInv, ReadyInv
<1>8. NoSkippedRecord'
  BY DEF NoSkippedRecord, Selected
<1>9. QED
  BY <1>4, <1>5, <1>6, <1>7, <1>8

\* Start activates the record the checkpoint names.
LEMMA RecoverStep ==
  ASSUME JInv, Recover
  PROVE  JInv'
<1> USE JournalAssumption DEF JInv, TypeOK, Recover, Goto, world, bounds
<1>1. TypeOK'
  BY ActivatedLemma DEF Checkpoints
<1>2. JournalInv'
  BY DEF JournalInv
<1>3. BoundaryInv'
  BY DEF BoundaryInv, NeedsWatermark, Checkpoints
<1>4. StreamInv'
  BY DEF StreamInv, Selected, Accounted, Checkpoints, Positions
<1>5. ReadyInv'
  BY ActivatedLemma DEF ReadyInv, StreamInv, Positions, Checkpoints
<1>6. NoSkippedRecord'
  BY ActivatedLemma, RecordTime DEF NoSkippedRecord, Selected
<1>7. QED
  BY <1>1, <1>2, <1>3, <1>4, <1>5, <1>6 DEF JInv

\* It cannot, and the reader does not start.
LEMMA RecoverFailsStep ==
  ASSUME JInv, RecoverFails
  PROVE  JInv'
<1> USE JournalAssumption DEF JInv, TypeOK, RecoverFails, Goto, ActivationFails, world, bounds
<1>1. TypeOK'
  BY DEF Checkpoints, Positions
<1>2. JournalInv'
  BY DEF JournalInv
<1>3. BoundaryInv'
  BY DEF BoundaryInv, NeedsWatermark, Checkpoints
<1>4. StreamInv'
  BY DEF StreamInv, Selected, Accounted, Checkpoints, Positions
<1>5. ReadyInv'
  BY DEF ReadyInv, Positions, Checkpoints
<1>6. NoSkippedRecord'
  BY DEF NoSkippedRecord, Selected, Positions, Checkpoints
<1>7. QED
  BY <1>1, <1>2, <1>3, <1>4, <1>5, <1>6 DEF JInv

\* journalctl starts.
LEMMA SpawnStep ==
  ASSUME JInv, Spawn
  PROVE  JInv'
<1> USE JournalAssumption DEF JInv, TypeOK, Spawn, Goto, world, bounds
<1>1. TypeOK'
  BY FirstLemma DEF Checkpoints, Positions
<1>2. JournalInv'
  BY DEF JournalInv
<1>3. BoundaryInv'
  BY DEF BoundaryInv, NeedsWatermark, Checkpoints
<1>4. StreamInv'
  BY FirstLemma DEF StreamInv, Selected, Accounted
<1>5. ReadyInv'
  BY DEF ReadyInv, Positions, Checkpoints
<1>6. NoSkippedRecord'
  BY DEF NoSkippedRecord, Selected, Positions, Checkpoints
<1>7. QED
  BY <1>1, <1>2, <1>3, <1>4, <1>5, <1>6 DEF JInv

\* journalctl ends.
LEMMA JournalctlEndsStep ==
  ASSUME JInv, JournalctlEnds
  PROVE  JInv'
<1> USE JournalAssumption DEF JInv, TypeOK, JournalctlEnds, Goto, world, bounds
<1>1. TypeOK'
  BY DEF Checkpoints, Positions
<1>2. JournalInv'
  BY DEF JournalInv
<1>3. BoundaryInv'
  BY DEF BoundaryInv, NeedsWatermark, Checkpoints
<1>4. StreamInv'
  BY DEF StreamInv, Selected, Accounted, Checkpoints, Positions
<1>5. ReadyInv'
  BY DEF ReadyInv, Positions, Checkpoints
<1>6. NoSkippedRecord'
  BY DEF NoSkippedRecord, Selected, Positions, Checkpoints
<1>7. QED
  BY <1>1, <1>2, <1>3, <1>4, <1>5, <1>6 DEF JInv

\* The delay is over.
LEMMA RetryStep ==
  ASSUME JInv, Retry
  PROVE  JInv'
<1> USE JournalAssumption DEF JInv, TypeOK, Retry, Goto, world, bounds
<1>1. TypeOK'
  BY DEF Checkpoints, Positions
<1>2. JournalInv'
  BY DEF JournalInv
<1>3. BoundaryInv'
  BY DEF BoundaryInv, NeedsWatermark, Checkpoints
<1>4. StreamInv'
  BY DEF StreamInv, Selected, Accounted, Checkpoints, Positions
<1>5. ReadyInv'
  BY DEF ReadyInv, Positions, Checkpoints
<1>6. NoSkippedRecord'
  BY DEF NoSkippedRecord, Selected, Positions, Checkpoints
<1>7. QED
  BY <1>1, <1>2, <1>3, <1>4, <1>5, <1>6 DEF JInv

\* A record does not parse.
LEMMA RejectStep ==
  ASSUME JInv, Reject
  PROVE  JInv'
<1> USE JournalAssumption DEF JInv, TypeOK, Reject, Record, world, bounds
<1>1. TypeOK'
  BY DEF Checkpoints, Positions
<1>2. JournalInv'
  BY DEF JournalInv
<1>3. BoundaryInv'
  BY DEF BoundaryInv, NeedsWatermark, Checkpoints
<1>4. StreamInv'
  BY DEF StreamInv, Selected, Accounted, Checkpoints, Positions
<1>5. ReadyInv'
  BY DEF ReadyInv, Positions, Checkpoints
<1>6. NoSkippedRecord'
  BY DEF NoSkippedRecord, Selected, Positions, Checkpoints
<1>7. QED
  BY <1>1, <1>2, <1>3, <1>4, <1>5, <1>6 DEF JInv

\* The scanner cannot buffer a record.
LEMMA TooLongStep ==
  ASSUME JInv, TooLong
  PROVE  JInv'
<1> USE JournalAssumption DEF JInv, TypeOK, TooLong, Goto, Record, world, bounds
<1>1. TypeOK'
  BY DEF Checkpoints, Positions
<1>2. JournalInv'
  BY DEF JournalInv
<1>3. BoundaryInv'
  BY DEF BoundaryInv, NeedsWatermark, Checkpoints
<1>4. StreamInv'
  BY DEF StreamInv, Selected, Accounted, Checkpoints, Positions
<1>5. ReadyInv'
  BY DEF ReadyInv, Positions, Checkpoints
<1>6. NoSkippedRecord'
  BY DEF NoSkippedRecord, Selected, Positions, Checkpoints
<1>7. QED
  BY <1>1, <1>2, <1>3, <1>4, <1>5, <1>6 DEF JInv

\* A record is too large for LogJSON.
LEMMA AdmitLargeStep ==
  ASSUME JInv, AdmitLarge
  PROVE  JInv'
<1> USE JournalAssumption DEF JInv, TypeOK, AdmitLarge, Goto, Record, world, bounds
<1>1. TypeOK'
  BY DEF Checkpoints, Positions
<1>2. JournalInv'
  BY DEF JournalInv
<1>3. BoundaryInv'
  BY DEF BoundaryInv, NeedsWatermark, Checkpoints
<1>4. StreamInv'
  BY DEF StreamInv, Selected, Accounted, Checkpoints, Positions
<1>5. ReadyInv'
  BY DEF ReadyInv, Positions, Checkpoints
<1>6. NoSkippedRecord'
  BY DEF NoSkippedRecord, Selected, Positions, Checkpoints
<1>7. QED
  BY <1>1, <1>2, <1>3, <1>4, <1>5, <1>6 DEF JInv

\* A record is stored, or found.
LEMMA AdmitStep ==
  ASSUME JInv, Admit
  PROVE  JInv'
<1>1. /\ TypeOK /\ pc = "read" /\ pos <= Len(journal) /\ pc' = "commit"
      /\ spool' = IF pos \in Held THEN spool ELSE [spool EXCEPT ![pos] = "unready"]
      /\ UNCHANGED <<startAt, clock, journal, saved, cp, pos, rejected, boundary, stops, faults,
                     activateFaults>>
  BY DEF JInv, Admit, Record, Goto, world, bounds
<1>2. pos \in Positions
  BY <1>1, PassedLemma
<1>3. /\ spool' \in [Positions -> {"none", "unready", "ready", "delivered"}]
      /\ \A n \in Positions : spool'[n] = spool[n] \/ (n = pos /\ spool'[n] = "unready")
      /\ spool'[pos] # "none"
  BY <1>1, <1>2 DEF TypeOK, Held
<1>4. \A n \in Selected : n \in Positions /\ (Accounted(n) => Accounted(n)')
  BY <1>1, <1>3, RecordTime DEF Selected, Accounted
<1>5. Selected' = Selected
  BY <1>1 DEF Selected
<1> USE <1>1, <1>2, JournalAssumption DEF JInv
<1>6. TypeOK'
  BY <1>3 DEF TypeOK
<1>7. JournalInv'
  BY DEF JournalInv
<1>8. BoundaryInv'
  BY DEF BoundaryInv, NeedsWatermark
<1>9. StreamInv'
  BY <1>3, <1>4, <1>5 DEF StreamInv, Accounted
<1>10. ReadyInv'
  BY <1>3 DEF ReadyInv
<1>11. NoSkippedRecord'
  BY <1>4, <1>5 DEF NoSkippedRecord, Accounted
<1>12. QED
  BY <1>6, <1>7, <1>8, <1>9, <1>10, <1>11

\* The spool is full.
LEMMA AdmitFullStep ==
  ASSUME JInv, AdmitFull
  PROVE  JInv'
<1> USE JournalAssumption DEF JInv, TypeOK, AdmitFull, Goto, Record, world, bounds
<1>1. TypeOK'
  BY DEF Checkpoints, Positions
<1>2. JournalInv'
  BY DEF JournalInv
<1>3. BoundaryInv'
  BY DEF BoundaryInv, NeedsWatermark, Checkpoints
<1>4. StreamInv'
  BY DEF StreamInv, Selected, Accounted, Checkpoints, Positions
<1>5. ReadyInv'
  BY DEF ReadyInv, Positions, Checkpoints
<1>6. NoSkippedRecord'
  BY DEF NoSkippedRecord, Selected, Positions, Checkpoints
<1>7. QED
  BY <1>1, <1>2, <1>3, <1>4, <1>5, <1>6 DEF JInv

\* The spool fails.
LEMMA AdmitFailsStep ==
  ASSUME JInv, AdmitFails
  PROVE  JInv'
<1> USE JournalAssumption DEF JInv, TypeOK, AdmitFails, Goto, Record, world, bounds
<1>1. TypeOK'
  BY DEF Checkpoints, Positions
<1>2. JournalInv'
  BY DEF JournalInv
<1>3. BoundaryInv'
  BY DEF BoundaryInv, NeedsWatermark, Checkpoints
<1>4. StreamInv'
  BY DEF StreamInv, Selected, Accounted, Checkpoints, Positions
<1>5. ReadyInv'
  BY DEF ReadyInv, Positions, Checkpoints
<1>6. NoSkippedRecord'
  BY DEF NoSkippedRecord, Selected, Positions, Checkpoints
<1>7. QED
  BY <1>1, <1>2, <1>3, <1>4, <1>5, <1>6 DEF JInv

\* The checkpoint passes the record.
LEMMA CommitStep ==
  ASSUME JInv, Commit
  PROVE  JInv'
<1>1. /\ TypeOK /\ pc = "commit" /\ pos <= Len(journal) /\ cp.cursor < pos
      /\ Accounted(pos) /\ \A n \in Selected : n < pos => Accounted(n)
      /\ UNCHANGED <<startAt, clock, journal, spool, pos, rejected, boundary, stops, activateFaults>>
  BY DEF JInv, StreamInv, Commit, Save, world
<1>2. pc' = "activate" /\ cp' = Passed /\ saved' = Passed /\ faults' = faults
  BY DEF Commit, Save, Goto
<1>3. /\ Passed \in Checkpoints /\ Passed.cursor = pos /\ Passed.id = pos /\ Passed.since = 0
      /\ pos \in Positions /\ pos \in Nat /\ pos # 0 /\ cp.cursor \in Nat /\ saved.cursor \in Nat
  BY <1>1, PassedLemma DEF TypeOK, Positions, Checkpoints
<1> USE <1>1, <1>2, <1>3, JournalAssumption DEF JInv
<1>4. TypeOK'
  BY DEF TypeOK
<1>5. JournalInv'
  BY DEF JournalInv
<1>6. BoundaryInv'
  BY DEF BoundaryInv, NeedsWatermark
<1>7. StreamInv'
  BY DEF StreamInv
<1>8. ReadyInv'
  BY DEF ReadyInv, Positions
<1>9. NoSkippedRecord'
  <2>1. \A n \in Selected : n \in Nat
    BY DEF Selected
  <2>2. Selected' = Selected
    BY DEF Selected
  <2>3. QED
    BY <2>1, <2>2 DEF NoSkippedRecord, Accounted
<1>10. QED
  BY <1>4, <1>5, <1>6, <1>7, <1>8, <1>9

\* The checkpoint write fails, before or after the rename.
LEMMA CommitFailsStep ==
  ASSUME JInv, CommitFails
  PROVE  JInv'
<1>1. /\ TypeOK /\ pc = "commit" /\ pos <= Len(journal) /\ cp.cursor < pos
      /\ Accounted(pos) /\ \A n \in Selected : n < pos => Accounted(n)
      /\ UNCHANGED <<startAt, clock, journal, spool, pos, rejected, boundary, stops, activateFaults>>
  BY DEF JInv, StreamInv, CommitFails, SaveFails, world
<1>2. pc' = "delay" /\ cp' = cp /\ faults' = faults + 1 /\ (saved' = saved \/ saved' = Passed)
  BY DEF CommitFails, SaveFails, Goto
<1>3. /\ Passed \in Checkpoints /\ Passed.cursor = pos /\ Passed.id = pos /\ Passed.since = 0
      /\ pos \in Positions /\ pos \in Nat /\ pos # 0 /\ cp.cursor \in Nat /\ saved.cursor \in Nat
  BY <1>1, PassedLemma DEF TypeOK, Positions, Checkpoints
<1> USE <1>1, <1>2, <1>3, JournalAssumption DEF JInv
<1>4. TypeOK'
  BY DEF TypeOK
<1>5. JournalInv'
  BY DEF JournalInv
<1>6. BoundaryInv'
  BY DEF BoundaryInv, NeedsWatermark
<1>7. StreamInv'
  BY DEF StreamInv
<1>8. ReadyInv'
  BY DEF ReadyInv, Positions
<1>9. NoSkippedRecord'
  <2>1. \A n \in Selected : n \in Nat
    BY DEF Selected
  <2>2. Selected' = Selected
    BY DEF Selected
  <2>3. QED
    BY <2>1, <2>2 DEF NoSkippedRecord, Accounted
<1>10. QED
  BY <1>4, <1>5, <1>6, <1>7, <1>8, <1>9

\* The record becomes deliverable, and the stream goes on behind it.
LEMMA ActivateStep ==
  ASSUME JInv, Activate
  PROVE  JInv'
<1>1. /\ TypeOK /\ pc = "activate" /\ cp.cursor = pos /\ pos <= saved.cursor /\ saved.cursor <= Len(journal)
      /\ pc' = "read" /\ pos' = pos + 1 /\ Activated(cp.id)
      /\ UNCHANGED <<startAt, clock, journal, saved, cp, rejected, boundary, stops, faults, activateFaults>>
  BY DEF JInv, StreamInv, Activate, Goto, world, bounds
<1>2. /\ spool' \in [Positions -> {"none", "unready", "ready", "delivered"}]
      /\ \A n \in Positions : \/ spool'[n] = spool[n]
                              \/ n = cp.cursor /\ spool[n] = "unready" /\ spool'[n] = "ready"
  BY <1>1, ActivatedLemma
<1>3. /\ pos \in Nat /\ pos # 0 /\ Len(journal) \in Nat /\ saved.cursor \in Nat
      /\ Len(journal) <= MaxRecords
  BY <1>1, JournalAssumption DEF TypeOK, Checkpoints
<1>4. \A n \in Selected : n \in Positions /\ (Accounted(n) => Accounted(n)') /\ n \in Nat
  BY <1>1, <1>2, RecordTime DEF Selected, Accounted
<1>5. Selected' = Selected
  BY <1>1 DEF Selected
<1> USE <1>1, <1>3, JournalAssumption DEF JInv
<1>6. TypeOK'
  BY <1>2 DEF TypeOK
<1>7. JournalInv'
  BY DEF JournalInv
<1>8. BoundaryInv'
  BY DEF BoundaryInv, NeedsWatermark
<1>9. StreamInv'
  BY <1>4, <1>5 DEF StreamInv, NoSkippedRecord, Accounted
<1>10. ReadyInv'
  BY <1>2 DEF ReadyInv, Positions
<1>11. NoSkippedRecord'
  BY <1>4, <1>5 DEF NoSkippedRecord, Accounted
<1>12. QED
  BY <1>6, <1>7, <1>8, <1>9, <1>10, <1>11

\* It does not.
LEMMA ActivateFailsStep ==
  ASSUME JInv, ActivateFails
  PROVE  JInv'
<1> USE JournalAssumption DEF JInv, TypeOK, ActivateFails, Goto, ActivationFails, world, bounds
<1>1. TypeOK'
  BY DEF Checkpoints, Positions
<1>2. JournalInv'
  BY DEF JournalInv
<1>3. BoundaryInv'
  BY DEF BoundaryInv, NeedsWatermark, Checkpoints
<1>4. StreamInv'
  BY DEF StreamInv, Selected, Accounted, Checkpoints, Positions
<1>5. ReadyInv'
  BY DEF ReadyInv, Positions, Checkpoints
<1>6. NoSkippedRecord'
  BY DEF NoSkippedRecord, Selected, Positions, Checkpoints
<1>7. QED
  BY <1>1, <1>2, <1>3, <1>4, <1>5, <1>6 DEF JInv

\* The agent stops or is killed.
LEMMA StopStep ==
  ASSUME JInv, Stop
  PROVE  JInv'
<1> USE JournalAssumption DEF JInv, TypeOK, Stop, Goto, Empty, world, bounds
<1>1. TypeOK'
  BY DEF Checkpoints, Positions
<1>2. JournalInv'
  BY DEF JournalInv
<1>3. BoundaryInv'
  BY DEF BoundaryInv, NeedsWatermark, Checkpoints
<1>4. StreamInv'
  BY DEF StreamInv, Selected, Accounted, Checkpoints, Positions
<1>5. ReadyInv'
  BY DEF ReadyInv, Positions, Checkpoints
<1>6. NoSkippedRecord'
  BY DEF NoSkippedRecord, Selected, Positions, Checkpoints
<1>7. QED
  BY <1>1, <1>2, <1>3, <1>4, <1>5, <1>6 DEF JInv

\* A step in which nothing changes.
LEMMA StutterStep ==
  ASSUME JInv, UNCHANGED vars
  PROVE  JInv'
<1> USE DEF vars, world, bounds, JInv
<1>1. TypeOK' /\ JournalInv'
  BY DEF TypeOK, JournalInv
<1>2. BoundaryInv' /\ StreamInv'
  BY DEF BoundaryInv, StreamInv, NeedsWatermark, Selected, Accounted
<1>3. ReadyInv' /\ NoSkippedRecord'
  BY DEF ReadyInv, NoSkippedRecord, Selected
<1>4. QED
  BY <1>1, <1>2, <1>3

\* The reader has never run, and the journal is empty.
LEMMA InitJInv ==
  ASSUME Init
  PROVE  JInv
<1> USE JournalAssumption DEF Init, Empty
<1>1. Empty \in Checkpoints /\ spool \in [Positions -> {"none", "unready", "ready", "delivered"}]
      /\ journal \in Seq([kind : Kinds, at : 1..MaxClock]) /\ Len(journal) = 0
  BY DEF Checkpoints
<1>2. TypeOK
  BY <1>1 DEF TypeOK
<1>3. JournalInv /\ BoundaryInv /\ StreamInv
  BY <1>1 DEF JournalInv, BoundaryInv, StreamInv
<1>4. ReadyInv /\ NoSkippedRecord
  BY <1>1 DEF ReadyInv, NoSkippedRecord, Selected
<1>5. QED
  BY <1>2, <1>3, <1>4 DEF JInv

\* Every step of the machine and of the reader preserves JInv.
LEMMA NextJInv ==
  ASSUME JInv, [Next]_vars
  PROVE  JInv'
<1>1. CASE Reader
  BY <1>1, LoadStep, SetWatermarkStep, RecoverStep, SpawnStep, RetryStep, RejectStep,
     TooLongStep,
     AdmitLargeStep, AdmitStep, AdmitFullStep, CommitStep, ActivateStep DEF Reader
<1>2. CASE Fails
  BY <1>2, SetWatermarkFailsStep, RecoverFailsStep, JournalctlEndsStep, AdmitFailsStep,
     CommitFailsStep, ActivateFailsStep DEF Fails
<1>3. QED
  BY <1>1, <1>2, StopStep, TickStep, LogStep, DeliverStep, StutterStep DEF Next

\* JInv holds in every reachable state.
THEOREM Invariance == Spec => []JInv
BY InitJInv, NextJInv, PTL DEF Spec

-----------------------------------------------------------------------------
(* The properties of the runs.                                              *)

\* Every variable keeps its type.
THEOREM TypeCorrect == Spec => []TypeOK
BY Invariance, PTL DEF JInv

\* No start, stop, restart of journalctl or failing write moves the cursor on
\* disk past a selected record that is neither stored nor refused.
THEOREM NothingSkipped == Spec => []NoSkippedRecord
BY Invariance, PTL DEF JInv

\* A record that was delivered is behind the cursor in memory, and the stream is
\* ahead of it: Admit never meets it again.
LEMMA DeliveredStays ==
  ASSUME JInv, [Next]_vars, NEW n \in Positions, spool[n] = "delivered"
  PROVE  spool'[n] = "delivered"
<1> USE DEF world, bounds
<1>1. CASE UNCHANGED spool
  BY <1>1
<1>2. CASE Admit
  <2>1. pos \in Nat /\ cp.cursor \in Nat /\ n \in Nat /\ cp.cursor < pos /\ n <= cp.cursor
    BY <1>2, JournalAssumption DEF JInv, TypeOK, Checkpoints, StreamInv, ReadyInv, Admit,
       Record, Positions
  <2>2. QED
    BY <1>2, <2>1 DEF Admit, JInv, TypeOK
<1>3. CASE Recover \/ Activate
  BY <1>3 DEF Recover, Activate, Activated, JInv, TypeOK
<1>4. ASSUME NEW m \in Positions, Deliver(m)
      PROVE  spool'[n] = "delivered"
  BY <1>4 DEF Deliver, JInv, TypeOK
<1>5. Next => UNCHANGED spool \/ Admit \/ Recover \/ Activate \/ \E m \in Positions : Deliver(m)
  BY DEF Next, Reader, Fails, Load, SetWatermark, Spawn, Retry, Reject, TooLong, AdmitLarge,
     AdmitFull, Commit, SetWatermarkFails, RecoverFails, JournalctlEnds, AdmitFails, CommitFails,
     ActivateFails, Stop, Tick, Log
<1>6. QED
  BY <1>1, <1>2, <1>3, <1>4, <1>5 DEF vars

\* A delivered record is never admitted again.
THEOREM NeverAdmittedAgain == Spec => DeliveredOnce
<1>1. JInv /\ [Next]_vars => [\A n \in Positions : spool[n] = "delivered" => spool'[n] = "delivered"]_vars
  BY DeliveredStays
<1>2. QED
  BY <1>1, Invariance, PTL DEF Spec, DeliveredOnce

=============================================================================
