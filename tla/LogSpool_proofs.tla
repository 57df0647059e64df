--------------------------- MODULE LogSpool_proofs ---------------------------
(***************************************************************************)
(* Proofs about LogSpool, for every set of admissions, every limit and     *)
(* every bound on sequence numbers, crashes and faults.                    *)
(*                                                                         *)
(* IInv is the inductive invariant.  One lemma per action shows that the   *)
(* action preserves it, with one step per conjunct; the actions that       *)
(* change a directory image first say, field by field, what the new image  *)
(* is.  The theorems that follow read the properties off IInv.             *)
(*                                                                         *)
(* BInv, in the second part, is the invariant behind the budget and the    *)
(* refusals: what every image is charged, the staged admission included,   *)
(* against what q.bytes and q.count hold.  It is inductive given IInv.     *)
(*                                                                         *)
(* QInv, in the third part, says what the durable image may differ in from *)
(* the directory, and is inductive given the other two.  With the three of *)
(* them, every step is one of DurableQueue or is not seen by it.           *)
(***************************************************************************)
EXTENDS LogSpool, Sums, WellFoundedInduction, TLAPS

\* The head of a non-empty q.names is its smallest number.
LEMMA HeadIsLeast ==
    ASSUME NEW S \in SUBSET Seqs, S # {}
    PROVE  HeadOf(S) \in S /\ \A t \in S : HeadOf(S) <= t
<1>1. S \subseteq Nat
  BY DEF Seqs
<1>2. \E s \in S : \A t \in S : s <= t
  BY <1>1, NatLeast
<1> QED BY <1>2 DEF HeadOf

\* A directory holds finitely many records, so q.count is a number.
LEMMA StoredFinite == \A d : IsFiniteSet(Stored(d)) /\ Cardinality(Stored(d)) \in Nat
<1> TAKE d
<1>1. IsFiniteSet(Seqs)
  BY FS_Interval, SpoolAssumption DEF Seqs
<1>2. Stored(d) \in SUBSET Seqs
  BY DEF Stored
<1>3. IsFiniteSet(Stored(d))
  BY <1>1, <1>2, FS_Subset
<1> QED BY <1>3, FS_CardinalityType

\* The number the scan indexes an admission under is that of its record, or 0.
LEMMA NumberOfType ==
    ASSUME NEW d, NEW a
    PROVE  /\ NumberOf(d, a) \in 0..MaxSeq
           /\ HasRecord(d, a) =>
                 NumberOf(d, a) \in Stored(d) /\ d.recs[NumberOf(d, a)].id = a
  BY SpoolAssumption DEF NumberOf, HasRecord, Stored, Seqs

\* What an encoded record decodes to.
LEMMA RecFacts ==
    ASSUME NEW a \in Admissions, NEW r \in BOOLEAN, NEW k \in BOOLEAN
    PROVE  /\ Rec(a, r, k) \in Content /\ Rec(a, r, k) # NoFile
           /\ Rec(a, r, k).id = a /\ Rec(a, r, k).ready = r /\ Rec(a, r, k).ok = k
  BY SpoolAssumption DEF Rec, Content

\* Renaming the manifest leaves a directory image.
LEMMA ManifestUpdate ==
    ASSUME NEW d \in Image, NEW m \in Nat
    PROVE  [d EXCEPT !.man = m, !.manp = 0] \in Image
<1>1. [d EXCEPT !.man = m] \in Image
  BY DEF Image
<1>2. \A e \in Image : [e EXCEPT !.manp = 0] \in Image
  BY DEF Image
<1>3. [d EXCEPT !.man = m, !.manp = 0] = [[d EXCEPT !.man = m] EXCEPT !.manp = 0]
  OBVIOUS
<1> QED BY <1>1, <1>2, <1>3

\* Damage changes only whether one record decodes.
LEMMA DamagedFacts ==
    ASSUME TypeOK, NEW s \in Seqs, disk.recs[s] \in Content, NEW d \in Image
    PROVE  LET e == Damaged(d, s) IN
           /\ e \in Image
           /\ e.man = d.man /\ e.manp = d.manp /\ e.pend = d.pend /\ e.repl = d.repl
           /\ \A t \in Seqs :
                 /\ e.recs[t] # NoFile <=> d.recs[t] # NoFile
                 /\ d.recs[t] # NoFile =>
                      /\ e.recs[t].id = d.recs[t].id /\ e.recs[t].ready = d.recs[t].ready
                      /\ ~e.recs[t].ok => ~d.recs[t].ok \/ d.recs[t].id = disk.recs[s].id
<1>1. CASE d.recs[s] # disk.recs[s]
  BY <1>1 DEF Damaged
<1>2. CASE d.recs[s] = disk.recs[s]
  <2> DEFINE c == [d.recs[s] EXCEPT !.ok = FALSE]
  <2> DEFINE e == [d EXCEPT !.recs[s] = c]
  <2>1. c \in Content /\ c # NoFile /\ c.id = d.recs[s].id /\ c.ready = d.recs[s].ready
    BY <1>2, SpoolAssumption DEF Content
  <2>2. Damaged(d, s) = e
    BY <1>2 DEF Damaged
  <2> HIDE DEF c
  <2>3. e \in Image /\ e.recs = [d.recs EXCEPT ![s] = c] /\ d.recs \in [Seqs -> File]
    BY <2>1 DEF Image, File
  <2>4. e.man = d.man /\ e.manp = d.manp /\ e.pend = d.pend /\ e.repl = d.repl
    BY DEF Image
  <2>5. \A t \in Seqs : e.recs[t] = IF t = s THEN c ELSE d.recs[t]
    BY <2>3
  <2> QED BY <1>2, <2>1, <2>2, <2>3, <2>4, <2>5, SpoolAssumption DEF Content
<1> QED BY <1>1, <1>2

------------------------------------------------------------------------------
(* Each action preserves IInv.                                              *)

\* The staged manifest names the number PutAdmission reserved, or 1.
LEMMA ManifestWrittenPreserves == ASSUME IInv, ManifestWritten PROVE IInv'
<1> USE SpoolAssumption DEF IInv, memory, running, loop, told, budget
<1>a. next \in 1..(MaxSeq + 1) /\ next >= disk.man /\ disk.pend = NoFile
  BY DEF ManifestWritten, PutInv, OpenInv, Seqs, TypeOK
<1>b. /\ disk'.man = disk.man /\ disk'.manp = next /\ disk'.pend = disk.pend
      /\ disk'.repl = disk.repl /\ disk'.recs = disk.recs
      /\ disk'.bad = disk.bad
  BY DEF ManifestWritten, TypeOK, Image
<1>1. TypeOK'
  BY <1>a, <1>b DEF ManifestWritten, TypeOK, Image, Steps
<1>2. ImageInv(disk)' /\ ImageInv(durable)'
  BY <1>a, <1>b DEF ManifestWritten, ImageInv
<1>3. IndexInv'
  BY <1>a, <1>b DEF ManifestWritten, TypeOK, Seqs, IndexInv, PutInv, OpenInv,
     RemovalInv, Indexed, NoMisdirection, Up
<1>4. PutInv' /\ OpenInv' /\ ActivateInv' /\ RemovalInv'
  BY <1>a, <1>b DEF ManifestWritten, IndexInv, PutInv, Indexed, Rec, Torn,
     OpenInv, NoMisdirection, Up, ActivateInv, RemovalInv
<1>5. LoopInv' /\ NoLostWakeup'
  BY <1>a, <1>b DEF ManifestWritten, LoopInv, OpenInv, PutInv, RemovalInv,
     NoLostWakeup
<1>6. AdmittedSurvives' /\ ActivatedSurvives'
  BY <1>a, <1>b DEF ManifestWritten, AdmittedSurvives, HasRecord, Stored,
     ActivatedSurvives, HasReady
<1> QED BY <1>1, <1>2, <1>3, <1>4, <1>5, <1>6

\* The manifest only ever moves up.
LEMMA ManifestRenamedPreserves == ASSUME IInv, ManifestRenamed PROVE IInv'
<1> USE SpoolAssumption DEF IInv, memory, running, loop, told, budget
<1>a. /\ disk.manp \in 1..(MaxSeq + 1) /\ disk.manp >= disk.man
      /\ disk.pend = NoFile
  <2>1. CASE op = "put"
    BY <2>1 DEF ManifestRenamed, PutInv, Seqs, TypeOK
  <2>2. CASE op = "open"
    BY <2>2 DEF ManifestRenamed, OpenInv, ImageInv, TypeOK
  <2> QED BY <2>1, <2>2 DEF ManifestRenamed
<1>b. /\ disk'.man = disk.manp /\ disk'.manp = 0 /\ disk'.pend = disk.pend
      /\ disk'.repl = disk.repl /\ disk'.recs = disk.recs
      /\ disk'.bad = disk.bad
  BY DEF ManifestRenamed, TypeOK, Image
<1>c. disk' \in Image /\ disk.man \in Nat
  <2>1. disk \in Image /\ disk.manp \in Nat
    BY <1>a DEF TypeOK
  <2>2. disk' \in Image
    BY ONLY <2>1, ManifestUpdate, ManifestRenamed DEF ManifestRenamed
  <2> QED BY <2>1, <2>2 DEF Image
<1>d. released' = released
  BY DEF ManifestRenamed
<1>1. TypeOK'
  BY <1>c DEF ManifestRenamed, TypeOK, Steps
<1>2. ImageInv(disk)'
  BY ONLY <1>a, <1>b, <1>c, <1>d, SpoolAssumption, ImageInv(disk) DEF ImageInv,
     Seqs
<1>3. ImageInv(durable)'
  BY <1>a, <1>b, <1>c, <1>d DEF ManifestRenamed, ImageInv
<1>4. IndexInv'
  BY <1>a, <1>b, <1>c, <1>d DEF ManifestRenamed, TypeOK, Seqs, IndexInv, PutInv,
     OpenInv, RemovalInv, Indexed, NoMisdirection, Up
<1>5. PutInv' /\ OpenInv' /\ ActivateInv' /\ RemovalInv'
  BY <1>a, <1>b, <1>c, <1>d DEF ManifestRenamed, IndexInv, PutInv, Indexed, Rec,
     Torn, OpenInv, NoMisdirection, Up, ActivateInv, RemovalInv
<1>6. LoopInv' /\ NoLostWakeup'
  BY <1>a, <1>b, <1>c, <1>d DEF ManifestRenamed, LoopInv, OpenInv, PutInv,
     RemovalInv, NoLostWakeup
<1>7. AdmittedSurvives' /\ ActivatedSurvives'
  BY <1>a, <1>b, <1>c, <1>d DEF ManifestRenamed, AdmittedSurvives, HasRecord,
     Stored, ActivatedSurvives, HasReady
<1> QED BY <1>1, <1>2, <1>3, <1>4, <1>5, <1>6, <1>7

\* .pending is complete; its admission is stored nowhere else.
LEMMA RecordWrittenPreserves == ASSUME IInv, RecordWritten PROVE IInv'
<1> USE SpoolAssumption DEF IInv, memory, running, loop, told, budget
<1>a. /\ Rec(cur, FALSE, TRUE) \in Content /\ Rec(cur, FALSE, TRUE).id = cur
      /\ disk.pend # NoFile /\ disk.pend.id = cur
  BY RecFacts DEF RecordWritten, PutInv, TypeOK
<1>b. /\ disk'.man = disk.man /\ disk'.manp = disk.manp
      /\ disk'.pend = Rec(cur, FALSE, TRUE) /\ disk'.repl = disk.repl
      /\ disk'.recs = disk.recs /\ disk'.bad = disk.bad
  BY DEF RecordWritten, TypeOK, Image
<1>c. released' = released /\ disk'.pend.id = disk.pend.id
  BY <1>a, <1>b DEF RecordWritten
<1>1. TypeOK'
  BY <1>a, <1>b, <1>c DEF RecordWritten, TypeOK, Image, File, Steps
<1>2. ImageInv(disk)'
  BY ONLY <1>a, <1>b, <1>c, ImageInv(disk), ZenonT(60) DEF ImageInv
<1>3. ImageInv(durable)'
  BY <1>a, <1>b, <1>c DEF RecordWritten, ImageInv
<1>4. IndexInv'
  BY <1>a, <1>b, <1>c DEF RecordWritten, TypeOK, Seqs, IndexInv, PutInv,
     OpenInv, RemovalInv, Indexed, NoMisdirection, Up
<1>5. PutInv' /\ OpenInv' /\ ActivateInv' /\ RemovalInv'
  BY <1>a, <1>b, <1>c DEF RecordWritten, IndexInv, PutInv, Indexed, Rec, Torn,
     OpenInv, NoMisdirection, Up, ActivateInv, RemovalInv
<1>6. LoopInv' /\ NoLostWakeup'
  BY <1>a, <1>b, <1>c DEF RecordWritten, LoopInv, OpenInv, PutInv, RemovalInv,
     NoLostWakeup
<1>7. AdmittedSurvives' /\ ActivatedSurvives'
  BY <1>a, <1>b, <1>c DEF RecordWritten, AdmittedSurvives, HasRecord, Stored,
     ActivatedSurvives, HasReady
<1> QED BY <1>1, <1>2, <1>3, <1>4, <1>5, <1>6, <1>7

\* The staged record takes the reserved number, which was free.
LEMMA RecordRenamedPreserves == ASSUME IInv, RecordRenamed PROVE IInv'
<1> USE SpoolAssumption DEF IInv, memory, running, loop, told, budget
<1>a. /\ disk.pend \in Content /\ disk.pend.ok /\ seq \in Seqs
      /\ disk.recs[seq] = NoFile /\ disk.man = seq + 1 /\ disk.manp = 0
      /\ next = disk.man
  <2>1. CASE op = "put"
    <3>1. /\ disk.pend = Rec(cur, FALSE, TRUE) /\ seq \in Seqs
          /\ disk.recs[seq] = NoFile /\ disk.man = next /\ next = seq + 1
          /\ disk.manp = 0
      BY <2>1 DEF RecordRenamed, PutInv
    <3> QED BY <3>1, RecFacts, ZenonT(60) DEF TypeOK
  <2>2. CASE op = "open"
    <3>1. /\ disk.pend # NoFile /\ disk.pend.ok /\ seq = disk.man - 1
          /\ next = disk.man /\ disk.manp = 0
      BY <2>2 DEF RecordRenamed, OpenInv
    <3>2. disk.pend \in Content /\ disk.man \in Nat
      BY <3>1 DEF TypeOK, Image, File
    <3> QED BY <3>1, <3>2 DEF ImageInv, Seqs
  <2> QED BY <2>1, <2>2 DEF RecordRenamed
<1>b. /\ disk'.recs = [disk.recs EXCEPT ![seq] = disk.pend]
      /\ disk'.pend = NoFile /\ disk'.man = disk.man /\ disk'.manp = disk.manp
      /\ disk'.repl = disk.repl /\ disk.recs \in [Seqs -> File]
  BY DEF RecordRenamed, TypeOK, Image
<1>c. /\ \A s \in Seqs : disk'.recs[s] = IF s = seq THEN disk.pend ELSE disk.recs[s]
  BY <1>a, <1>b
<1>d. NoFile \notin Content /\ released' = released
  BY DEF Content, RecordRenamed
<1>1. TypeOK'
  BY <1>a, <1>b, <1>c, <1>d DEF RecordRenamed, TypeOK, Image, File, Steps
<1>2. ImageInv(disk)'
  BY ONLY <1>a, <1>b, <1>c, <1>d, SpoolAssumption, ImageInv(disk) DEF ImageInv,
     Seqs
<1>3. ImageInv(durable)'
  BY <1>a, <1>b, <1>c, <1>d DEF RecordRenamed, ImageInv
<1>4. IndexInv'
  <2>0. /\ step' = "sync" /\ op' = op /\ admissions' = admissions
        /\ next' = next /\ admissions \in [Admissions -> 0..MaxSeq]
        /\ op \in {"open", "put"}
    BY DEF RecordRenamed, TypeOK
  <2>1. CASE op = "open"
    BY <2>0, <2>1 DEF IndexInv, Up
  <2>2. CASE op = "put"
    <3>1. /\ NoMisdirection
          /\ (\A a \in Admissions : admissions[a] < next /\ admissions[a] < seq)
      BY <2>2 DEF IndexInv, PutInv, Up
    <3>2. NoMisdirection'
      BY ONLY <1>a, <1>c, <2>0, <3>1, SpoolAssumption DEF NoMisdirection, Seqs
    <3> QED BY <2>0, <2>2, <3>1, <3>2 DEF IndexInv, Up
  <2> QED BY <2>0, <2>1, <2>2
<1>5. PutInv'
  BY <1>a, <1>b, <1>c, <1>d DEF RecordRenamed, PutInv, Indexed, Rec, Torn, Seqs
<1>6. OpenInv'
  BY <1>a, <1>b, <1>c, <1>d DEF RecordRenamed, OpenInv
<1>7. ActivateInv' /\ RemovalInv'
  BY <1>a, <1>b, <1>c, <1>d DEF RecordRenamed, IndexInv, NoMisdirection, Up,
     ActivateInv, Rec, Indexed, RemovalInv
<1>8. LoopInv' /\ NoLostWakeup'
  BY <1>a, <1>b, <1>c, <1>d DEF RecordRenamed, LoopInv, OpenInv, PutInv,
     RemovalInv, NoLostWakeup
<1>9. AdmittedSurvives' /\ ActivatedSurvives'
  BY <1>a, <1>b, <1>c, <1>d DEF RecordRenamed, AdmittedSurvives, HasRecord,
     Stored, ActivatedSurvives, HasReady
<1> QED BY <1>1, <1>2, <1>3, <1>4, <1>5, <1>6, <1>7, <1>8, <1>9

\* .replace.pending is complete.
LEMMA ReplacementWrittenPreserves == ASSUME IInv, ReplacementWritten PROVE IInv'
<1> USE SpoolAssumption DEF IInv, memory, running, loop, told, budget
<1>a. Rec(cur, TRUE, TRUE) \in Content
  BY DEF ReplacementWritten, Rec, Content, TypeOK
<1>b. /\ disk'.man = disk.man /\ disk'.manp = disk.manp
      /\ disk'.pend = disk.pend /\ disk'.repl = Rec(cur, TRUE, TRUE)
      /\ disk'.recs = disk.recs /\ disk'.bad = disk.bad
  BY DEF ReplacementWritten, TypeOK, Image
<1>1. TypeOK'
  BY <1>a, <1>b DEF ReplacementWritten, TypeOK, Image, File, Steps
<1>2. ImageInv(disk)' /\ ImageInv(durable)'
  BY <1>a, <1>b DEF ReplacementWritten, ImageInv
<1>3. IndexInv'
  BY <1>a, <1>b DEF ReplacementWritten, TypeOK, Seqs, IndexInv, PutInv, OpenInv,
     RemovalInv, Indexed, NoMisdirection, Up
<1>4. PutInv' /\ OpenInv' /\ ActivateInv' /\ RemovalInv'
  BY <1>a, <1>b DEF ReplacementWritten, IndexInv, PutInv, Indexed, Rec, Torn,
     OpenInv, NoMisdirection, Up, ActivateInv, RemovalInv
<1>5. LoopInv' /\ NoLostWakeup'
  BY <1>a, <1>b DEF ReplacementWritten, LoopInv, OpenInv, PutInv, RemovalInv,
     NoLostWakeup
<1>6. AdmittedSurvives' /\ ActivatedSurvives'
  BY <1>a, <1>b DEF ReplacementWritten, AdmittedSurvives, HasRecord, Stored,
     ActivatedSurvives, HasReady
<1> QED BY <1>1, <1>2, <1>3, <1>4, <1>5, <1>6

\* The replacement carries the identity of the record it replaces.
LEMMA ReplacementRenamedPreserves == ASSUME IInv, ReplacementRenamed PROVE IInv'
<1> USE SpoolAssumption DEF IInv, memory, running, loop, told, budget
<1>a. /\ disk.repl \in Content /\ disk.repl.ok /\ disk.repl.ready
      /\ disk.repl.id = cur /\ seq \in Seqs /\ disk.recs[seq] # NoFile
      /\ disk.recs[seq].id = cur
  <2>1. CASE op = "activate"
    <3>1. /\ disk.repl = Rec(cur, TRUE, TRUE) /\ seq \in Seqs
          /\ disk.recs[seq] # NoFile /\ disk.recs[seq].id = cur
      BY <2>1 DEF ReplacementRenamed, ActivateInv
    <3> QED BY <3>1, RecFacts, ZenonT(60) DEF TypeOK
  <2>2. CASE op = "open"
    <3>1. /\ disk.repl # NoFile /\ disk.repl.ok /\ disk.repl.ready
          /\ disk.repl.id = cur /\ seq \in Seqs /\ disk.recs[seq] # NoFile
          /\ disk.recs[seq].id = cur
      BY <2>2 DEF ReplacementRenamed, OpenInv
    <3> QED BY <3>1 DEF TypeOK, Image, File
  <2> QED BY <2>1, <2>2 DEF ReplacementRenamed
<1>b. /\ disk'.recs = [disk.recs EXCEPT ![seq] = disk.repl]
      /\ disk'.repl = NoFile /\ disk'.man = disk.man /\ disk'.manp = disk.manp
      /\ disk'.pend = disk.pend /\ disk.recs \in [Seqs -> File]
  BY DEF ReplacementRenamed, TypeOK, Image
<1>c. /\ \A s \in Seqs : disk'.recs[s] = IF s = seq THEN disk.repl ELSE disk.recs[s]
  BY <1>a, <1>b
<1>d. NoFile \notin Content /\ released' = released
  BY DEF Content, ReplacementRenamed
<1>e. /\ \A s \in Seqs : (disk'.recs[s] # NoFile <=> disk.recs[s] # NoFile) /\
           (disk.recs[s] # NoFile => disk'.recs[s].id = disk.recs[s].id)
  BY <1>a, <1>c, <1>d
<1>1. TypeOK'
  BY <1>a, <1>b, <1>c, <1>d, <1>e DEF ReplacementRenamed, TypeOK, Image, File,
     Steps
<1>2. ImageInv(disk)'
  <2>1. /\ \A s \in Seqs : disk'.recs[s] # NoFile /\ ~disk'.recs[s].ok =>
             disk'.recs[s].id \in released
    BY <1>a, <1>c, <1>e DEF ImageInv
  <2>2. disk.pend # NoFile => disk.man - 1 \in Seqs
    BY DEF ImageInv, TypeOK, Image, Seqs
  <2> QED BY ONLY <1>b, <1>d, <1>e, <2>1, <2>2, ImageInv(disk) DEF ImageInv
<1>3. ImageInv(durable)'
  BY <1>a, <1>b, <1>c, <1>d, <1>e DEF ReplacementRenamed, ImageInv
<1>4. IndexInv'
  <2>0. /\ admissions' = admissions /\ next' = next /\ op' = op
        /\ closed' = closed /\ admissions \in [Admissions -> 0..MaxSeq]
        /\ op \in {"open", "activate"}
    BY DEF ReplacementRenamed, TypeOK
  <2>1. NoMisdirection => NoMisdirection'
    BY ONLY <1>e, <2>0, SpoolAssumption DEF NoMisdirection, Seqs
  <2>2. Indexed({}) => Indexed({})'
    BY ONLY <1>e, <2>0 DEF Indexed
  <2> QED BY <1>b, <2>0, <2>1, <2>2 DEF ReplacementRenamed, IndexInv, Up
<1>5. PutInv'
  BY <1>a, <1>b, <1>c, <1>d, <1>e DEF ReplacementRenamed, PutInv
<1>6. OpenInv'
  BY <1>a, <1>b, <1>c, <1>d, <1>e DEF ReplacementRenamed, OpenInv
<1>7. ActivateInv'
  BY <1>a, <1>b, <1>c, <1>d, <1>e DEF ReplacementRenamed, ActivateInv
<1>8. RemovalInv'
  BY <1>a, <1>b, <1>c, <1>d, <1>e DEF ReplacementRenamed, IndexInv, Indexed,
     RemovalInv
<1>9. LoopInv' /\ NoLostWakeup'
  BY <1>a, <1>b, <1>c, <1>d, <1>e DEF ReplacementRenamed, LoopInv, OpenInv,
     PutInv, RemovalInv, NoLostWakeup
<1>10. AdmittedSurvives' /\ ActivatedSurvives'
  BY <1>a, <1>b, <1>c, <1>d, <1>e DEF ReplacementRenamed, AdmittedSurvives,
     HasRecord, Stored, ActivatedSurvives, HasReady
<1> QED BY <1>1, <1>2, <1>3, <1>4, <1>5, <1>6, <1>7, <1>8, <1>9, <1>10

\* PutAdmission of an identity that is held changes nothing.
LEMMA PutExistingPreserves ==
    ASSUME IInv, NEW a \in Admissions, PutExisting(a) PROVE IInv'
<1> USE SpoolAssumption DEF IInv, memory, running, loop, told, budget
<1>1. TypeOK'
  BY DEF PutExisting, Idle, TypeOK, Ops, Steps
<1>2. /\ ImageInv(disk)' /\ ImageInv(durable)' /\ AdmittedSurvives'
      /\ ActivatedSurvives'
  BY DEF PutExisting, Idle, ImageInv, AdmittedSurvives, ActivatedSurvives
<1>3. IndexInv'
  BY DEF PutExisting, Idle, TypeOK, Seqs, IndexInv, PutInv, OpenInv, RemovalInv,
     Indexed, NoMisdirection, Up
<1>4. PutInv' /\ OpenInv' /\ ActivateInv' /\ RemovalInv'
  BY DEF PutExisting, Idle, PutInv, OpenInv, ActivateInv, RemovalInv
<1>5. LoopInv' /\ NoLostWakeup'
  BY DEF PutExisting, Idle, LoopInv, OpenInv, PutInv, RemovalInv, NoLostWakeup
<1> QED BY <1>1, <1>2, <1>3, <1>4, <1>5

\* PutAdmission reserves the next number, which no record uses.
LEMMA PutBeginPreserves ==
    ASSUME IInv, NEW a \in Admissions, PutBegin(a) PROVE IInv'
<1> USE SpoolAssumption DEF IInv, memory, running, loop, told, budget
<1>a. /\ disk.pend = NoFile /\ next = disk.man /\ Indexed({}) /\ next \in Nat
      /\ next <= MaxSeq /\ disk.manp = 0
  BY DEF PutBegin, Idle, IndexInv, TypeOK
<1>b. /\ disk'.man = disk.man /\ disk'.manp = Torn /\ disk'.pend = disk.pend
      /\ disk'.repl = disk.repl /\ disk'.recs = disk.recs
      /\ disk'.bad = disk.bad
  BY DEF PutBegin, Idle, TypeOK, Image
<1>1. TypeOK'
  BY <1>a, <1>b DEF PutBegin, Idle, TypeOK, Image, Ops, Steps, Torn
<1>2. ImageInv(disk)'
  BY <1>a, <1>b DEF PutBegin, Idle, ImageInv, Torn, TypeOK, Image
<1>3. ImageInv(durable)'
  BY <1>a, <1>b DEF PutBegin, Idle, ImageInv
<1>4. IndexInv'
  BY <1>a, <1>b DEF PutBegin, Idle, TypeOK, Seqs, IndexInv, PutInv, OpenInv,
     RemovalInv, Indexed, NoMisdirection, Up
<1>5. PutInv'
  <2>1. \A b \in Admissions : admissions[b] < next /\ admissions[b] \in Nat
    BY DEF PutBegin, Idle, IndexInv, Up, TypeOK
  <2>2. next \in Seqs
    BY <1>a, <2>1 DEF Seqs
  <2>3. disk.recs[next] = NoFile
    BY ONLY <1>a, <2>2, ImageInv(disk), TypeOK DEF ImageInv, TypeOK, Seqs
  <2> QED BY ONLY <1>a, <1>b, <2>1, <2>2, <2>3, PutBegin(a), SpoolAssumption DEF
             PutBegin, PutInv, Indexed, Seqs, Torn
<1>6. OpenInv' /\ ActivateInv' /\ RemovalInv'
  BY <1>a, <1>b DEF PutBegin, Idle, OpenInv, Torn, IndexInv, NoMisdirection, Up,
     ActivateInv, Rec, Indexed, RemovalInv
<1>7. LoopInv' /\ NoLostWakeup'
  BY <1>a, <1>b DEF PutBegin, Idle, LoopInv, OpenInv, PutInv, RemovalInv,
     NoLostWakeup
<1>8. AdmittedSurvives' /\ ActivatedSurvives'
  BY <1>a, <1>b DEF PutBegin, Idle, AdmittedSurvives, HasRecord, Stored,
     ActivatedSurvives, HasReady
<1> QED BY <1>1, <1>2, <1>3, <1>4, <1>5, <1>6, <1>7, <1>8

\* The manifest is durable before .pending exists.
LEMMA PutReservedPreserves == ASSUME IInv, PutReserved PROVE IInv'
<1> USE SpoolAssumption DEF IInv, memory, running, loop, told, budget
<1>a. Rec(cur, FALSE, FALSE) \in Content /\ Rec(cur, FALSE, FALSE).id = cur
  BY RecFacts DEF TypeOK
<1>b. /\ seq \in Seqs /\ disk.man = seq + 1 /\ disk.manp = 0
      /\ disk.recs[seq] = NoFile
      /\ \A s \in Seqs : disk.recs[s] # NoFile => disk.recs[s].id # cur
  BY DEF PutReserved, PutInv, Indexed, Seqs
<1>c. /\ disk'.man = disk.man /\ disk'.manp = disk.manp
      /\ disk'.pend = Rec(cur, FALSE, FALSE) /\ disk'.repl = disk.repl
      /\ disk'.recs = disk.recs /\ disk'.bad = disk.bad
  BY DEF PutReserved, TypeOK, Image
<1>d. released' = released /\ disk'.pend.id = cur
  BY <1>a, <1>b, <1>c DEF PutReserved
<1>1. TypeOK'
  BY <1>a, <1>b, <1>c, <1>d DEF PutReserved, TypeOK, Image, File, Ops, Steps
<1>2. ImageInv(disk)'
  <2>1. disk'.man - 1 = seq /\ disk'.man > 1 /\ disk'.manp = 0
    BY <1>b, <1>c DEF Seqs
  <2>2. disk'.recs[disk'.man - 1] = NoFile
    BY <1>b, <1>c, <2>1
  <2>3. /\ \A s \in Seqs : disk'.recs[s] # NoFile => disk'.recs[s].id # disk'.pend.id
    BY <1>b, <1>c, <1>d
  <2>4. disk'.man <= MaxSeq + 1 /\ 0 \in -1..(MaxSeq + 1)
    BY <1>c DEF ImageInv
  <2>5. /\ \A s \in Seqs : disk'.recs[s] # NoFile => s < disk'.man
        /\ \A s, t \in Seqs : /\ disk'.recs[s] # NoFile /\ disk'.recs[t] # NoFile
                              /\ disk'.recs[s].id = disk'.recs[t].id
                              => s = t
        /\ \A s \in Seqs : disk'.recs[s] # NoFile /\ ~disk'.recs[s].ok
                              => disk'.recs[s].id \in released'
    BY ONLY <1>c, <1>d, ImageInv(disk) DEF ImageInv
  <2> QED BY ONLY <2>1, <2>2, <2>3, <2>4, <2>5 DEF ImageInv
<1>3. ImageInv(durable)'
  BY <1>a, <1>b, <1>c, <1>d DEF PutReserved, ImageInv
<1>4. IndexInv'
  BY <1>a, <1>b, <1>c, <1>d DEF PutReserved, TypeOK, Seqs, IndexInv, PutInv,
     OpenInv, RemovalInv, Indexed, NoMisdirection, Up
<1>5. PutInv' /\ OpenInv' /\ ActivateInv' /\ RemovalInv'
  BY <1>a, <1>b, <1>c, <1>d DEF PutReserved, IndexInv, PutInv, Indexed, Rec,
     Torn, OpenInv, NoMisdirection, Up, ActivateInv, RemovalInv
<1>6. LoopInv' /\ NoLostWakeup'
  BY <1>a, <1>b, <1>c, <1>d DEF PutReserved, LoopInv, OpenInv, PutInv,
     RemovalInv, NoLostWakeup
<1>7. AdmittedSurvives' /\ ActivatedSurvives'
  BY <1>a, <1>b, <1>c, <1>d DEF PutReserved, AdmittedSurvives, HasRecord,
     Stored, ActivatedSurvives, HasReady
<1> QED BY <1>1, <1>2, <1>3, <1>4, <1>5, <1>6, <1>7

\* The admission is reported after the directory fsync.
LEMMA PutReturnPreserves == ASSUME IInv, PutReturn PROVE IInv'
<1> USE SpoolAssumption DEF IInv, memory, running, loop, told, budget
<1>a. /\ Rec(cur, FALSE, TRUE) # NoFile /\ Rec(cur, FALSE, TRUE).id = cur
      /\ Rec(cur, FALSE, TRUE).ok
  BY RecFacts DEF TypeOK
<1>b. seq \in Seqs /\ disk.recs[seq] = Rec(cur, FALSE, TRUE)
  BY DEF PutReturn, PutInv
<1>c. disk.recs[seq] # NoFile /\ disk.recs[seq].id = cur /\ disk.recs[seq].ok
  BY <1>a, <1>b
<1>1. TypeOK'
  BY <1>a, <1>b, <1>c DEF PutReturn, TypeOK, Ops, Steps, Seqs
<1>2. ImageInv(disk)'
  BY <1>a, <1>b, <1>c, ZenonT(60) DEF PutReturn, ImageInv, PutInv
<1>3. ImageInv(durable)'
  BY <1>a, <1>b, <1>c, ZenonT(60) DEF PutReturn, ImageInv, PutInv
<1>4. IndexInv'
  <2>0. /\ admissions' = [admissions EXCEPT ![cur] = seq] /\ disk' = disk
        /\ next' = next /\ admissions \in [Admissions -> 0..MaxSeq]
        /\ cur \in Admissions
    BY DEF PutReturn, TypeOK
  <2>1. NoMisdirection'
    BY <1>b, <1>c, <2>0, ZenonT(60) DEF PutReturn, NoMisdirection, IndexInv, Up
  <2>2. /\ next = seq + 1 /\ (\A a \in Admissions : admissions[a] < seq)
        /\ seq \in Nat
    BY DEF PutReturn, PutInv, Seqs
  <2>3. \A a \in Admissions : admissions'[a] < next'
    BY ONLY <2>0, <2>2, SpoolAssumption
  <2>4. /\ \A s \in Seqs : s # seq /\ disk.recs[s] # NoFile =>
             admissions[disk.recs[s].id] = s /\ disk.recs[s].id # cur
    BY <1>b, <1>c DEF PutReturn, PutInv, Indexed, ImageInv
  <2>5. /\ \A s \in Seqs : disk.recs[s] # NoFile => disk.recs[s].id \in Admissions
    BY DEF TypeOK, Image, File, Content
  <2>6. Indexed({})'
    BY ONLY <1>b, <1>c, <2>0, <2>4, <2>5 DEF Indexed
  <2> QED BY <2>1, <2>3, <2>6 DEF PutReturn, IndexInv, PutInv
<1>5. PutInv' /\ OpenInv' /\ ActivateInv' /\ RemovalInv'
  BY <1>a, <1>b, <1>c DEF PutReturn, PutInv, OpenInv, ActivateInv, RemovalInv
<1>6. LoopInv' /\ NoLostWakeup'
  BY <1>a, <1>b, <1>c DEF PutReturn, LoopInv, OpenInv, PutInv, RemovalInv,
     NoLostWakeup
<1>7. AdmittedSurvives'
  BY <1>a, <1>b, <1>c DEF PutReturn, AdmittedSurvives, HasRecord, Stored
<1>8. ActivatedSurvives'
  BY <1>a, <1>b, <1>c DEF PutReturn, ActivatedSurvives
<1> QED BY <1>1, <1>2, <1>3, <1>4, <1>5, <1>6, <1>7, <1>8

\* Activate stages the record that q.admissions names.
LEMMA ActivateBeginPreserves ==
    ASSUME IInv, NEW a \in Admissions, ActivateBegin(a) PROVE IInv'
<1> USE SpoolAssumption DEF IInv, memory, running, loop, told, budget
<1>a. Rec(a, TRUE, FALSE) \in Content
  BY RecFacts
<1>b. /\ admissions[a] \in Seqs /\ disk.recs[admissions[a]] # NoFile
      /\ disk.recs[admissions[a]].id = a
  BY DEF ActivateBegin, Idle, Activatable, IndexInv, NoMisdirection, Up, TypeOK,
     Seqs
<1>c. /\ disk'.man = disk.man /\ disk'.manp = disk.manp
      /\ disk'.pend = disk.pend /\ disk'.repl = Rec(a, TRUE, FALSE)
      /\ disk'.recs = disk.recs /\ disk'.bad = disk.bad
  BY DEF ActivateBegin, Idle, Activatable, TypeOK, Image
<1>d. disk' \in Image
  BY ONLY <1>a, TypeOK, ActivateBegin(a) DEF ActivateBegin, TypeOK, Image, File
<1>1. TypeOK'
  BY <1>b, <1>d DEF ActivateBegin, Idle, Activatable, TypeOK, Ops, Steps, Seqs
<1>2. ImageInv(disk)' /\ ImageInv(durable)'
  BY <1>a, <1>b, <1>c, <1>d DEF ActivateBegin, Idle, Activatable, ImageInv
<1>3. IndexInv'
  BY <1>a, <1>b, <1>c, <1>d DEF ActivateBegin, Idle, Activatable, TypeOK, Seqs,
     IndexInv, PutInv, OpenInv, RemovalInv, Indexed, NoMisdirection, Up
<1>4. PutInv' /\ OpenInv' /\ RemovalInv'
  BY <1>a, <1>b, <1>c, <1>d DEF ActivateBegin, Idle, Activatable, IndexInv,
     PutInv, Indexed, Rec, Torn, OpenInv, RemovalInv
<1>5. ActivateInv'
  BY <1>a, <1>b, <1>c, <1>d DEF ActivateBegin, Idle, Activatable, ActivateInv
<1>6. LoopInv' /\ NoLostWakeup'
  BY <1>a, <1>b, <1>c, <1>d DEF ActivateBegin, Idle, Activatable, LoopInv,
     OpenInv, PutInv, RemovalInv, NoLostWakeup
<1>7. AdmittedSurvives' /\ ActivatedSurvives'
  BY <1>a, <1>b, <1>c, <1>d DEF ActivateBegin, Idle, Activatable,
     AdmittedSurvives, HasRecord, Stored, ActivatedSurvives, HasReady
<1> QED BY <1>1, <1>2, <1>3, <1>4, <1>5, <1>6, <1>7

\* Activate refuses to overwrite a staged activation.
LEMMA ActivateBlockedPreserves ==
    ASSUME IInv, NEW a \in Admissions, ActivateBlocked(a) PROVE IInv'
<1> USE SpoolAssumption DEF IInv, memory, running, loop, told, budget
<1>1. TypeOK'
  BY DEF ActivateBlocked, Idle, Activatable, TypeOK, Ops, Steps
<1>2. /\ ImageInv(disk)' /\ ImageInv(durable)' /\ AdmittedSurvives'
      /\ ActivatedSurvives'
  BY DEF ActivateBlocked, Idle, Activatable, ImageInv, AdmittedSurvives,
     ActivatedSurvives
<1>3. IndexInv'
  BY DEF ActivateBlocked, Idle, Activatable, TypeOK, Seqs, IndexInv, PutInv,
     OpenInv, RemovalInv, Indexed, NoMisdirection, Up
<1>4. PutInv' /\ OpenInv' /\ ActivateInv' /\ RemovalInv'
  BY DEF ActivateBlocked, Idle, Activatable, PutInv, OpenInv, ActivateInv,
     RemovalInv
<1>5. LoopInv' /\ NoLostWakeup'
  BY DEF ActivateBlocked, Idle, Activatable, LoopInv, OpenInv, PutInv,
     RemovalInv, NoLostWakeup
<1> QED BY <1>1, <1>2, <1>3, <1>4, <1>5

\* The activation is reported, and the wake sent, after the fsync.
LEMMA ActivateReturnPreserves == ASSUME IInv, ActivateReturn PROVE IInv'
<1> USE SpoolAssumption DEF IInv, memory, running, loop, told, budget
<1>1. TypeOK'
  BY DEF ActivateReturn, TypeOK, Ops, Steps, ActivateInv
<1>2. ImageInv(disk)' /\ ImageInv(durable)' /\ AdmittedSurvives'
  BY DEF ActivateReturn, ImageInv, AdmittedSurvives
<1>3. IndexInv'
  BY DEF ActivateReturn, TypeOK, Seqs, IndexInv, PutInv, OpenInv, RemovalInv,
     Indexed, NoMisdirection, Up
<1>4. PutInv' /\ OpenInv' /\ ActivateInv' /\ RemovalInv'
  BY DEF ActivateReturn, PutInv, OpenInv, ActivateInv, RemovalInv
<1>5. LoopInv' /\ NoLostWakeup'
  BY DEF ActivateReturn, LoopInv, OpenInv, PutInv, RemovalInv, NoLostWakeup
<1>6. ActivatedSurvives'
  BY DEF ActivateReturn, ActivatedSurvives, HasReady, Stored, ActivateInv
<1> QED BY <1>1, <1>2, <1>3, <1>4, <1>5, <1>6

\* A failing call leaves the directory and closes the spool.
LEMMA WriteFailsPreserves == ASSUME IInv, WriteFails PROVE IInv'
<1> USE SpoolAssumption DEF IInv, memory, running, loop, told, budget
<1>1. TypeOK'
  BY DEF WriteFails, TypeOK, Ops, Steps
<1>2. /\ ImageInv(disk)' /\ ImageInv(durable)' /\ AdmittedSurvives'
      /\ ActivatedSurvives'
  BY DEF WriteFails, ImageInv, AdmittedSurvives, ActivatedSurvives
<1>3. IndexInv'
  BY DEF WriteFails, TypeOK, Seqs, IndexInv, PutInv, OpenInv, RemovalInv,
     Indexed, NoMisdirection, Up
<1>4. PutInv' /\ OpenInv' /\ ActivateInv' /\ RemovalInv'
  BY DEF WriteFails, PutInv, OpenInv, ActivateInv, RemovalInv
<1>5. LoopInv' /\ NoLostWakeup'
  BY DEF WriteFails, LoopInv, OpenInv, PutInv, RemovalInv, NoLostWakeup
<1> QED BY <1>1, <1>2, <1>3, <1>4, <1>5

\* Next hands out the head.
LEMMA NextReturnsPreserves == ASSUME IInv, NextReturns PROVE IInv'
<1> USE SpoolAssumption DEF IInv, memory, running, loop, told, budget
<1>a. HeadOf(ready) \in Seqs
  BY HeadIsLeast DEF NextReturns, Idle, HeadFile, TypeOK
<1>1. TypeOK'
  BY <1>a DEF NextReturns, Idle, HeadFile, TypeOK, Seqs
<1>2. /\ ImageInv(disk)' /\ ImageInv(durable)' /\ AdmittedSurvives'
      /\ ActivatedSurvives'
  BY <1>a DEF NextReturns, Idle, HeadFile, ImageInv, AdmittedSurvives,
     ActivatedSurvives
<1>3. IndexInv'
  BY <1>a DEF NextReturns, Idle, HeadFile, TypeOK, Seqs, IndexInv, PutInv,
     OpenInv, RemovalInv, Indexed, NoMisdirection, Up
<1>4. PutInv' /\ OpenInv' /\ ActivateInv' /\ RemovalInv'
  BY <1>a DEF NextReturns, Idle, HeadFile, PutInv, OpenInv, ActivateInv,
     RemovalInv
<1>5. LoopInv' /\ NoLostWakeup'
  BY <1>a DEF NextReturns, Idle, HeadFile, LoopInv, OpenInv, PutInv, RemovalInv,
     NoLostWakeup
<1> QED BY <1>1, <1>2, <1>3, <1>4, <1>5

\* Next waits when nothing is ready.
LEMMA NextWaitsPreserves == ASSUME IInv, NextWaits PROVE IInv'
<1> USE SpoolAssumption DEF IInv, memory, running, loop, told, budget
<1>1. TypeOK'
  BY DEF NextWaits, Idle, TypeOK, Ops, Steps
<1>2. /\ ImageInv(disk)' /\ ImageInv(durable)' /\ AdmittedSurvives'
      /\ ActivatedSurvives'
  BY DEF NextWaits, Idle, ImageInv, AdmittedSurvives, ActivatedSurvives
<1>3. IndexInv'
  BY DEF NextWaits, Idle, TypeOK, Seqs, IndexInv, PutInv, OpenInv, RemovalInv,
     Indexed, NoMisdirection, Up
<1>4. PutInv' /\ OpenInv' /\ ActivateInv' /\ RemovalInv'
  BY DEF NextWaits, Idle, PutInv, OpenInv, ActivateInv, RemovalInv
<1>5. LoopInv' /\ NoLostWakeup'
  BY DEF NextWaits, Idle, LoopInv, OpenInv, PutInv, RemovalInv, NoLostWakeup
<1> QED BY <1>1, <1>2, <1>3, <1>4, <1>5

\* Next takes the token and looks again.
LEMMA NextWokenPreserves == ASSUME IInv, NextWoken PROVE IInv'
<1> USE SpoolAssumption DEF IInv, memory, running, loop, told, budget
<1>1. TypeOK'
  BY DEF NextWoken, Up, TypeOK, Ops, Steps
<1>2. /\ ImageInv(disk)' /\ ImageInv(durable)' /\ AdmittedSurvives'
      /\ ActivatedSurvives'
  BY DEF NextWoken, Up, ImageInv, AdmittedSurvives, ActivatedSurvives
<1>3. IndexInv'
  BY DEF NextWoken, Up, TypeOK, Seqs, IndexInv, PutInv, OpenInv, RemovalInv,
     Indexed, NoMisdirection
<1>4. PutInv'
  BY DEF NextWoken, Up, PutInv, Indexed
<1>5. OpenInv' /\ ActivateInv' /\ RemovalInv'
  BY DEF NextWoken, Up, OpenInv, ActivateInv, RemovalInv
<1>6. LoopInv' /\ NoLostWakeup'
  BY DEF NextWoken, Up, LoopInv, OpenInv, PutInv, RemovalInv, NoLostWakeup
<1> QED BY <1>1, <1>2, <1>3, <1>4, <1>5, <1>6

\* Next refuses a closed spool.
LEMMA NextClosedPreserves == ASSUME IInv, NextClosed PROVE IInv'
<1> USE SpoolAssumption DEF IInv, memory, running, loop, told, budget
<1>1. TypeOK'
  BY DEF NextClosed, Idle, TypeOK, Ops, Steps
<1>2. /\ ImageInv(disk)' /\ ImageInv(durable)' /\ AdmittedSurvives'
      /\ ActivatedSurvives'
  BY DEF NextClosed, Idle, ImageInv, AdmittedSurvives, ActivatedSurvives
<1>3. IndexInv'
  BY DEF NextClosed, Idle, TypeOK, Seqs, IndexInv, PutInv, OpenInv, RemovalInv,
     Indexed, NoMisdirection, Up
<1>4. PutInv' /\ OpenInv' /\ ActivateInv' /\ RemovalInv'
  BY DEF NextClosed, Idle, PutInv, OpenInv, ActivateInv, RemovalInv
<1>5. LoopInv' /\ NoLostWakeup'
  BY DEF NextClosed, Idle, LoopInv, OpenInv, PutInv, RemovalInv, NoLostWakeup
<1> QED BY <1>1, <1>2, <1>3, <1>4, <1>5

\* Only a damaged record is moved aside.
LEMMA NextQuarantinesPreserves == ASSUME IInv, NextQuarantines PROVE IInv'
<1> USE SpoolAssumption DEF IInv, memory, running, loop, told, budget
<1>a. /\ HeadOf(ready) \in Seqs /\ disk.recs[HeadOf(ready)] # NoFile
      /\ cur' = disk.recs[HeadOf(ready)].id /\ seq' = HeadOf(ready)
      /\ cur' \in Admissions /\ ~disk.recs[HeadOf(ready)].ok
  <2>1. HeadOf(ready) \in Seqs
    BY HeadIsLeast DEF NextQuarantines, Idle, HeadFile, Quarantine, TypeOK
  <2> QED BY <2>1 DEF NextQuarantines, Idle, HeadFile, Quarantine, TypeOK,
             Image, File, Content
<1>b. /\ disk'.recs = [disk.recs EXCEPT ![HeadOf(ready)] = NoFile]
      /\ disk'.repl = disk.repl /\ disk'.man = disk.man
      /\ disk'.manp = disk.manp /\ disk'.pend = disk.pend
      /\ disk.recs \in [Seqs -> File]
  BY DEF NextQuarantines, Idle, HeadFile, Quarantine, TypeOK, Image
<1>c. /\ \A s \in Seqs : disk'.recs[s] = IF s = HeadOf(ready) THEN NoFile ELSE
           disk.recs[s]
  BY <1>a, <1>b
<1>d. released' = released /\ cur' \in released
  BY <1>a DEF NextQuarantines, Idle, HeadFile, Quarantine, ImageInv
<1>e. /\ admissions' = admissions /\ next' = next /\ closed' = closed /\ ~closed
      /\ op = "idle" /\ op' = "quarantine"
      /\ admissions \in [Admissions -> 0..MaxSeq]
  BY DEF NextQuarantines, Idle, HeadFile, Quarantine, TypeOK
<1>f. /\ NoMisdirection /\ Indexed({}) /\ next = disk.man /\ disk.manp = 0
      /\ disk.pend = NoFile /\ \A a \in Admissions : admissions[a] < next
  BY <1>e DEF IndexInv, Up
<1>1. TypeOK'
  <2>1. disk' \in Image
    BY <1>a DEF NextQuarantines, Idle, HeadFile, Quarantine, TypeOK, Image, File
  <2> QED BY <1>a, <2>1 DEF NextQuarantines, Idle, HeadFile, Quarantine, TypeOK,
             Ops, Steps, Seqs
<1>2. ImageInv(disk)'
  BY ONLY <1>b, <1>c, <1>d, ImageInv(disk), <1>f DEF ImageInv
<1>3. ImageInv(durable)'
  BY <1>d DEF NextQuarantines, Idle, HeadFile, Quarantine, ImageInv
<1>4. IndexInv'
  <2>1. NoMisdirection'
    BY ONLY <1>a, <1>c, <1>e, <1>f, SpoolAssumption DEF NoMisdirection, Seqs
  <2>2. Indexed({})'
    BY ONLY <1>a, <1>c, <1>e, <1>f DEF Indexed
  <2> QED BY ONLY <1>b, <1>e, <1>f, <2>1, <2>2, NextQuarantines DEF IndexInv,
             Up, NextQuarantines
<1>5. PutInv' /\ OpenInv' /\ ActivateInv'
  BY <1>a, <1>b, <1>c, <1>d, <1>e, <1>f DEF NextQuarantines, Idle, HeadFile,
     Quarantine, IndexInv, PutInv, Indexed, Rec, Torn, OpenInv, NoMisdirection,
     Up, ActivateInv
<1>6. RemovalInv'
  BY <1>a, <1>c, <1>e, <1>f DEF RemovalInv, Indexed
<1>7. LoopInv' /\ NoLostWakeup'
  BY <1>a, <1>b, <1>c, <1>d, <1>e, <1>f DEF NextQuarantines, Idle, HeadFile,
     Quarantine, LoopInv, OpenInv, PutInv, RemovalInv, NoLostWakeup
<1>8. AdmittedSurvives'
  BY <1>a, <1>c, <1>d DEF NextQuarantines, Idle, HeadFile, Quarantine,
     AdmittedSurvives, HasRecord, Stored
<1>9. ActivatedSurvives'
  BY <1>a, <1>c, <1>d DEF NextQuarantines, Idle, HeadFile, Quarantine,
     ActivatedSurvives, HasReady, Stored
<1> QED BY <1>1, <1>2, <1>3, <1>4, <1>5, <1>6, <1>7, <1>8, <1>9

\* The index forgets the quarantined record.
LEMMA QuarantineReturnPreserves == ASSUME IInv, QuarantineReturn PROVE IInv'
<1> USE SpoolAssumption DEF IInv, memory, running, loop, told, budget
<1>1. TypeOK'
  BY DEF QuarantineReturn, Forget, TypeOK, Ops, Steps
<1>2. /\ ImageInv(disk)' /\ ImageInv(durable)' /\ AdmittedSurvives'
      /\ ActivatedSurvives'
  BY DEF QuarantineReturn, Forget, ImageInv, AdmittedSurvives, ActivatedSurvives
<1>3. IndexInv'
  BY SMTT(30) DEF QuarantineReturn, Forget, TypeOK, Seqs, IndexInv, RemovalInv, Indexed,
     NoMisdirection, Up, Image, File, Content
<1>4. PutInv' /\ OpenInv' /\ ActivateInv' /\ RemovalInv'
  BY DEF QuarantineReturn, Forget, PutInv, OpenInv, ActivateInv, RemovalInv
<1>5. LoopInv' /\ NoLostWakeup'
  BY DEF QuarantineReturn, Forget, LoopInv, OpenInv, PutInv, RemovalInv,
     NoLostWakeup
<1> QED BY <1>1, <1>2, <1>3, <1>4, <1>5

\* A failing fsync leaves the index as it is.
LEMMA QuarantineFailsPreserves == ASSUME IInv, QuarantineFails PROVE IInv'
<1> USE SpoolAssumption DEF IInv, memory, running, loop, told, budget
<1>1. TypeOK'
  BY DEF QuarantineFails, TypeOK, Ops, Steps
<1>2. /\ ImageInv(disk)' /\ ImageInv(durable)' /\ AdmittedSurvives'
      /\ ActivatedSurvives'
  BY DEF QuarantineFails, ImageInv, AdmittedSurvives, ActivatedSurvives
<1>3. IndexInv'
  BY DEF QuarantineFails, TypeOK, Seqs, IndexInv, PutInv, OpenInv, RemovalInv,
     Indexed, NoMisdirection, Up
<1>4. PutInv' /\ OpenInv' /\ ActivateInv' /\ RemovalInv'
  BY DEF QuarantineFails, PutInv, OpenInv, ActivateInv, RemovalInv
<1>5. LoopInv' /\ NoLostWakeup'
  BY DEF QuarantineFails, LoopInv, OpenInv, PutInv, RemovalInv, NoLostWakeup
<1> QED BY <1>1, <1>2, <1>3, <1>4, <1>5

\* The delivery loop looks at the head again.
LEMMA SendExhaustedPreserves == ASSUME IInv, SendExhausted PROVE IInv'
<1> USE SpoolAssumption DEF IInv, memory, running, loop, told, budget
<1>1. TypeOK'
  BY DEF SendExhausted, Up, TypeOK, Ops, Steps
<1>2. /\ ImageInv(disk)' /\ ImageInv(durable)' /\ AdmittedSurvives'
      /\ ActivatedSurvives'
  BY DEF SendExhausted, Up, ImageInv, AdmittedSurvives, ActivatedSurvives
<1>3. IndexInv'
  BY DEF SendExhausted, Up, TypeOK, Seqs, IndexInv, PutInv, OpenInv, RemovalInv,
     Indexed, NoMisdirection
<1>4. PutInv'
  BY DEF SendExhausted, Up, PutInv, Indexed
<1>5. OpenInv' /\ ActivateInv' /\ RemovalInv'
  BY DEF SendExhausted, Up, OpenInv, ActivateInv, RemovalInv
<1>6. LoopInv' /\ NoLostWakeup'
  BY DEF SendExhausted, Up, LoopInv, OpenInv, PutInv, RemovalInv, NoLostWakeup
<1> QED BY <1>1, <1>2, <1>3, <1>4, <1>5, <1>6

\* The delivery loop stops.
LEMMA SendStopsPreserves == ASSUME IInv, SendStops PROVE IInv'
<1> USE SpoolAssumption DEF IInv, memory, running, loop, told, budget
<1>1. TypeOK'
  BY DEF SendStops, Up, TypeOK, Ops, Steps
<1>2. /\ ImageInv(disk)' /\ ImageInv(durable)' /\ AdmittedSurvives'
      /\ ActivatedSurvives'
  BY DEF SendStops, Up, ImageInv, AdmittedSurvives, ActivatedSurvives
<1>3. IndexInv'
  BY DEF SendStops, Up, TypeOK, Seqs, IndexInv, PutInv, OpenInv, RemovalInv,
     Indexed, NoMisdirection
<1>4. PutInv'
  BY DEF SendStops, Up, PutInv, Indexed
<1>5. OpenInv' /\ ActivateInv' /\ RemovalInv'
  BY DEF SendStops, Up, OpenInv, ActivateInv, RemovalInv
<1>6. LoopInv' /\ NoLostWakeup'
  BY DEF SendStops, Up, LoopInv, OpenInv, PutInv, RemovalInv, NoLostWakeup
<1> QED BY <1>1, <1>2, <1>3, <1>4, <1>5, <1>6

\* A refused acknowledgement changes nothing.
LEMMA AckRefusedPreserves == ASSUME IInv, AckRefused PROVE IInv'
<1> USE SpoolAssumption DEF IInv, memory, running, loop, told, budget
<1>1. TypeOK'
  BY DEF AckRefused, Idle, AckAllowed, TypeOK, Ops, Steps
<1>2. /\ ImageInv(disk)' /\ ImageInv(durable)' /\ AdmittedSurvives'
      /\ ActivatedSurvives'
  BY DEF AckRefused, Idle, AckAllowed, ImageInv, AdmittedSurvives,
     ActivatedSurvives
<1>3. IndexInv'
  BY DEF AckRefused, Idle, AckAllowed, TypeOK, Seqs, IndexInv, PutInv, OpenInv,
     RemovalInv, Indexed, NoMisdirection, Up
<1>4. PutInv' /\ OpenInv' /\ ActivateInv' /\ RemovalInv'
  BY DEF AckRefused, Idle, AckAllowed, PutInv, OpenInv, ActivateInv, RemovalInv
<1>5. LoopInv' /\ NoLostWakeup'
  BY DEF AckRefused, Idle, AckAllowed, LoopInv, OpenInv, PutInv, RemovalInv,
     NoLostWakeup
<1> QED BY <1>1, <1>2, <1>3, <1>4, <1>5

\* Only the acknowledged record is removed.
LEMMA AckRemovesPreserves == ASSUME IInv, AckRemoves PROVE IInv'
<1> USE SpoolAssumption DEF IInv, memory, running, loop, told, budget
<1>a. /\ held \in Seqs /\ disk.recs[held] # NoFile /\ cur' = disk.recs[held].id
      /\ seq' = held /\ held \in ready /\ cur' \in Admissions
  <2>1. held \in ready
    BY HeadIsLeast DEF AckRemoves, Idle, HeadFile, AckAllowed, TypeOK
  <2> QED BY <2>1 DEF AckRemoves, Idle, HeadFile, AckAllowed, TypeOK, Image,
             File, Content
<1>b. /\ disk'.recs = [disk.recs EXCEPT ![held] = NoFile]
      /\ disk'.repl = disk.repl /\ disk'.man = disk.man
      /\ disk'.manp = disk.manp /\ disk'.pend = disk.pend
      /\ disk.recs \in [Seqs -> File]
  BY DEF AckRemoves, Idle, HeadFile, AckAllowed, TypeOK, Image
<1>c. /\ \A s \in Seqs : disk'.recs[s] = IF s = held THEN NoFile ELSE disk.recs[s]
  BY <1>a, <1>b
<1>d. released' = released \cup {cur'}
  BY <1>a DEF AckRemoves, Idle, HeadFile, AckAllowed
<1>e. /\ admissions' = admissions /\ next' = next /\ closed' = closed /\ ~closed
      /\ op = "idle" /\ op' = "ack" /\ admissions \in [Admissions -> 0..MaxSeq]
  BY DEF AckRemoves, Idle, HeadFile, AckAllowed, TypeOK
<1>f. /\ NoMisdirection /\ Indexed({}) /\ next = disk.man /\ disk.manp = 0
      /\ disk.pend = NoFile /\ \A a \in Admissions : admissions[a] < next
  BY <1>e DEF IndexInv, Up
<1>1. TypeOK'
  BY <1>a, <1>b, <1>c, <1>d, <1>e, <1>f, ZenonT(60) DEF AckRemoves, Idle, HeadFile,
     AckAllowed, TypeOK, Image, File, Ops, Steps, Seqs
<1>2. ImageInv(disk)'
  BY ONLY <1>b, <1>c, <1>d, ImageInv(disk), <1>f DEF ImageInv
<1>3. ImageInv(durable)'
  BY <1>d DEF AckRemoves, Idle, HeadFile, AckAllowed, ImageInv
<1>4. IndexInv'
  <2>1. NoMisdirection'
    BY ONLY <1>a, <1>c, <1>e, <1>f, SpoolAssumption DEF NoMisdirection, Seqs
  <2>2. Indexed({})'
    BY ONLY <1>a, <1>c, <1>e, <1>f DEF Indexed
  <2> QED BY ONLY <1>b, <1>e, <1>f, <2>1, <2>2, AckRemoves DEF IndexInv, Up,
             AckRemoves
<1>5. PutInv' /\ OpenInv' /\ ActivateInv'
  BY <1>a, <1>b, <1>c, <1>d, <1>e, <1>f DEF AckRemoves, Idle, HeadFile,
     AckAllowed, IndexInv, PutInv, Indexed, Rec, Torn, OpenInv, NoMisdirection,
     Up, ActivateInv
<1>6. RemovalInv'
  BY <1>a, <1>c, <1>e, <1>f DEF RemovalInv, Indexed
<1>7. LoopInv' /\ NoLostWakeup'
  BY <1>a, <1>b, <1>c, <1>d, <1>e, <1>f DEF AckRemoves, Idle, HeadFile,
     AckAllowed, LoopInv, OpenInv, PutInv, RemovalInv, NoLostWakeup
<1>8. AdmittedSurvives'
  BY <1>a, <1>c, <1>d DEF AckRemoves, Idle, HeadFile, AckAllowed,
     AdmittedSurvives, HasRecord, Stored
<1>9. ActivatedSurvives'
  BY <1>a, <1>c, <1>d DEF AckRemoves, Idle, HeadFile, AckAllowed,
     ActivatedSurvives, HasReady, Stored
<1> QED BY <1>1, <1>2, <1>3, <1>4, <1>5, <1>6, <1>7, <1>8, <1>9

\* The index forgets the removed record after the fsync.
LEMMA AckReturnPreserves == ASSUME IInv, AckReturn PROVE IInv'
<1> USE SpoolAssumption DEF IInv, memory, running, loop, told, budget
<1>1. TypeOK'
  BY DEF AckReturn, Forget, TypeOK, Ops, Steps
<1>2. /\ ImageInv(disk)' /\ ImageInv(durable)' /\ AdmittedSurvives'
      /\ ActivatedSurvives'
  BY DEF AckReturn, Forget, ImageInv, AdmittedSurvives, ActivatedSurvives
<1>3. IndexInv'
  BY DEF AckReturn, Forget, TypeOK, Seqs, IndexInv, PutInv, OpenInv, RemovalInv,
     Indexed, NoMisdirection, Up
<1>4. PutInv' /\ OpenInv' /\ ActivateInv' /\ RemovalInv'
  BY DEF AckReturn, Forget, PutInv, OpenInv, ActivateInv, RemovalInv
<1>5. LoopInv' /\ NoLostWakeup'
  BY DEF AckReturn, Forget, LoopInv, OpenInv, PutInv, RemovalInv, NoLostWakeup
<1> QED BY <1>1, <1>2, <1>3, <1>4, <1>5

\* A failing fsync closes the spool.
LEMMA AckFailsPreserves == ASSUME IInv, AckFails PROVE IInv'
<1> USE SpoolAssumption DEF IInv, memory, running, loop, told, budget
<1>1. TypeOK'
  BY DEF AckFails, TypeOK, Ops, Steps
<1>2. /\ ImageInv(disk)' /\ ImageInv(durable)' /\ AdmittedSurvives'
      /\ ActivatedSurvives'
  BY DEF AckFails, ImageInv, AdmittedSurvives, ActivatedSurvives
<1>3. IndexInv'
  BY DEF AckFails, TypeOK, Seqs, IndexInv, PutInv, OpenInv, RemovalInv, Indexed,
     NoMisdirection, Up
<1>4. PutInv' /\ OpenInv' /\ ActivateInv' /\ RemovalInv'
  BY DEF AckFails, PutInv, OpenInv, ActivateInv, RemovalInv
<1>5. LoopInv' /\ NoLostWakeup'
  BY DEF AckFails, LoopInv, OpenInv, PutInv, RemovalInv, NoLostWakeup
<1> QED BY <1>1, <1>2, <1>3, <1>4, <1>5

\* Close leaves the directory alone.
LEMMA ClosePreserves == ASSUME IInv, Close PROVE IInv'
<1> USE SpoolAssumption DEF IInv, memory, running, loop, told, budget
<1>1. TypeOK'
  BY DEF Close, Idle, TypeOK, Ops, Steps
<1>2. /\ ImageInv(disk)' /\ ImageInv(durable)' /\ AdmittedSurvives'
      /\ ActivatedSurvives'
  BY DEF Close, Idle, ImageInv, AdmittedSurvives, ActivatedSurvives
<1>3. IndexInv'
  BY DEF Close, Idle, TypeOK, Seqs, IndexInv, PutInv, OpenInv, RemovalInv,
     Indexed, NoMisdirection, Up
<1>4. PutInv' /\ OpenInv' /\ ActivateInv' /\ RemovalInv'
  BY DEF Close, Idle, PutInv, OpenInv, ActivateInv, RemovalInv
<1>5. LoopInv' /\ NoLostWakeup'
  BY DEF Close, Idle, LoopInv, OpenInv, PutInv, RemovalInv, NoLostWakeup
<1> QED BY <1>1, <1>2, <1>3, <1>4, <1>5

\* OpenLogDisk starts from the manifest, the staged one if it is valid.
LEMMA OpenManifestPreserves == ASSUME IInv, OpenManifest PROVE IInv'
<1> USE SpoolAssumption DEF IInv, memory, running, loop, told, budget
<1>a. /\ disk'.man = disk.man /\ disk'.pend = disk.pend
      /\ disk'.repl = disk.repl /\ disk'.recs = disk.recs
      /\ disk'.bad = disk.bad
      /\ (disk'.manp = disk.manp \/ (disk'.manp = Torn /\ disk.man = 0))
      /\ disk' \in Image
  BY DEF OpenManifest, OpenStep, TypeOK, Image, Torn
<1>1. TypeOK'
  BY <1>a DEF OpenManifest, OpenStep, TypeOK, Ops, Steps
<1>2. ImageInv(disk)'
  BY <1>a DEF OpenManifest, OpenStep, ImageInv, Torn, TypeOK, Image
<1>3. ImageInv(durable)'
  BY <1>a DEF OpenManifest, OpenStep, ImageInv
<1>4. IndexInv'
  BY <1>a DEF OpenManifest, OpenStep, TypeOK, Seqs, IndexInv, PutInv, OpenInv,
     RemovalInv, Indexed, NoMisdirection, Up
<1>5. PutInv' /\ ActivateInv' /\ RemovalInv'
  BY <1>a DEF OpenManifest, OpenStep, IndexInv, PutInv, Indexed, Rec, Torn,
     NoMisdirection, Up, ActivateInv, RemovalInv
<1>6. OpenInv'
  BY <1>a DEF OpenManifest, OpenStep, OpenInv, ImageInv, Torn, TypeOK, Image,
     LoopInv
<1>7. LoopInv' /\ NoLostWakeup'
  BY <1>a DEF OpenManifest, OpenStep, LoopInv, OpenInv, PutInv, RemovalInv,
     NoLostWakeup
<1>8. AdmittedSurvives' /\ ActivatedSurvives'
  BY <1>a DEF OpenManifest, OpenStep, AdmittedSurvives, HasRecord, Stored,
     ActivatedSurvives, HasReady
<1> QED BY <1>1, <1>2, <1>3, <1>4, <1>5, <1>6, <1>7, <1>8

\* The recovered manifest is durable.
LEMMA OpenManifestSyncedPreserves == ASSUME IInv, OpenManifestSynced PROVE IInv'
<1> USE SpoolAssumption DEF IInv, memory, running, loop, told, budget
<1>1. TypeOK'
  BY DEF OpenManifestSynced, OpenStep, TypeOK, Ops, Steps
<1>2. /\ ImageInv(disk)' /\ ImageInv(durable)' /\ AdmittedSurvives'
      /\ ActivatedSurvives'
  BY DEF OpenManifestSynced, OpenStep, ImageInv, AdmittedSurvives,
     ActivatedSurvives
<1>3. IndexInv'
  BY DEF OpenManifestSynced, OpenStep, TypeOK, Seqs, IndexInv, PutInv, OpenInv,
     RemovalInv, Indexed, NoMisdirection, Up
<1>4. PutInv' /\ OpenInv' /\ ActivateInv' /\ RemovalInv'
  BY DEF OpenManifestSynced, OpenStep, PutInv, OpenInv, ActivateInv, RemovalInv
<1>5. LoopInv' /\ NoLostWakeup'
  BY DEF OpenManifestSynced, OpenStep, LoopInv, OpenInv, PutInv, RemovalInv,
     NoLostWakeup
<1> QED BY <1>1, <1>2, <1>3, <1>4, <1>5

\* The staged admission, if any, owns the reserved number.
LEMMA OpenPendingPreserves == ASSUME IInv, OpenPending PROVE IInv'
<1> USE SpoolAssumption DEF IInv, memory, running, loop, told, budget
<1>a. /\ disk'.man = disk.man /\ disk'.manp = disk.manp
      /\ disk'.repl = disk.repl /\ disk'.recs = disk.recs
      /\ disk'.bad = disk.bad /\ (disk'.pend = disk.pend \/ disk'.pend = NoFile)
      /\ disk' \in Image
  BY DEF OpenPending, OpenStep, TypeOK, Image, File
<1>1. TypeOK'
  BY <1>a DEF OpenPending, OpenStep, TypeOK, Image, Ops, Steps, Reserved,
     PendingRefused
<1>2. ImageInv(disk)'
  BY <1>a DEF OpenPending, OpenStep, ImageInv
<1>3. ImageInv(durable)'
  BY <1>a DEF OpenPending, OpenStep, ImageInv
<1>4. IndexInv'
  BY <1>a DEF OpenPending, OpenStep, TypeOK, Seqs, IndexInv, PutInv, OpenInv,
     RemovalInv, Indexed, NoMisdirection, Up
<1>5. PutInv' /\ ActivateInv' /\ RemovalInv'
  BY <1>a DEF OpenPending, OpenStep, IndexInv, PutInv, Indexed, Rec, Torn,
     NoMisdirection, Up, ActivateInv, RemovalInv
<1>6. OpenInv'
  BY <1>a DEF OpenPending, OpenStep, OpenInv, ImageInv, PendingRefused,
     Reserved, TypeOK, Image
<1>7. LoopInv' /\ NoLostWakeup'
  BY <1>a DEF OpenPending, OpenStep, LoopInv, OpenInv, PutInv, RemovalInv,
     NoLostWakeup
<1>8. AdmittedSurvives' /\ ActivatedSurvives'
  BY <1>a DEF OpenPending, OpenStep, AdmittedSurvives, HasRecord, Stored,
     ActivatedSurvives, HasReady
<1> QED BY <1>1, <1>2, <1>3, <1>4, <1>5, <1>6, <1>7, <1>8

\* The recovered admission is durable.
LEMMA OpenPendingSyncedPreserves == ASSUME IInv, OpenPendingSynced PROVE IInv'
<1> USE SpoolAssumption DEF IInv, memory, running, loop, told, budget
<1>1. TypeOK'
  BY DEF OpenPendingSynced, OpenStep, TypeOK, Ops, Steps
<1>2. /\ ImageInv(disk)' /\ ImageInv(durable)' /\ AdmittedSurvives'
      /\ ActivatedSurvives'
  BY DEF OpenPendingSynced, OpenStep, ImageInv, AdmittedSurvives,
     ActivatedSurvives
<1>3. IndexInv'
  BY DEF OpenPendingSynced, OpenStep, TypeOK, Seqs, IndexInv, PutInv, OpenInv,
     RemovalInv, Indexed, NoMisdirection, Up
<1>4. PutInv' /\ OpenInv' /\ ActivateInv' /\ RemovalInv'
  BY DEF OpenPendingSynced, OpenStep, PutInv, OpenInv, ActivateInv, RemovalInv
<1>5. LoopInv' /\ NoLostWakeup'
  BY DEF OpenPendingSynced, OpenStep, LoopInv, OpenInv, PutInv, RemovalInv,
     NoLostWakeup
<1> QED BY <1>1, <1>2, <1>3, <1>4, <1>5

\* The scan moves only damaged records aside.
LEMMA OpenQuarantinesPreserves ==
    ASSUME IInv, NEW s \in Seqs, OpenQuarantines(s) PROVE IInv'
<1> USE SpoolAssumption DEF IInv, memory, running, loop, told, budget
<1>a. disk.recs[s] # NoFile /\ disk.recs[s].id \in released
  BY DEF OpenQuarantines, Quarantine, ImageInv
<1>b. /\ disk'.recs = [disk.recs EXCEPT ![s] = NoFile] /\ disk'.repl = disk.repl
      /\ disk'.man = disk.man /\ disk'.manp = disk.manp
      /\ disk'.pend = disk.pend /\ disk.recs \in [Seqs -> File]
      /\ durable' = disk' /\ released' = released
  BY DEF OpenQuarantines, Quarantine, TypeOK, Image
<1>c. \A t \in Seqs : disk'.recs[t] = IF t = s THEN NoFile ELSE disk.recs[t]
  BY <1>b
<1>d. /\ op = "open" /\ step = "scan"
      /\ UNCHANGED <<op, step, next, closed, seq, cur, admissions>>
      /\ disk.pend = NoFile
  BY DEF OpenQuarantines, Quarantine, OpenInv
<1>1. TypeOK'
  <2>1. disk' \in Image
    BY DEF OpenQuarantines, Quarantine, TypeOK, Image, File
  <2> QED BY <2>1 DEF OpenQuarantines, Quarantine, TypeOK
<1>2. ImageInv(disk)'
  BY ONLY <1>b, <1>c, <1>d, ImageInv(disk) DEF ImageInv
<1>3. ImageInv(durable)'
  BY <1>b, <1>2 DEF ImageInv
<1>4. IndexInv'
  BY <1>d DEF IndexInv, Up
<1>5. PutInv'
  BY <1>d DEF PutInv
<1>6. OpenInv'
  BY <1>b, <1>d DEF OpenInv
<1>7. ActivateInv' /\ RemovalInv'
  BY <1>a, <1>b, <1>c, <1>d DEF OpenQuarantines, Quarantine, IndexInv,
     NoMisdirection, Up, ActivateInv, Rec, Indexed, RemovalInv
<1>8. LoopInv' /\ NoLostWakeup'
  BY <1>a, <1>b, <1>c, <1>d DEF OpenQuarantines, Quarantine, LoopInv, OpenInv,
     PutInv, RemovalInv, NoLostWakeup
<1>9. AdmittedSurvives'
  BY <1>a, <1>b, <1>c DEF OpenQuarantines, Quarantine, AdmittedSurvives,
     HasRecord, Stored
<1>10. ActivatedSurvives'
  BY <1>a, <1>b, <1>c DEF OpenQuarantines, Quarantine, ActivatedSurvives,
     HasReady, Stored
<1> QED BY <1>1, <1>2, <1>3, <1>4, <1>5, <1>6, <1>7, <1>8, <1>9, <1>10

\* The scan indexes every stored record.
LEMMA OpenScannedPreserves == ASSUME IInv, OpenScanned PROVE IInv'
<1> USE SpoolAssumption DEF IInv, memory, running, loop, told, budget
<1>a. /\ admissions' \in [Admissions -> 0..MaxSeq] /\ count' \in Int
      /\ ready' \subseteq Seqs
  <2>1. admissions' \in [Admissions -> 0..MaxSeq]
    BY ONLY OpenScanned, NumberOfType DEF OpenScanned
  <2>2. count' \in Int
    BY ONLY OpenScanned, StoredFinite DEF OpenScanned
  <2>3. ready' \subseteq Seqs
    BY ONLY OpenScanned DEF OpenScanned, Stored
  <2> QED BY <2>1, <2>2, <2>3
<1>b. /\ \A a \in Admissions : admissions'[a] # 0 => disk.recs[admissions'[a]] #
           NoFile /\ admissions'[a] \in Seqs /\ disk.recs[admissions'[a]].id = a
  BY NumberOfType DEF OpenScanned, OpenStep, Stored, NumberOf
<1>c. \A s \in Seqs : disk.recs[s] # NoFile => disk.recs[s].id \in Admissions
  BY DEF TypeOK, Image, File, Content
<1>d. /\ \A s \in Seqs : disk.recs[s] # NoFile => admissions'[disk.recs[s].id] = s
  BY <1>c, NumberOfType DEF OpenScanned, OpenStep, ImageInv, HasRecord, Stored
<1>e. /\ next' = disk'.man /\ disk'.manp = 0 /\ disk'.pend = NoFile
      /\ disk' = disk /\ disk.man \in Nat /\ disk.man > 0 /\ op' = "open"
      /\ step' = "activation"
  BY DEF OpenScanned, OpenStep, OpenInv, TypeOK, Image
<1>f. \A s \in Seqs : disk.recs[s] # NoFile => s < disk.man
  BY DEF ImageInv
<1>1. TypeOK'
  BY <1>a DEF OpenScanned, OpenStep, TypeOK, Ops, Steps
<1>2. /\ ImageInv(disk)' /\ ImageInv(durable)' /\ AdmittedSurvives'
      /\ ActivatedSurvives'
  BY <1>a, <1>b, <1>c, <1>d, <1>e, <1>f DEF OpenScanned, OpenStep, ImageInv,
     AdmittedSurvives, ActivatedSurvives
<1>3. IndexInv'
  <2>1. NoMisdirection'
    BY ONLY <1>b, <1>e DEF NoMisdirection
  <2>2. \A a \in Admissions : admissions'[a] < next'
    BY ONLY <1>a, <1>b, <1>e, <1>f DEF Seqs
  <2>3. Indexed({})'
    BY ONLY <1>d, <1>e DEF Indexed
  <2> QED BY ONLY <1>e, <2>1, <2>2, <2>3 DEF IndexInv
<1>4. PutInv' /\ ActivateInv' /\ RemovalInv'
  BY <1>a, <1>b, <1>c, <1>d, <1>e, <1>f DEF OpenScanned, OpenStep, PutInv,
     ActivateInv, RemovalInv
<1>5. OpenInv'
  BY <1>b DEF OpenScanned, OpenStep, OpenInv
<1>6. LoopInv' /\ NoLostWakeup'
  BY <1>a, <1>b, <1>c, <1>d, <1>e, <1>f DEF OpenScanned, OpenStep, LoopInv,
     OpenInv, PutInv, RemovalInv, NoLostWakeup
<1> QED BY <1>1, <1>2, <1>3, <1>4, <1>5, <1>6

\* The staged activation belongs to a stored record.
LEMMA OpenActivationPreserves == ASSUME IInv, OpenActivation PROVE IInv'
<1> USE SpoolAssumption DEF IInv, memory, running, loop, told, budget
<1>a. /\ disk.repl # NoFile => disk.repl \in Content /\ admissions[disk.repl.id]
           \in Seqs
  BY DEF OpenActivation, OpenStep, TypeOK, Image, File, Content,
     ActivationRefused, Seqs
<1>b. /\ step = "activation"
      /\ (disk.repl # NoFile => disk.repl.ok /\ disk.repl.ready /\
           disk.recs[admissions[disk.repl.id]] # NoFile /\
           disk.recs[admissions[disk.repl.id]].id = disk.repl.id)
  BY <1>a DEF OpenActivation, OpenStep, ActivationRefused, OpenInv, IndexInv,
     NoMisdirection, TypeOK, Content, Seqs
<1>1. TypeOK'
  BY <1>a, <1>b DEF OpenActivation, OpenStep, TypeOK, Ops, Steps, Content, Seqs
<1>2. /\ ImageInv(disk)' /\ ImageInv(durable)' /\ AdmittedSurvives'
      /\ ActivatedSurvives'
  BY <1>a, <1>b DEF OpenActivation, OpenStep, ImageInv, AdmittedSurvives,
     ActivatedSurvives
<1>3. IndexInv'
  BY <1>a, <1>b DEF OpenActivation, OpenStep, TypeOK, Seqs, IndexInv, PutInv,
     OpenInv, RemovalInv, Indexed, NoMisdirection, Up
<1>4. PutInv' /\ ActivateInv' /\ RemovalInv'
  BY <1>a, <1>b DEF OpenActivation, OpenStep, PutInv, ActivateInv, RemovalInv
<1>5. OpenInv'
  BY <1>a, <1>b DEF OpenActivation, OpenStep, OpenInv
<1>6. LoopInv' /\ NoLostWakeup'
  BY <1>a, <1>b DEF OpenActivation, OpenStep, LoopInv, OpenInv, PutInv,
     RemovalInv, NoLostWakeup
<1> QED BY <1>1, <1>2, <1>3, <1>4, <1>5, <1>6

\* The recovered activation is durable.
LEMMA OpenActivationSyncedPreserves ==
    ASSUME IInv, OpenActivationSynced PROVE IInv'
<1> USE SpoolAssumption DEF IInv, memory, running, loop, told, budget
<1>1. TypeOK'
  BY DEF OpenActivationSynced, OpenStep, TypeOK, Ops, Steps, OpenInv
<1>2. /\ ImageInv(disk)' /\ ImageInv(durable)' /\ AdmittedSurvives'
      /\ ActivatedSurvives'
  BY DEF OpenActivationSynced, OpenStep, ImageInv, AdmittedSurvives,
     ActivatedSurvives
<1>3. IndexInv'
  BY DEF OpenActivationSynced, OpenStep, TypeOK, Seqs, IndexInv, PutInv,
     OpenInv, RemovalInv, Indexed, NoMisdirection, Up
<1>4. PutInv' /\ OpenInv' /\ ActivateInv' /\ RemovalInv'
  BY DEF OpenActivationSynced, OpenStep, PutInv, OpenInv, ActivateInv,
     RemovalInv
<1>5. LoopInv' /\ NoLostWakeup'
  BY DEF OpenActivationSynced, OpenStep, LoopInv, OpenInv, PutInv, RemovalInv,
     NoLostWakeup
<1> QED BY <1>1, <1>2, <1>3, <1>4, <1>5

\* The spool opens with a complete index.
LEMMA OpenReturnPreserves == ASSUME IInv, OpenReturn PROVE IInv'
<1> USE SpoolAssumption DEF IInv, memory, running, loop, told, budget
<1>1. TypeOK'
  BY DEF OpenReturn, TypeOK, Ops, Steps
<1>2. /\ ImageInv(disk)' /\ ImageInv(durable)' /\ AdmittedSurvives'
      /\ ActivatedSurvives'
  BY DEF OpenReturn, ImageInv, AdmittedSurvives, ActivatedSurvives
<1>3. IndexInv'
  BY DEF OpenReturn, TypeOK, Seqs, IndexInv, PutInv, OpenInv, RemovalInv,
     Indexed, NoMisdirection, Up
<1>4. PutInv' /\ OpenInv' /\ ActivateInv' /\ RemovalInv'
  BY DEF OpenReturn, PutInv, OpenInv, ActivateInv, RemovalInv
<1>5. LoopInv' /\ NoLostWakeup'
  BY DEF OpenReturn, LoopInv, OpenInv, PutInv, RemovalInv, NoLostWakeup
<1> QED BY <1>1, <1>2, <1>3, <1>4, <1>5

\* A refusal changes no file.
LEMMA OpenRefusedPreserves == ASSUME IInv, OpenRefused PROVE IInv'
<1> USE SpoolAssumption DEF IInv, memory, running, loop, told, budget
<1>1. TypeOK'
  BY DEF OpenRefused, TypeOK, Ops, Steps
<1>2. /\ ImageInv(disk)' /\ ImageInv(durable)' /\ AdmittedSurvives'
      /\ ActivatedSurvives'
  BY DEF OpenRefused, ImageInv, AdmittedSurvives, ActivatedSurvives
<1>3. IndexInv'
  BY DEF OpenRefused, TypeOK, Seqs, IndexInv, PutInv, OpenInv, RemovalInv,
     Indexed, NoMisdirection, Up
<1>4. PutInv' /\ OpenInv' /\ ActivateInv' /\ RemovalInv'
  BY DEF OpenRefused, PutInv, OpenInv, ActivateInv, RemovalInv
<1>5. LoopInv' /\ NoLostWakeup'
  BY DEF OpenRefused, LoopInv, OpenInv, PutInv, RemovalInv, NoLostWakeup
<1> QED BY <1>1, <1>2, <1>3, <1>4, <1>5

\* Both images a crash can leave satisfy the invariant.
LEMMA CrashPreserves == ASSUME IInv, Crash PROVE IInv'
<1> USE SpoolAssumption DEF IInv, memory, running, loop, told, budget
<1>a. /\ UNCHANGED <<durable, seq, cur, fsynced, activated, released>>
      /\ disk' \in {disk, durable} /\ op' = "down" /\ step' = "none"
      /\ closed' = FALSE /\ consumer' = "stopped"
  BY DEF Crash
<1>1. TypeOK'
  <2>1. disk' \in Image /\ durable' \in Image
    BY <1>a DEF TypeOK
  <2>2. admissions' \in [Admissions -> 0..MaxSeq]
    BY DEF Crash
  <2>3. /\ next' \in Nat /\ ready' \subseteq Seqs /\ count' \in Int
        /\ corrupt' \in Nat
    BY ONLY Crash DEF Crash
  <2>4. closed' \in BOOLEAN /\ wake' \in BOOLEAN
    BY ONLY Crash, Zenon DEF Crash
  <2>5. crashes' \in Nat /\ faults' \in Nat /\ seq' \in Nat /\ held' \in Nat
    BY ONLY Crash, TypeOK DEF Crash, TypeOK
  <2>6. /\ cur' \in Admissions /\ op' \in Ops /\ step' \in Steps
        /\ consumer' = "stopped"
    BY <1>a DEF TypeOK, Ops, Steps
  <2> QED BY <1>a, <2>1, <2>2, <2>3, <2>4, <2>5, <2>6 DEF Crash, told, TypeOK
<1>2. ImageInv(disk)'
  <2>1. CASE disk' = disk
    BY <1>a, <2>1 DEF ImageInv
  <2>2. CASE disk' = durable
    BY <1>a, <2>2 DEF ImageInv
  <2> QED BY <1>a, <2>1, <2>2
<1>3. ImageInv(durable)'
  BY <1>a DEF ImageInv
<1>4. IndexInv'
  BY <1>a DEF IndexInv, Up
<1>5. PutInv'
  BY <1>a DEF PutInv
<1>6. OpenInv'
  BY <1>a DEF OpenInv
<1>7. ActivateInv'
  BY <1>a DEF ActivateInv
<1>8. RemovalInv'
  BY <1>a DEF RemovalInv
<1>9. LoopInv'
  BY <1>a DEF LoopInv
<1>10. AdmittedSurvives'
  BY <1>a DEF AdmittedSurvives
<1>11. ActivatedSurvives'
  BY <1>a DEF ActivatedSurvives
<1>12. NoLostWakeup'
  BY <1>a DEF NoLostWakeup
<1> QED BY <1>1, <1>2, <1>3, <1>4, <1>5, <1>6, <1>7, <1>8, <1>9, <1>10, <1>11,
           <1>12

\* Damage changes no identity and no readiness.
LEMMA DamagePreserves == ASSUME IInv, NEW s \in Seqs, Damage(s) PROVE IInv'
<1> USE SpoolAssumption DEF IInv, memory, running, loop, told, budget
<1>a. disk.recs[s] \in Content /\ NoFile \notin Content
  BY DEF Damage, TypeOK, Image, File, Content
<1>b. /\ disk'.man = disk.man /\ disk'.manp = disk.manp
      /\ disk'.pend = disk.pend /\ disk'.repl = disk.repl /\ disk' \in Image
      /\ \A t \in Seqs : (disk'.recs[t] # NoFile <=> disk.recs[t] # NoFile) /\
           (disk.recs[t] # NoFile => disk'.recs[t].id = disk.recs[t].id /\
           disk'.recs[t].ready = disk.recs[t].ready /\ (~disk'.recs[t].ok =>
           ~disk.recs[t].ok \/ disk.recs[t].id = disk.recs[s].id))
  BY <1>a, DamagedFacts DEF Damage, TypeOK
<1>c. /\ durable'.man = durable.man /\ durable'.manp = durable.manp
      /\ durable'.pend = durable.pend /\ durable'.repl = durable.repl
      /\ durable' \in Image
      /\ \A t \in Seqs : (durable'.recs[t] # NoFile <=> durable.recs[t] #
           NoFile) /\ (durable.recs[t] # NoFile => durable'.recs[t].id =
           durable.recs[t].id /\ durable'.recs[t].ready = durable.recs[t].ready
           /\ (~durable'.recs[t].ok => ~durable.recs[t].ok \/ durable.recs[t].id
           = disk.recs[s].id))
  BY <1>a, DamagedFacts DEF Damage, TypeOK
<1>d. /\ released' = released \cup {disk.recs[s].id} /\ op \in {"idle", "down"}
      /\ UNCHANGED <<op, step, next, closed, seq, cur, admissions, fsynced,
           activated>>
  BY DEF Damage
<1>1. TypeOK'
  BY <1>a, <1>b, <1>c DEF Damage, TypeOK, Content
<1>2. ImageInv(disk)'
  <2>1. disk.pend # NoFile => disk.man - 1 \in Seqs
    BY DEF ImageInv, TypeOK, Image, Seqs
  <2> QED BY ONLY <1>b, <1>d, <2>1, ImageInv(disk) DEF ImageInv
<1>3. ImageInv(durable)'
  <2>1. durable.pend # NoFile => durable.man - 1 \in Seqs
    BY DEF ImageInv, TypeOK, Image, Seqs
  <2> QED BY ONLY <1>c, <1>d, <2>1, ImageInv(durable) DEF ImageInv
<1>4. IndexInv'
  <2>1. NoMisdirection => NoMisdirection'
    BY <1>b, <1>d DEF NoMisdirection, TypeOK, Seqs
  <2>2. Indexed({}) => Indexed({})'
    BY <1>b, <1>d DEF Indexed
  <2> QED BY <1>b, <1>d, <2>1, <2>2 DEF IndexInv, Up, LoopInv
<1>5. PutInv'
  BY <1>d DEF PutInv
<1>6. OpenInv'
  BY <1>d DEF OpenInv
<1>7. ActivateInv'
  BY <1>d DEF ActivateInv
<1>8. RemovalInv'
  BY <1>d DEF RemovalInv
<1>9. LoopInv' /\ NoLostWakeup'
  BY <1>a, <1>b, <1>c, <1>d DEF Damage, LoopInv, OpenInv, PutInv, RemovalInv,
     NoLostWakeup
<1>10. AdmittedSurvives'
  BY <1>b, <1>c, <1>d DEF AdmittedSurvives, HasRecord, Stored
<1>11. ActivatedSurvives'
  BY <1>b, <1>c, <1>d DEF ActivatedSurvives, HasReady, Stored
<1> QED BY <1>1, <1>2, <1>3, <1>4, <1>5, <1>6, <1>7, <1>8, <1>9, <1>10, <1>11

------------------------------------------------------------------------------
\* The spool starts in a state that satisfies the invariant: an empty directory.
LEMMA InitInv == Init => IInv
<1> SUFFICES ASSUME Init PROVE IInv
  OBVIOUS
<1> USE SpoolAssumption
<1>1. EmptyImage \in Image
  BY DEF EmptyImage, Image, File
<1>2. TypeOK
  <2>1. closed \in BOOLEAN /\ wake \in BOOLEAN
    BY Zenon DEF Init, NoMemory
  <2>2. admissions \in [Admissions -> 0..MaxSeq]
    BY DEF Init, NoMemory
  <2> QED BY <1>1, <2>1, <2>2 DEF Init, NoMemory, TypeOK, Ops, Steps
<1>3. ImageInv(disk) /\ ImageInv(durable)
  BY DEF Init, EmptyImage, ImageInv
<1>4. IndexInv /\ PutInv /\ OpenInv /\ ActivateInv /\ RemovalInv /\ LoopInv
  BY DEF Init, NoMemory, IndexInv, Up, PutInv, OpenInv, ActivateInv, RemovalInv,
     LoopInv
<1>5. AdmittedSurvives /\ ActivatedSurvives /\ NoLostWakeup
  BY DEF Init, AdmittedSurvives, ActivatedSurvives, NoLostWakeup
<1> QED BY <1>2, <1>3, <1>4, <1>5 DEF IInv

\* A stuttering step preserves the invariant.
LEMMA StutterInv == IInv /\ UNCHANGED vars => IInv'
<1> SUFFICES ASSUME IInv, UNCHANGED vars PROVE IInv'
  OBVIOUS
<1> USE DEF vars, memory, running, loop, told, budget
<1>1. TypeOK' /\ ImageInv(disk)' /\ ImageInv(durable)'
  BY DEF IInv, TypeOK, ImageInv
<1>2. IndexInv' /\ PutInv'
  BY DEF IInv, IndexInv, PutInv, Indexed, NoMisdirection, Up
<1>3. OpenInv' /\ ActivateInv' /\ RemovalInv' /\ LoopInv'
  BY ZenonT(60) DEF IInv, OpenInv, ActivateInv, RemovalInv, LoopInv
<1>4. AdmittedSurvives' /\ ActivatedSurvives' /\ NoLostWakeup'
  BY DEF IInv, AdmittedSurvives, ActivatedSurvives, NoLostWakeup
<1> QED BY <1>1, <1>2, <1>3, <1>4 DEF IInv

\* Every step of the spool, of its callers and of the environment preserves it.
LEMMA NextInv == IInv /\ [Next]_vars => IInv'
<1> SUFFICES ASSUME IInv, [Next]_vars PROVE IInv'
  OBVIOUS
<1>1. CASE SaveManifest \/ WriteRecord \/ WriteReplacement
  BY <1>1, ManifestWrittenPreserves, ManifestRenamedPreserves,
     RecordWrittenPreserves, RecordRenamedPreserves,
     ReplacementWrittenPreserves, ReplacementRenamedPreserves
     DEF SaveManifest, WriteRecord, WriteReplacement
<1>2. CASE PutAdmission
  BY <1>2, PutExistingPreserves, PutBeginPreserves, PutReservedPreserves,
     PutReturnPreserves DEF PutAdmission
<1>3. CASE Activate \/ WriteFails
  BY <1>3, ActivateBeginPreserves, ActivateBlockedPreserves,
     ActivateReturnPreserves, WriteFailsPreserves DEF Activate
<1>4. CASE NextItem
  BY <1>4, NextReturnsPreserves, NextWaitsPreserves, NextWokenPreserves,
     NextClosedPreserves, NextQuarantinesPreserves,
     QuarantineReturnPreserves, QuarantineFailsPreserves DEF NextItem
<1>5. CASE Ack \/ Close
  BY <1>5, SendExhaustedPreserves, SendStopsPreserves, AckRefusedPreserves,
     AckRemovesPreserves, AckReturnPreserves, AckFailsPreserves,
     ClosePreserves DEF Ack
<1>6. CASE OpenLogDisk
  BY <1>6, OpenManifestPreserves, OpenManifestSyncedPreserves,
     OpenPendingPreserves, OpenPendingSyncedPreserves,
     OpenQuarantinesPreserves, OpenScannedPreserves,
     OpenActivationPreserves, OpenActivationSyncedPreserves,
     OpenReturnPreserves, OpenRefusedPreserves DEF OpenLogDisk
<1>7. CASE Environment
  BY <1>7, CrashPreserves, DamagePreserves DEF Environment
<1>8. CASE UNCHANGED vars
  BY <1>8, StutterInv
<1> QED BY <1>1, <1>2, <1>3, <1>4, <1>5, <1>6, <1>7, <1>8 DEF Next

\* IInv is an invariant of the spool.
THEOREM Inductive == Spec => []IInv
  BY InitInv, NextInv, PTL DEF Spec

\* Type correctness of the spool.
THEOREM TypeCorrect == Spec => []TypeOK
<1>1. IInv => TypeOK
  BY DEF IInv
<1> QED BY <1>1, Inductive, PTL

\* A record whose PutAdmission returned a new receipt is never lost: no kill,
\* power loss, failing write or reopening removes it before it is acknowledged
\* or its file is damaged.
THEOREM AdmissionDurable == Spec => []AdmittedSurvives
<1>1. IInv => AdmittedSurvives
  BY DEF IInv
<1> QED BY <1>1, Inductive, PTL

\* A record whose Activate returned is deliverable after any crash.
THEOREM ActivationDurable == Spec => []ActivatedSurvives
<1>1. IInv => ActivatedSurvives
  BY DEF IInv
<1> QED BY <1>1, Inductive, PTL

\* No crash leaves a directory that holds one admission under two numbers, the
\* staged one included, so OpenLogDisk never refuses for a duplicate identity.
THEOREM AdmissionUnique == Spec => []OneRecordPerAdmission
<1>1. IInv => OneRecordPerAdmission
  BY DEF IInv, ImageInv, OneRecordPerAdmission, DuplicateAdmission, HasRecord,
     Stored
<1> QED BY <1>1, Inductive, PTL

\* The delivery loop never sleeps on a deliverable record without a token.
THEOREM WakeupKept == Spec => []NoLostWakeup
<1>1. IInv => NoLostWakeup
  BY DEF IInv
<1> QED BY <1>1, Inductive, PTL

-----------------------------------------------------------------------------
(* The budget and the refusals.  BInv is inductive given IInv.              *)

\* Two images with the same records and staging files, whatever their manifests.
SameFiles(e, d) == e.recs = d.recs /\ e.pend = d.pend /\ e.repl = d.repl /\ e.bad = d.bad

\* What a file of an image decodes to is charged for in naturals.
LEMMA ChargeType ==
  ASSUME NEW c \in Content
  PROVE  /\ c.id \in Admissions /\ c.ready \in BOOLEAN
         /\ PutCost[c.id] \in Nat /\ ReadyCost[c.id] \in Nat /\ ReadyCost[c.id] <= PutCost[c.id]
         /\ Charge(c) \in Nat
         /\ c.ready => Charge(c) = ReadyCost[c.id]
         /\ ReadyCost[c.id] <= Charge(c)
BY SpoolAssumption DEF Charge, Content

\* A staged or stored admission costs PutCost before it is activated.
LEMMA RecCharge ==
  ASSUME NEW a \in Admissions, NEW k \in BOOLEAN
  PROVE  Charge(Rec(a, FALSE, k)) = PutCost[a] /\ PutCost[a] \in Nat
BY RecFacts, SpoolAssumption DEF Charge

\* An image and its records, and what they are charged.
LEMMA ImageFacts ==
  ASSUME NEW d \in Image
  PROVE  /\ Stored(d) \subseteq Seqs /\ IsFiniteSet(Stored(d)) /\ Cardinality(Stored(d)) \in Nat
         /\ \A s \in Stored(d) : d.recs[s] \in Content /\ Charge(d.recs[s]) \in Nat
         /\ Charged(d) \in Nat
         /\ d.pend # NoFile => d.pend \in Content /\ Charge(d.pend) \in Nat
         /\ d.repl # NoFile => d.repl \in Content
<1>1. /\ Stored(d) \subseteq Seqs /\ IsFiniteSet(Stored(d)) /\ Cardinality(Stored(d)) \in Nat
  BY StoredFinite DEF Stored
<1>2. \A s \in Stored(d) : d.recs[s] \in Content
  BY DEF Stored, Image, File
<1>3. \A s \in Stored(d) : Charge(d.recs[s]) \in Nat
  BY <1>2, ChargeType
<1>4. /\ d.pend # NoFile => d.pend \in Content
      /\ d.repl # NoFile => d.repl \in Content
  BY DEF Image, File
<1>5. d.pend # NoFile => Charge(d.pend) \in Nat
  BY <1>4, ChargeType
<1>6. Charged(d) \in Nat
  <2> DEFINE f == [s \in Stored(d) |-> Charge(d.recs[s])]
  <2>1. \A s \in Stored(d) : f[s] \in Nat
    BY <1>3
  <2>2. Charged(d) = SumFunctionOnSet(f, Stored(d))
    BY DEF Charged
  <2> HIDE DEF f
  <2> QED
    BY <1>1, <2>1, <2>2, SumRemove
<1> QED
  BY <1>1, <1>2, <1>3, <1>4, <1>5, <1>6

\* What the staged admission adds to an image, and that the sums are naturals.
LEMMA TotalFacts ==
  ASSUME NEW d \in Image
  PROVE  /\ Total(d) \in Nat /\ Items(d) \in Nat
         /\ Charged(d) <= Total(d) /\ Cardinality(Stored(d)) <= Items(d)
         /\ d.pend = NoFile => Total(d) = Charged(d) /\ Items(d) = Cardinality(Stored(d))
         /\ d.pend # NoFile => /\ Total(d) = Charged(d) + Charge(d.pend)
                               /\ Items(d) = Cardinality(Stored(d)) + 1
BY ImageFacts DEF Total, Items

\* Only records and staging files count.
LEMMA SameFilesFacts ==
  ASSUME NEW d, NEW e, SameFiles(e, d)
  PROVE  /\ Stored(e) = Stored(d) /\ Charged(e) = Charged(d)
         /\ FitsInv(d) => FitsInv(e)
<1>1. Stored(e) = Stored(d)
  BY DEF Stored, SameFiles
<1>2. Charged(e) = Charged(d)
  BY <1>1 DEF Charged, SameFiles
<1>3. \A a : HasRecord(e, a) <=> HasRecord(d, a)
  BY <1>1 DEF HasRecord, SameFiles
<1>4. Total(e) = Total(d) /\ Items(e) = Items(d)
  BY <1>1, <1>2 DEF Total, Items, SameFiles
<1> QED
  BY <1>1, <1>2, <1>3, <1>4 DEF FitsInv, SameFiles

\* Images that agree on all records but one.
AgreeExcept(d, e, s) ==
    \A t \in Seqs \ {s} : /\ (d.recs[t] = NoFile <=> e.recs[t] = NoFile)
                          /\ d.recs[t] # NoFile => Charge(d.recs[t]) = Charge(e.recs[t])

\* The charge of an image is that of one record and of the others.
LEMMA ChargedApart ==
  ASSUME NEW d \in Image, NEW e \in Image, NEW s \in Seqs, AgreeExcept(d, e, s)
  PROVE  \E r \in Nat, n \in Nat :
           /\ s \in Stored(d) => /\ Charged(d) = Charge(d.recs[s]) + r
                                 /\ Cardinality(Stored(d)) = n + 1
           /\ s \notin Stored(d) => Charged(d) = r /\ Cardinality(Stored(d)) = n
           /\ s \in Stored(e) => /\ Charged(e) = Charge(e.recs[s]) + r
                                 /\ Cardinality(Stored(e)) = n + 1
           /\ s \notin Stored(e) => Charged(e) = r /\ Cardinality(Stored(e)) = n
<1> DEFINE R == Stored(d) \ {s}
           f == [t \in Stored(d) |-> Charge(d.recs[t])]
           g == [t \in Stored(e) |-> Charge(e.recs[t])]
<1>1. Stored(e) \ {s} = R /\ \A t \in R : d.recs[t] # NoFile /\ t \in Seqs \ {s}
  BY DEF AgreeExcept, Stored
<1>2. /\ IsFiniteSet(Stored(d)) /\ IsFiniteSet(Stored(e)) /\ IsFiniteSet(R)
      /\ \A t \in Stored(d) : f[t] \in Nat
      /\ \A t \in Stored(e) : g[t] \in Nat
  BY ImageFacts, FS_Subset
<1>3. \A t \in R : f[t] = g[t] /\ f[t] \in Nat
  BY <1>1, <1>2 DEF AgreeExcept
<1>4. /\ Charged(d) = SumFunctionOnSet(f, Stored(d)) /\ Charged(e) = SumFunctionOnSet(g, Stored(e))
      /\ s \in Stored(d) => f[s] = Charge(d.recs[s])
      /\ s \in Stored(e) => g[s] = Charge(e.recs[s])
  BY DEF Charged
<1> HIDE DEF f, g
<1> DEFINE r == SumFunctionOnSet(f, R)
           n == Cardinality(R)
<1>5. r \in Nat /\ n \in Nat /\ SumFunctionOnSet(g, R) = r
  BY <1>2, <1>3, SumRemove, SumSame, FS_CardinalityType
<1>6. s \in Stored(d) => Charged(d) = Charge(d.recs[s]) + r /\ Cardinality(Stored(d)) = n + 1
  <2> HAVE s \in Stored(d)
  <2>1. SumFunctionOnSet(f, Stored(d)) = f[s] + r
    BY <1>2, SumRemove
  <2>2. Cardinality(R) = Cardinality(Stored(d)) - 1 /\ Cardinality(Stored(d)) \in Nat
    BY <1>2, FS_RemoveElement, FS_CardinalityType
  <2> QED
    BY <1>4, <2>1, <2>2
<1>7. s \in Stored(e) => Charged(e) = Charge(e.recs[s]) + r /\ Cardinality(Stored(e)) = n + 1
  <2> HAVE s \in Stored(e)
  <2>1. SumFunctionOnSet(g, Stored(e)) = g[s] + SumFunctionOnSet(g, Stored(e) \ {s})
    BY <1>2, SumRemove
  <2>2. Cardinality(Stored(e) \ {s}) = Cardinality(Stored(e)) - 1 /\ Cardinality(Stored(e)) \in Nat
    BY <1>2, FS_RemoveElement, FS_CardinalityType
  <2>3. SumFunctionOnSet(g, Stored(e) \ {s}) = r /\ Cardinality(Stored(e) \ {s}) = n
    BY <1>1, <1>5
  <2> QED
    BY <1>4, <1>5, <2>1, <2>2, <2>3
<1>8. s \notin Stored(d) => Charged(d) = r /\ Cardinality(Stored(d)) = n
  <2> HAVE s \notin Stored(d)
  <2>1. R = Stored(d)
    OBVIOUS
  <2> QED
    BY <1>4, <2>1
<1>9. s \notin Stored(e) => Charged(e) = r /\ Cardinality(Stored(e)) = n
  <2> HAVE s \notin Stored(e)
  <2>1. R = Stored(e)
    BY <1>1
  <2> QED
    BY <1>4, <1>5, <2>1
<1> HIDE DEF r, n, R
<1> QED
  BY <1>5, <1>6, <1>7, <1>8, <1>9

\* A record leaves the image.
LEMMA OneLess ==
  ASSUME NEW d \in Image, NEW e \in Image, NEW s \in Seqs, d.recs[s] # NoFile,
         \A t \in Seqs : e.recs[t] = IF t = s THEN NoFile ELSE d.recs[t]
  PROVE  /\ Charged(d) = Charged(e) + Charge(d.recs[s])
         /\ Cardinality(Stored(d)) = Cardinality(Stored(e)) + 1
         /\ Charge(d.recs[s]) \in Nat /\ Charged(e) \in Nat /\ Cardinality(Stored(e)) \in Nat
<1>1. AgreeExcept(d, e, s) /\ s \in Stored(d) /\ s \notin Stored(e)
  BY DEF AgreeExcept, Stored
<1>2. Charge(d.recs[s]) \in Nat /\ Charged(e) \in Nat /\ Cardinality(Stored(e)) \in Nat
  BY <1>1, ImageFacts
<1> QED
  BY <1>1, <1>2, ChargedApart

\* Only the staged manifest changes.
LEMMA ManifestWrittenFits ==
  ASSUME IInv, BInv, ManifestWritten PROVE BInv'
<1> USE DEF memory, running, loop, told, budget
<1>1. SameFiles(disk', disk) /\ disk \in Image /\ durable \in Image
  BY DEF ManifestWritten, SameFiles, IInv, TypeOK, Image
<1>2. durable' \in {durable, disk}
  BY DEF ManifestWritten
<1>3. /\ FitsInv(disk)' /\ FitsInv(durable)'
      /\ Charged(disk') = Charged(disk) /\ Stored(disk') = Stored(disk)
  BY <1>1, <1>2, SameFilesFacts DEF BInv
<1>4. /\ bytes \in Int /\ count \in Int /\ Charged(disk) \in Nat /\ Cardinality(Stored(disk)) \in Nat
      /\ cur \in Admissions /\ PutCost[cur] \in Nat /\ ReadyCost[cur] \in Nat
      /\ disk'.recs = disk.recs /\ disk'.repl = disk.repl
  BY <1>1, ImageFacts, SpoolAssumption DEF BInv, CounterInv, IInv, TypeOK, SameFiles
<1>5. CounterInv'
  BY <1>3, <1>4 DEF ManifestWritten, BInv, CounterInv, Counted, IInv, IndexInv, PutInv,
     OpenInv, ActivateInv, RemovalInv, LoopInv, TypeOK
<1>6. ReadyInv'
  BY <1>1, <1>4 DEF ManifestWritten, BInv, ReadyInv, Up, Counted, IInv, IndexInv, PutInv,
     OpenInv, ActivateInv, RemovalInv, LoopInv, TypeOK
<1>7. RefusalJustified'
  BY DEF ManifestWritten, Up, RefusalJustified
<1> QED
  BY <1>3, <1>5, <1>6, <1>7 DEF BInv

\* Only the manifest changes.
LEMMA ManifestRenamedFits ==
  ASSUME IInv, BInv, ManifestRenamed PROVE BInv'
<1> USE DEF memory, running, loop, told, budget
<1>1. SameFiles(disk', disk) /\ disk \in Image /\ durable \in Image
  BY DEF ManifestRenamed, SameFiles, IInv, TypeOK, Image
<1>2. durable' \in {durable, disk}
  BY DEF ManifestRenamed
<1>3. /\ FitsInv(disk)' /\ FitsInv(durable)'
      /\ Charged(disk') = Charged(disk) /\ Stored(disk') = Stored(disk)
  BY <1>1, <1>2, SameFilesFacts DEF BInv
<1>4. /\ bytes \in Int /\ count \in Int /\ Charged(disk) \in Nat /\ Cardinality(Stored(disk)) \in Nat
      /\ cur \in Admissions /\ PutCost[cur] \in Nat /\ ReadyCost[cur] \in Nat
      /\ disk'.recs = disk.recs /\ disk'.repl = disk.repl
  BY <1>1, ImageFacts, SpoolAssumption DEF BInv, CounterInv, IInv, TypeOK, SameFiles
<1>5. CounterInv'
  BY <1>3, <1>4 DEF ManifestRenamed, BInv, CounterInv, Counted, IInv, IndexInv, PutInv,
     OpenInv, ActivateInv, RemovalInv, LoopInv, TypeOK
<1>6. ReadyInv'
  BY <1>1, <1>4 DEF ManifestRenamed, BInv, ReadyInv, Up, Counted, IInv, IndexInv, PutInv,
     OpenInv, ActivateInv, RemovalInv, LoopInv, TypeOK
<1>7. RefusalJustified'
  BY DEF ManifestRenamed, Up, RefusalJustified
<1> QED
  BY <1>3, <1>5, <1>6, <1>7 DEF BInv

\* An identity that is held changes nothing.
LEMMA PutExistingFits ==
  ASSUME IInv, BInv, NEW a \in Admissions, PutExisting(a) PROVE BInv'
<1> USE DEF memory, running, loop, told, budget
<1>1. SameFiles(disk', disk) /\ disk \in Image /\ durable \in Image
  BY DEF PutExisting, Idle, SameFiles, IInv, TypeOK, Image
<1>2. durable' \in {durable, disk}
  BY DEF PutExisting, Idle
<1>3. /\ FitsInv(disk)' /\ FitsInv(durable)'
      /\ Charged(disk') = Charged(disk) /\ Stored(disk') = Stored(disk)
  BY <1>1, <1>2, SameFilesFacts DEF BInv
<1>4. /\ bytes \in Int /\ count \in Int /\ Charged(disk) \in Nat /\ Cardinality(Stored(disk)) \in Nat
      /\ cur \in Admissions /\ PutCost[cur] \in Nat /\ ReadyCost[cur] \in Nat
      /\ disk'.recs = disk.recs /\ disk'.repl = disk.repl
  BY <1>1, ImageFacts, SpoolAssumption DEF BInv, CounterInv, IInv, TypeOK, SameFiles
<1>5. CounterInv'
  BY <1>3, <1>4 DEF PutExisting, Idle, BInv, CounterInv, Counted
<1>6. ReadyInv'
  BY <1>1, <1>4 DEF PutExisting, Idle, BInv, ReadyInv, Up, Counted
<1>7. RefusalJustified'
  BY DEF PutExisting, Idle, Up, RefusalJustified
<1> QED
  BY <1>3, <1>5, <1>6, <1>7 DEF BInv

\* Fits has compared the counters with the limits.
LEMMA PutBeginFits ==
  ASSUME IInv, BInv, NEW a \in Admissions, PutBegin(a) PROVE BInv'
<1> USE DEF memory, running, loop, told, budget
<1>1. SameFiles(disk', disk) /\ disk \in Image /\ durable \in Image
  BY DEF PutBegin, Idle, Fits, SameFiles, IInv, TypeOK, Image
<1>2. durable' \in {durable, disk}
  BY DEF PutBegin, Idle, Fits
<1>3. /\ FitsInv(disk)' /\ FitsInv(durable)'
      /\ Charged(disk') = Charged(disk) /\ Stored(disk') = Stored(disk)
  BY <1>1, <1>2, SameFilesFacts DEF BInv
<1>4. /\ bytes \in Int /\ count \in Int /\ Charged(disk) \in Nat /\ Cardinality(Stored(disk)) \in Nat
      /\ cur \in Admissions /\ PutCost[cur] \in Nat /\ ReadyCost[cur] \in Nat
      /\ disk'.recs = disk.recs /\ disk'.repl = disk.repl
  BY <1>1, ImageFacts, SpoolAssumption DEF BInv, CounterInv, IInv, TypeOK, SameFiles
<1>a. PutCost[a] \in Nat /\ MaxBytes \in Nat /\ MaxItems \in Nat
  BY SpoolAssumption
<1>5. CounterInv'
  BY <1>3, <1>4, <1>a DEF PutBegin, Idle, Fits, BInv, CounterInv, Counted
<1>6. ReadyInv'
  BY <1>1, <1>4, <1>a DEF PutBegin, Idle, Fits, BInv, ReadyInv, Up, Counted, IInv, LoopInv
<1>7. RefusalJustified'
  BY DEF PutBegin, Idle, Fits, Up, RefusalJustified
<1> QED
  BY <1>3, <1>5, <1>6, <1>7 DEF BInv

\* The counters grow by the record that was stored.
LEMMA PutReturnFits ==
  ASSUME IInv, BInv, PutReturn PROVE BInv'
<1> USE DEF memory, running, loop, told, budget
<1>1. SameFiles(disk', disk) /\ disk \in Image /\ durable \in Image
  BY DEF PutReturn, SameFiles, IInv, TypeOK, Image
<1>2. durable' \in {durable, disk}
  BY DEF PutReturn
<1>3. /\ FitsInv(disk)' /\ FitsInv(durable)'
      /\ Charged(disk') = Charged(disk) /\ Stored(disk') = Stored(disk)
  BY <1>1, <1>2, SameFilesFacts DEF BInv
<1>4. /\ bytes \in Int /\ count \in Int /\ Charged(disk) \in Nat /\ Cardinality(Stored(disk)) \in Nat
      /\ cur \in Admissions /\ PutCost[cur] \in Nat /\ ReadyCost[cur] \in Nat
      /\ disk'.recs = disk.recs /\ disk'.repl = disk.repl
  BY <1>1, ImageFacts, SpoolAssumption DEF BInv, CounterInv, IInv, TypeOK, SameFiles
<1>a. /\ op = "put" /\ ~closed /\ next = seq + 1 /\ seq \in Nat /\ \A s \in ready : s \in Nat
  BY DEF PutReturn, IInv, PutInv, TypeOK, Seqs
<1>5. CounterInv'
  BY <1>3, <1>4 DEF PutReturn, BInv, CounterInv, Counted, IInv, IndexInv, PutInv, OpenInv,
     ActivateInv, RemovalInv, LoopInv, TypeOK
<1>6. ReadyInv'
  BY <1>1, <1>4, <1>a DEF PutReturn, BInv, ReadyInv, Up, Counted
<1>7. RefusalJustified'
  BY DEF PutReturn, Up, RefusalJustified
<1> QED
  BY <1>3, <1>5, <1>6, <1>7 DEF BInv

\* The spool closes.
LEMMA ActivateBlockedFits ==
  ASSUME IInv, BInv, NEW a \in Admissions, ActivateBlocked(a) PROVE BInv'
<1> USE DEF memory, running, loop, told, budget
<1>1. SameFiles(disk', disk) /\ disk \in Image /\ durable \in Image
  BY DEF ActivateBlocked, Idle, SameFiles, IInv, TypeOK, Image
<1>2. durable' \in {durable, disk}
  BY DEF ActivateBlocked, Idle
<1>3. /\ FitsInv(disk)' /\ FitsInv(durable)'
      /\ Charged(disk') = Charged(disk) /\ Stored(disk') = Stored(disk)
  BY <1>1, <1>2, SameFilesFacts DEF BInv
<1>4. /\ bytes \in Int /\ count \in Int /\ Charged(disk) \in Nat /\ Cardinality(Stored(disk)) \in Nat
      /\ cur \in Admissions /\ PutCost[cur] \in Nat /\ ReadyCost[cur] \in Nat
      /\ disk'.recs = disk.recs /\ disk'.repl = disk.repl
  BY <1>1, ImageFacts, SpoolAssumption DEF BInv, CounterInv, IInv, TypeOK, SameFiles
<1>5. CounterInv'
  BY <1>3, <1>4 DEF ActivateBlocked, Idle, BInv, CounterInv, Counted
<1>6. ReadyInv'
  BY <1>1, <1>4 DEF ActivateBlocked, Idle, BInv, ReadyInv, Up, Counted
<1>7. RefusalJustified'
  BY DEF ActivateBlocked, Idle, Up, RefusalJustified
<1> QED
  BY <1>3, <1>5, <1>6, <1>7 DEF BInv

\* q.names gets a number that is stored as ready.
LEMMA ActivateReturnFits ==
  ASSUME IInv, BInv, ActivateReturn PROVE BInv'
<1> USE DEF memory, running, loop, told, budget
<1>1. SameFiles(disk', disk) /\ disk \in Image /\ durable \in Image
  BY DEF ActivateReturn, SameFiles, IInv, TypeOK, Image
<1>2. durable' \in {durable, disk}
  BY DEF ActivateReturn
<1>3. /\ FitsInv(disk)' /\ FitsInv(durable)'
      /\ Charged(disk') = Charged(disk) /\ Stored(disk') = Stored(disk)
  BY <1>1, <1>2, SameFilesFacts DEF BInv
<1>4. /\ bytes \in Int /\ count \in Int /\ Charged(disk) \in Nat /\ Cardinality(Stored(disk)) \in Nat
      /\ cur \in Admissions /\ PutCost[cur] \in Nat /\ ReadyCost[cur] \in Nat
      /\ disk'.recs = disk.recs /\ disk'.repl = disk.repl
  BY <1>1, ImageFacts, SpoolAssumption DEF BInv, CounterInv, IInv, TypeOK, SameFiles
<1>5. CounterInv'
  BY <1>3, <1>4 DEF ActivateReturn, BInv, CounterInv, Counted, IInv, IndexInv, PutInv,
     OpenInv, ActivateInv, RemovalInv, LoopInv, TypeOK
<1>6. ReadyInv'
  BY <1>1, <1>4 DEF ActivateReturn, BInv, ReadyInv, Up, Counted, IInv, IndexInv, PutInv,
     OpenInv, ActivateInv, RemovalInv, LoopInv, TypeOK
<1>7. RefusalJustified'
  BY DEF ActivateReturn, Up, RefusalJustified
<1> QED
  BY <1>3, <1>5, <1>6, <1>7 DEF BInv

\* The spool closes.
LEMMA WriteFailsFits ==
  ASSUME IInv, BInv, WriteFails PROVE BInv'
<1> USE DEF memory, running, loop, told, budget
<1>1. SameFiles(disk', disk) /\ disk \in Image /\ durable \in Image
  BY DEF WriteFails, SameFiles, IInv, TypeOK, Image
<1>2. durable' \in {durable, disk}
  BY DEF WriteFails
<1>3. /\ FitsInv(disk)' /\ FitsInv(durable)'
      /\ Charged(disk') = Charged(disk) /\ Stored(disk') = Stored(disk)
  BY <1>1, <1>2, SameFilesFacts DEF BInv
<1>4. /\ bytes \in Int /\ count \in Int /\ Charged(disk) \in Nat /\ Cardinality(Stored(disk)) \in Nat
      /\ cur \in Admissions /\ PutCost[cur] \in Nat /\ ReadyCost[cur] \in Nat
      /\ disk'.recs = disk.recs /\ disk'.repl = disk.repl
  BY <1>1, ImageFacts, SpoolAssumption DEF BInv, CounterInv, IInv, TypeOK, SameFiles
<1>5. CounterInv'
  BY <1>3, <1>4 DEF WriteFails, BInv, CounterInv, Counted
<1>6. ReadyInv'
  BY <1>1, <1>4 DEF WriteFails, BInv, ReadyInv, Up, Counted
<1>7. RefusalJustified'
  BY DEF WriteFails, Up, RefusalJustified
<1> QED
  BY <1>3, <1>5, <1>6, <1>7 DEF BInv

\* No file and no counter changes.
LEMMA NextReturnsFits ==
  ASSUME IInv, BInv, NextReturns PROVE BInv'
<1> USE DEF memory, running, loop, told, budget
<1>1. SameFiles(disk', disk) /\ disk \in Image /\ durable \in Image
  BY DEF NextReturns, Idle, SameFiles, IInv, TypeOK, Image
<1>2. durable' \in {durable, disk}
  BY DEF NextReturns, Idle
<1>3. /\ FitsInv(disk)' /\ FitsInv(durable)'
      /\ Charged(disk') = Charged(disk) /\ Stored(disk') = Stored(disk)
  BY <1>1, <1>2, SameFilesFacts DEF BInv
<1>4. /\ bytes \in Int /\ count \in Int /\ Charged(disk) \in Nat /\ Cardinality(Stored(disk)) \in Nat
      /\ cur \in Admissions /\ PutCost[cur] \in Nat /\ ReadyCost[cur] \in Nat
      /\ disk'.recs = disk.recs /\ disk'.repl = disk.repl
  BY <1>1, ImageFacts, SpoolAssumption DEF BInv, CounterInv, IInv, TypeOK, SameFiles
<1>5. CounterInv'
  BY <1>3, <1>4 DEF NextReturns, Idle, BInv, CounterInv, Counted
<1>6. ReadyInv'
  BY <1>1, <1>4 DEF NextReturns, Idle, BInv, ReadyInv, Up, Counted
<1>7. RefusalJustified'
  BY DEF NextReturns, Idle, Up, RefusalJustified
<1> QED
  BY <1>3, <1>5, <1>6, <1>7 DEF BInv

\* No file and no counter changes.
LEMMA NextWaitsFits ==
  ASSUME IInv, BInv, NextWaits PROVE BInv'
<1> USE DEF memory, running, loop, told, budget
<1>1. SameFiles(disk', disk) /\ disk \in Image /\ durable \in Image
  BY DEF NextWaits, Idle, SameFiles, IInv, TypeOK, Image
<1>2. durable' \in {durable, disk}
  BY DEF NextWaits, Idle
<1>3. /\ FitsInv(disk)' /\ FitsInv(durable)'
      /\ Charged(disk') = Charged(disk) /\ Stored(disk') = Stored(disk)
  BY <1>1, <1>2, SameFilesFacts DEF BInv
<1>4. /\ bytes \in Int /\ count \in Int /\ Charged(disk) \in Nat /\ Cardinality(Stored(disk)) \in Nat
      /\ cur \in Admissions /\ PutCost[cur] \in Nat /\ ReadyCost[cur] \in Nat
      /\ disk'.recs = disk.recs /\ disk'.repl = disk.repl
  BY <1>1, ImageFacts, SpoolAssumption DEF BInv, CounterInv, IInv, TypeOK, SameFiles
<1>5. CounterInv'
  BY <1>3, <1>4 DEF NextWaits, Idle, BInv, CounterInv, Counted
<1>6. ReadyInv'
  BY <1>1, <1>4 DEF NextWaits, Idle, BInv, ReadyInv, Up, Counted
<1>7. RefusalJustified'
  BY DEF NextWaits, Idle, Up, RefusalJustified
<1> QED
  BY <1>3, <1>5, <1>6, <1>7 DEF BInv

\* No file and no counter changes.
LEMMA NextWokenFits ==
  ASSUME IInv, BInv, NextWoken PROVE BInv'
<1> USE DEF memory, running, loop, told, budget
<1>1. SameFiles(disk', disk) /\ disk \in Image /\ durable \in Image
  BY DEF NextWoken, SameFiles, IInv, TypeOK, Image
<1>2. durable' \in {durable, disk}
  BY DEF NextWoken
<1>3. /\ FitsInv(disk)' /\ FitsInv(durable)'
      /\ Charged(disk') = Charged(disk) /\ Stored(disk') = Stored(disk)
  BY <1>1, <1>2, SameFilesFacts DEF BInv
<1>4. /\ bytes \in Int /\ count \in Int /\ Charged(disk) \in Nat /\ Cardinality(Stored(disk)) \in Nat
      /\ cur \in Admissions /\ PutCost[cur] \in Nat /\ ReadyCost[cur] \in Nat
      /\ disk'.recs = disk.recs /\ disk'.repl = disk.repl
  BY <1>1, ImageFacts, SpoolAssumption DEF BInv, CounterInv, IInv, TypeOK, SameFiles
<1>5. CounterInv'
  BY <1>3, <1>4 DEF NextWoken, BInv, CounterInv, Counted, Up
<1>6. ReadyInv'
  BY <1>1, <1>4 DEF NextWoken, BInv, ReadyInv, Up, Counted
<1>7. RefusalJustified'
  BY DEF NextWoken, Up, RefusalJustified
<1> QED
  BY <1>3, <1>5, <1>6, <1>7 DEF BInv

\* No file and no counter changes.
LEMMA NextClosedFits ==
  ASSUME IInv, BInv, NextClosed PROVE BInv'
<1> USE DEF memory, running, loop, told, budget
<1>1. SameFiles(disk', disk) /\ disk \in Image /\ durable \in Image
  BY DEF NextClosed, Idle, SameFiles, IInv, TypeOK, Image
<1>2. durable' \in {durable, disk}
  BY DEF NextClosed, Idle
<1>3. /\ FitsInv(disk)' /\ FitsInv(durable)'
      /\ Charged(disk') = Charged(disk) /\ Stored(disk') = Stored(disk)
  BY <1>1, <1>2, SameFilesFacts DEF BInv
<1>4. /\ bytes \in Int /\ count \in Int /\ Charged(disk) \in Nat /\ Cardinality(Stored(disk)) \in Nat
      /\ cur \in Admissions /\ PutCost[cur] \in Nat /\ ReadyCost[cur] \in Nat
      /\ disk'.recs = disk.recs /\ disk'.repl = disk.repl
  BY <1>1, ImageFacts, SpoolAssumption DEF BInv, CounterInv, IInv, TypeOK, SameFiles
<1>5. CounterInv'
  BY <1>3, <1>4 DEF NextClosed, Idle, BInv, CounterInv, Counted
<1>6. ReadyInv'
  BY <1>1, <1>4 DEF NextClosed, Idle, BInv, ReadyInv, Up, Counted
<1>7. RefusalJustified'
  BY DEF NextClosed, Idle, Up, RefusalJustified
<1> QED
  BY <1>3, <1>5, <1>6, <1>7 DEF BInv

\* The counters shrink by what the record was charged.
LEMMA QuarantineReturnFits ==
  ASSUME IInv, BInv, QuarantineReturn PROVE BInv'
<1> USE DEF memory, running, loop, told, budget
<1>1. SameFiles(disk', disk) /\ disk \in Image /\ durable \in Image
  BY DEF QuarantineReturn, Forget, SameFiles, IInv, TypeOK, Image
<1>2. durable' \in {durable, disk}
  BY DEF QuarantineReturn, Forget
<1>3. /\ FitsInv(disk)' /\ FitsInv(durable)'
      /\ Charged(disk') = Charged(disk) /\ Stored(disk') = Stored(disk)
  BY <1>1, <1>2, SameFilesFacts DEF BInv
<1>4. /\ bytes \in Int /\ count \in Int /\ Charged(disk) \in Nat /\ Cardinality(Stored(disk)) \in Nat
      /\ cur \in Admissions /\ PutCost[cur] \in Nat /\ ReadyCost[cur] \in Nat
      /\ disk'.recs = disk.recs /\ disk'.repl = disk.repl
  BY <1>1, ImageFacts, SpoolAssumption DEF BInv, CounterInv, IInv, TypeOK, SameFiles
<1>5. CounterInv'
  BY <1>3, <1>4 DEF QuarantineReturn, Forget, BInv, CounterInv, Counted, IInv, IndexInv,
     PutInv, OpenInv, ActivateInv, RemovalInv, LoopInv, TypeOK
<1>6. ReadyInv'
  BY <1>1, <1>4 DEF QuarantineReturn, Forget, BInv, ReadyInv, Up, Counted, IInv, IndexInv,
     PutInv, OpenInv, ActivateInv, RemovalInv, LoopInv, TypeOK
<1>7. RefusalJustified'
  BY DEF QuarantineReturn, Forget, Up, RefusalJustified
<1> QED
  BY <1>3, <1>5, <1>6, <1>7 DEF BInv

\* The counters keep the record that is gone.
LEMMA QuarantineFailsFits ==
  ASSUME IInv, BInv, QuarantineFails PROVE BInv'
<1> USE DEF memory, running, loop, told, budget
<1>1. SameFiles(disk', disk) /\ disk \in Image /\ durable \in Image
  BY DEF QuarantineFails, SameFiles, IInv, TypeOK, Image
<1>2. durable' \in {durable, disk}
  BY DEF QuarantineFails
<1>3. /\ FitsInv(disk)' /\ FitsInv(durable)'
      /\ Charged(disk') = Charged(disk) /\ Stored(disk') = Stored(disk)
  BY <1>1, <1>2, SameFilesFacts DEF BInv
<1>4. /\ bytes \in Int /\ count \in Int /\ Charged(disk) \in Nat /\ Cardinality(Stored(disk)) \in Nat
      /\ cur \in Admissions /\ PutCost[cur] \in Nat /\ ReadyCost[cur] \in Nat
      /\ disk'.recs = disk.recs /\ disk'.repl = disk.repl
  BY <1>1, ImageFacts, SpoolAssumption DEF BInv, CounterInv, IInv, TypeOK, SameFiles
<1>5. CounterInv'
  BY <1>3, <1>4 DEF QuarantineFails, BInv, CounterInv, Counted, IInv, IndexInv, PutInv,
     OpenInv, ActivateInv, RemovalInv, LoopInv, TypeOK
<1>6. ReadyInv'
  BY <1>1, <1>4 DEF QuarantineFails, BInv, ReadyInv, Up, Counted, IInv, IndexInv, PutInv,
     OpenInv, ActivateInv, RemovalInv, LoopInv, TypeOK
<1>7. RefusalJustified'
  BY DEF QuarantineFails, Up, RefusalJustified
<1> QED
  BY <1>3, <1>5, <1>6, <1>7 DEF BInv

\* No file and no counter changes.
LEMMA SendExhaustedFits ==
  ASSUME IInv, BInv, SendExhausted PROVE BInv'
<1> USE DEF memory, running, loop, told, budget
<1>1. SameFiles(disk', disk) /\ disk \in Image /\ durable \in Image
  BY DEF SendExhausted, SameFiles, IInv, TypeOK, Image
<1>2. durable' \in {durable, disk}
  BY DEF SendExhausted
<1>3. /\ FitsInv(disk)' /\ FitsInv(durable)'
      /\ Charged(disk') = Charged(disk) /\ Stored(disk') = Stored(disk)
  BY <1>1, <1>2, SameFilesFacts DEF BInv
<1>4. /\ bytes \in Int /\ count \in Int /\ Charged(disk) \in Nat /\ Cardinality(Stored(disk)) \in Nat
      /\ cur \in Admissions /\ PutCost[cur] \in Nat /\ ReadyCost[cur] \in Nat
      /\ disk'.recs = disk.recs /\ disk'.repl = disk.repl
  BY <1>1, ImageFacts, SpoolAssumption DEF BInv, CounterInv, IInv, TypeOK, SameFiles
<1>5. CounterInv'
  BY <1>3, <1>4 DEF SendExhausted, BInv, CounterInv, Counted, Up
<1>6. ReadyInv'
  BY <1>1, <1>4 DEF SendExhausted, BInv, ReadyInv, Up, Counted
<1>7. RefusalJustified'
  BY DEF SendExhausted, Up, RefusalJustified
<1> QED
  BY <1>3, <1>5, <1>6, <1>7 DEF BInv

\* No file and no counter changes.
LEMMA SendStopsFits ==
  ASSUME IInv, BInv, SendStops PROVE BInv'
<1> USE DEF memory, running, loop, told, budget
<1>1. SameFiles(disk', disk) /\ disk \in Image /\ durable \in Image
  BY DEF SendStops, SameFiles, IInv, TypeOK, Image
<1>2. durable' \in {durable, disk}
  BY DEF SendStops
<1>3. /\ FitsInv(disk)' /\ FitsInv(durable)'
      /\ Charged(disk') = Charged(disk) /\ Stored(disk') = Stored(disk)
  BY <1>1, <1>2, SameFilesFacts DEF BInv
<1>4. /\ bytes \in Int /\ count \in Int /\ Charged(disk) \in Nat /\ Cardinality(Stored(disk)) \in Nat
      /\ cur \in Admissions /\ PutCost[cur] \in Nat /\ ReadyCost[cur] \in Nat
      /\ disk'.recs = disk.recs /\ disk'.repl = disk.repl
  BY <1>1, ImageFacts, SpoolAssumption DEF BInv, CounterInv, IInv, TypeOK, SameFiles
<1>5. CounterInv'
  BY <1>3, <1>4 DEF SendStops, BInv, CounterInv, Counted, Up
<1>6. ReadyInv'
  BY <1>1, <1>4 DEF SendStops, BInv, ReadyInv, Up, Counted
<1>7. RefusalJustified'
  BY DEF SendStops, Up, RefusalJustified
<1> QED
  BY <1>3, <1>5, <1>6, <1>7 DEF BInv

\* No file and no counter changes.
LEMMA AckRefusedFits ==
  ASSUME IInv, BInv, AckRefused PROVE BInv'
<1> USE DEF memory, running, loop, told, budget
<1>1. SameFiles(disk', disk) /\ disk \in Image /\ durable \in Image
  BY DEF AckRefused, Idle, SameFiles, IInv, TypeOK, Image
<1>2. durable' \in {durable, disk}
  BY DEF AckRefused, Idle
<1>3. /\ FitsInv(disk)' /\ FitsInv(durable)'
      /\ Charged(disk') = Charged(disk) /\ Stored(disk') = Stored(disk)
  BY <1>1, <1>2, SameFilesFacts DEF BInv
<1>4. /\ bytes \in Int /\ count \in Int /\ Charged(disk) \in Nat /\ Cardinality(Stored(disk)) \in Nat
      /\ cur \in Admissions /\ PutCost[cur] \in Nat /\ ReadyCost[cur] \in Nat
      /\ disk'.recs = disk.recs /\ disk'.repl = disk.repl
  BY <1>1, ImageFacts, SpoolAssumption DEF BInv, CounterInv, IInv, TypeOK, SameFiles
<1>5. CounterInv'
  BY <1>3, <1>4 DEF AckRefused, Idle, BInv, CounterInv, Counted
<1>6. ReadyInv'
  BY <1>1, <1>4 DEF AckRefused, Idle, BInv, ReadyInv, Up, Counted
<1>7. RefusalJustified'
  BY DEF AckRefused, Idle, Up, RefusalJustified
<1> QED
  BY <1>3, <1>5, <1>6, <1>7 DEF BInv

\* The counters shrink by what the record was charged.
LEMMA AckReturnFits ==
  ASSUME IInv, BInv, AckReturn PROVE BInv'
<1> USE DEF memory, running, loop, told, budget
<1>1. SameFiles(disk', disk) /\ disk \in Image /\ durable \in Image
  BY DEF AckReturn, Forget, SameFiles, IInv, TypeOK, Image
<1>2. durable' \in {durable, disk}
  BY DEF AckReturn, Forget
<1>3. /\ FitsInv(disk)' /\ FitsInv(durable)'
      /\ Charged(disk') = Charged(disk) /\ Stored(disk') = Stored(disk)
  BY <1>1, <1>2, SameFilesFacts DEF BInv
<1>4. /\ bytes \in Int /\ count \in Int /\ Charged(disk) \in Nat /\ Cardinality(Stored(disk)) \in Nat
      /\ cur \in Admissions /\ PutCost[cur] \in Nat /\ ReadyCost[cur] \in Nat
      /\ disk'.recs = disk.recs /\ disk'.repl = disk.repl
  BY <1>1, ImageFacts, SpoolAssumption DEF BInv, CounterInv, IInv, TypeOK, SameFiles
<1>5. CounterInv'
  BY <1>3, <1>4 DEF AckReturn, Forget, BInv, CounterInv, Counted, IInv, IndexInv, PutInv,
     OpenInv, ActivateInv, RemovalInv, LoopInv, TypeOK
<1>6. ReadyInv'
  BY <1>1, <1>4 DEF AckReturn, Forget, BInv, ReadyInv, Up, Counted, IInv, IndexInv, PutInv,
     OpenInv, ActivateInv, RemovalInv, LoopInv, TypeOK
<1>7. RefusalJustified'
  BY DEF AckReturn, Forget, Up, RefusalJustified
<1> QED
  BY <1>3, <1>5, <1>6, <1>7 DEF BInv

\* The spool closes.
LEMMA AckFailsFits ==
  ASSUME IInv, BInv, AckFails PROVE BInv'
<1> USE DEF memory, running, loop, told, budget
<1>1. SameFiles(disk', disk) /\ disk \in Image /\ durable \in Image
  BY DEF AckFails, SameFiles, IInv, TypeOK, Image
<1>2. durable' \in {durable, disk}
  BY DEF AckFails
<1>3. /\ FitsInv(disk)' /\ FitsInv(durable)'
      /\ Charged(disk') = Charged(disk) /\ Stored(disk') = Stored(disk)
  BY <1>1, <1>2, SameFilesFacts DEF BInv
<1>4. /\ bytes \in Int /\ count \in Int /\ Charged(disk) \in Nat /\ Cardinality(Stored(disk)) \in Nat
      /\ cur \in Admissions /\ PutCost[cur] \in Nat /\ ReadyCost[cur] \in Nat
      /\ disk'.recs = disk.recs /\ disk'.repl = disk.repl
  BY <1>1, ImageFacts, SpoolAssumption DEF BInv, CounterInv, IInv, TypeOK, SameFiles
<1>5. CounterInv'
  BY <1>3, <1>4 DEF AckFails, BInv, CounterInv, Counted
<1>6. ReadyInv'
  BY <1>1, <1>4 DEF AckFails, BInv, ReadyInv, Up, Counted
<1>7. RefusalJustified'
  BY DEF AckFails, Up, RefusalJustified
<1> QED
  BY <1>3, <1>5, <1>6, <1>7 DEF BInv

\* The spool closes.
LEMMA CloseFits ==
  ASSUME IInv, BInv, Close PROVE BInv'
<1> USE DEF memory, running, loop, told, budget
<1>1. SameFiles(disk', disk) /\ disk \in Image /\ durable \in Image
  BY DEF Close, Idle, SameFiles, IInv, TypeOK, Image
<1>2. durable' \in {durable, disk}
  BY DEF Close, Idle
<1>3. /\ FitsInv(disk)' /\ FitsInv(durable)'
      /\ Charged(disk') = Charged(disk) /\ Stored(disk') = Stored(disk)
  BY <1>1, <1>2, SameFilesFacts DEF BInv
<1>4. /\ bytes \in Int /\ count \in Int /\ Charged(disk) \in Nat /\ Cardinality(Stored(disk)) \in Nat
      /\ cur \in Admissions /\ PutCost[cur] \in Nat /\ ReadyCost[cur] \in Nat
      /\ disk'.recs = disk.recs /\ disk'.repl = disk.repl
  BY <1>1, ImageFacts, SpoolAssumption DEF BInv, CounterInv, IInv, TypeOK, SameFiles
<1>5. CounterInv'
  BY <1>3, <1>4 DEF Close, Idle, BInv, CounterInv, Counted
<1>6. ReadyInv'
  BY <1>1, <1>4 DEF Close, Idle, BInv, ReadyInv, Up, Counted
<1>7. RefusalJustified'
  BY DEF Close, Idle, Up, RefusalJustified
<1> QED
  BY <1>3, <1>5, <1>6, <1>7 DEF BInv

\* Only the staged manifest changes.
LEMMA OpenManifestFits ==
  ASSUME IInv, BInv, OpenManifest PROVE BInv'
<1> USE DEF memory, running, loop, told, budget
<1>1. SameFiles(disk', disk) /\ disk \in Image /\ durable \in Image
  BY DEF OpenManifest, OpenStep, SameFiles, IInv, TypeOK, Image
<1>2. durable' \in {durable, disk}
  BY DEF OpenManifest, OpenStep
<1>3. /\ FitsInv(disk)' /\ FitsInv(durable)'
      /\ Charged(disk') = Charged(disk) /\ Stored(disk') = Stored(disk)
  BY <1>1, <1>2, SameFilesFacts DEF BInv
<1>4. /\ bytes \in Int /\ count \in Int /\ Charged(disk) \in Nat /\ Cardinality(Stored(disk)) \in Nat
      /\ cur \in Admissions /\ PutCost[cur] \in Nat /\ ReadyCost[cur] \in Nat
      /\ disk'.recs = disk.recs /\ disk'.repl = disk.repl
  BY <1>1, ImageFacts, SpoolAssumption DEF BInv, CounterInv, IInv, TypeOK, SameFiles
<1>5. CounterInv'
  BY <1>3, <1>4 DEF OpenManifest, OpenStep, BInv, CounterInv, Counted, IInv, IndexInv, PutInv,
     OpenInv, ActivateInv, RemovalInv, LoopInv, TypeOK
<1>6. ReadyInv'
  BY <1>1, <1>4 DEF OpenManifest, OpenStep, BInv, ReadyInv, Up, Counted, IInv, IndexInv,
     PutInv, OpenInv, ActivateInv, RemovalInv, LoopInv, TypeOK
<1>7. RefusalJustified'
  BY DEF OpenManifest, OpenStep, Up, RefusalJustified
<1> QED
  BY <1>3, <1>5, <1>6, <1>7 DEF BInv

\* The image becomes durable.
LEMMA OpenManifestSyncedFits ==
  ASSUME IInv, BInv, OpenManifestSynced PROVE BInv'
<1> USE DEF memory, running, loop, told, budget
<1>1. SameFiles(disk', disk) /\ disk \in Image /\ durable \in Image
  BY DEF OpenManifestSynced, OpenStep, SameFiles, IInv, TypeOK, Image
<1>2. durable' \in {durable, disk}
  BY DEF OpenManifestSynced, OpenStep
<1>3. /\ FitsInv(disk)' /\ FitsInv(durable)'
      /\ Charged(disk') = Charged(disk) /\ Stored(disk') = Stored(disk)
  BY <1>1, <1>2, SameFilesFacts DEF BInv
<1>4. /\ bytes \in Int /\ count \in Int /\ Charged(disk) \in Nat /\ Cardinality(Stored(disk)) \in Nat
      /\ cur \in Admissions /\ PutCost[cur] \in Nat /\ ReadyCost[cur] \in Nat
      /\ disk'.recs = disk.recs /\ disk'.repl = disk.repl
  BY <1>1, ImageFacts, SpoolAssumption DEF BInv, CounterInv, IInv, TypeOK, SameFiles
<1>5. CounterInv'
  BY <1>3, <1>4 DEF OpenManifestSynced, OpenStep, BInv, CounterInv, Counted
<1>6. ReadyInv'
  BY <1>1, <1>4 DEF OpenManifestSynced, OpenStep, BInv, ReadyInv, Up, Counted
<1>7. RefusalJustified'
  BY DEF OpenManifestSynced, OpenStep, Up, RefusalJustified
<1> QED
  BY <1>3, <1>5, <1>6, <1>7 DEF BInv

\* The image becomes durable.
LEMMA OpenPendingSyncedFits ==
  ASSUME IInv, BInv, OpenPendingSynced PROVE BInv'
<1> USE DEF memory, running, loop, told, budget
<1>1. SameFiles(disk', disk) /\ disk \in Image /\ durable \in Image
  BY DEF OpenPendingSynced, OpenStep, SameFiles, IInv, TypeOK, Image
<1>2. durable' \in {durable, disk}
  BY DEF OpenPendingSynced, OpenStep
<1>3. /\ FitsInv(disk)' /\ FitsInv(durable)'
      /\ Charged(disk') = Charged(disk) /\ Stored(disk') = Stored(disk)
  BY <1>1, <1>2, SameFilesFacts DEF BInv
<1>4. /\ bytes \in Int /\ count \in Int /\ Charged(disk) \in Nat /\ Cardinality(Stored(disk)) \in Nat
      /\ cur \in Admissions /\ PutCost[cur] \in Nat /\ ReadyCost[cur] \in Nat
      /\ disk'.recs = disk.recs /\ disk'.repl = disk.repl
  BY <1>1, ImageFacts, SpoolAssumption DEF BInv, CounterInv, IInv, TypeOK, SameFiles
<1>5. CounterInv'
  BY <1>3, <1>4 DEF OpenPendingSynced, OpenStep, BInv, CounterInv, Counted
<1>6. ReadyInv'
  BY <1>1, <1>4 DEF OpenPendingSynced, OpenStep, BInv, ReadyInv, Up, Counted
<1>7. RefusalJustified'
  BY DEF OpenPendingSynced, OpenStep, Up, RefusalJustified
<1> QED
  BY <1>3, <1>5, <1>6, <1>7 DEF BInv

\* There is nothing to activate, or the staged record is about to be renamed.
LEMMA OpenActivationFits ==
  ASSUME IInv, BInv, OpenActivation PROVE BInv'
<1> USE DEF memory, running, loop, told, budget
<1>1. SameFiles(disk', disk) /\ disk \in Image /\ durable \in Image
  BY DEF OpenActivation, OpenStep, SameFiles, IInv, TypeOK, Image
<1>2. durable' \in {durable, disk}
  BY DEF OpenActivation, OpenStep
<1>3. /\ FitsInv(disk)' /\ FitsInv(durable)'
      /\ Charged(disk') = Charged(disk) /\ Stored(disk') = Stored(disk)
  BY <1>1, <1>2, SameFilesFacts DEF BInv
<1>4. /\ bytes \in Int /\ count \in Int /\ Charged(disk) \in Nat /\ Cardinality(Stored(disk)) \in Nat
      /\ cur \in Admissions /\ PutCost[cur] \in Nat /\ ReadyCost[cur] \in Nat
      /\ disk'.recs = disk.recs /\ disk'.repl = disk.repl
  BY <1>1, ImageFacts, SpoolAssumption DEF BInv, CounterInv, IInv, TypeOK, SameFiles
<1>5. CounterInv'
  BY <1>3, <1>4 DEF OpenActivation, OpenStep, BInv, CounterInv, Counted
<1>6. ReadyInv'
  BY <1>1, <1>4 DEF OpenActivation, OpenStep, BInv, ReadyInv, Up, Counted
<1>7. RefusalJustified'
  BY DEF OpenActivation, OpenStep, Up, RefusalJustified
<1> QED
  BY <1>3, <1>5, <1>6, <1>7 DEF BInv

\* q.names gets the number of the recovered activation.
LEMMA OpenActivationSyncedFits ==
  ASSUME IInv, BInv, OpenActivationSynced PROVE BInv'
<1> USE DEF memory, running, loop, told, budget
<1>1. SameFiles(disk', disk) /\ disk \in Image /\ durable \in Image
  BY DEF OpenActivationSynced, OpenStep, SameFiles, IInv, TypeOK, Image
<1>2. durable' \in {durable, disk}
  BY DEF OpenActivationSynced, OpenStep
<1>3. /\ FitsInv(disk)' /\ FitsInv(durable)'
      /\ Charged(disk') = Charged(disk) /\ Stored(disk') = Stored(disk)
  BY <1>1, <1>2, SameFilesFacts DEF BInv
<1>4. /\ bytes \in Int /\ count \in Int /\ Charged(disk) \in Nat /\ Cardinality(Stored(disk)) \in Nat
      /\ cur \in Admissions /\ PutCost[cur] \in Nat /\ ReadyCost[cur] \in Nat
      /\ disk'.recs = disk.recs /\ disk'.repl = disk.repl
  BY <1>1, ImageFacts, SpoolAssumption DEF BInv, CounterInv, IInv, TypeOK, SameFiles
<1>a. /\ op = "open" /\ step = "async" /\ ~closed /\ seq \in Seqs /\ next = disk.man
      /\ disk.recs[seq] # NoFile
  BY DEF OpenActivationSynced, IInv, OpenInv, IndexInv
<1>b. seq < next
  BY <1>a DEF IInv, ImageInv
<1>5. CounterInv'
  BY <1>3, <1>4, <1>a, <1>b DEF OpenActivationSynced, OpenStep, BInv, CounterInv, Counted
<1>6. ReadyInv'
  BY <1>1, <1>4, <1>a, <1>b DEF OpenActivationSynced, OpenStep, BInv, ReadyInv, Up, Counted
<1>7. RefusalJustified'
  BY DEF OpenActivationSynced, OpenStep, Up, RefusalJustified
<1> QED
  BY <1>3, <1>5, <1>6, <1>7 DEF BInv

\* Nothing is left staged.
LEMMA OpenReturnFits ==
  ASSUME IInv, BInv, OpenReturn PROVE BInv'
<1> USE DEF memory, running, loop, told, budget
<1>1. SameFiles(disk', disk) /\ disk \in Image /\ durable \in Image
  BY DEF OpenReturn, SameFiles, IInv, TypeOK, Image
<1>2. durable' \in {durable, disk}
  BY DEF OpenReturn
<1>3. /\ FitsInv(disk)' /\ FitsInv(durable)'
      /\ Charged(disk') = Charged(disk) /\ Stored(disk') = Stored(disk)
  BY <1>1, <1>2, SameFilesFacts DEF BInv
<1>4. /\ bytes \in Int /\ count \in Int /\ Charged(disk) \in Nat /\ Cardinality(Stored(disk)) \in Nat
      /\ cur \in Admissions /\ PutCost[cur] \in Nat /\ ReadyCost[cur] \in Nat
      /\ disk'.recs = disk.recs /\ disk'.repl = disk.repl
  BY <1>1, ImageFacts, SpoolAssumption DEF BInv, CounterInv, IInv, TypeOK, SameFiles
<1>5. CounterInv'
  BY <1>3, <1>4 DEF OpenReturn, BInv, CounterInv, Counted
<1>6. ReadyInv'
  BY <1>1, <1>4 DEF OpenReturn, BInv, ReadyInv, Up, Counted
<1>7. RefusalJustified'
  BY DEF OpenReturn, Up, RefusalJustified
<1> QED
  BY <1>3, <1>5, <1>6, <1>7 DEF BInv

\* .pending is complete; its charge does not change.
LEMMA RecordWrittenFits ==
  ASSUME IInv, BInv, RecordWritten PROVE BInv'
<1> USE DEF memory, running, loop, told, budget
<1>1. /\ cur \in Admissions /\ disk \in Image /\ disk.pend = Rec(cur, FALSE, FALSE)
      /\ durable' = durable
  BY DEF RecordWritten, IInv, TypeOK, PutInv
<1>2. /\ disk'.recs = disk.recs /\ disk'.repl = disk.repl /\ disk'.bad = disk.bad
      /\ disk'.pend = Rec(cur, FALSE, TRUE)
  BY DEF RecordWritten, IInv, TypeOK, Image
<1>3. Stored(disk') = Stored(disk) /\ Charged(disk') = Charged(disk)
  BY <1>2 DEF Stored, Charged
<1>4. disk.pend # NoFile /\ disk'.pend # NoFile /\ Charge(disk'.pend) = Charge(disk.pend)
  <2>1. /\ Rec(cur, FALSE, FALSE) # NoFile /\ Rec(cur, FALSE, TRUE) # NoFile
        /\ Charge(Rec(cur, FALSE, TRUE)) = Charge(Rec(cur, FALSE, FALSE))
    BY <1>1, RecFacts, RecCharge
  <2> QED
    BY <1>1, <1>2, <2>1
<1>5. Total(disk') = Total(disk) /\ Items(disk') = Items(disk)
  BY <1>3, <1>4 DEF Total, Items
<1>6. \A a : HasRecord(disk', a) <=> HasRecord(disk, a)
  BY <1>2, <1>3 DEF HasRecord
<1>7. FitsInv(disk)' /\ FitsInv(durable)'
  BY <1>1, <1>2, <1>5, <1>6 DEF BInv, FitsInv
<1>8. CounterInv'
  BY <1>3 DEF RecordWritten, BInv, CounterInv, Counted
<1>9. ReadyInv'
  BY <1>2 DEF RecordWritten, BInv, ReadyInv, Up, Counted
<1>10. RefusalJustified'
  BY DEF RecordWritten, RefusalJustified
<1> QED
  BY <1>7, <1>8, <1>9, <1>10 DEF BInv

\* The staged record is stored: the total stays as it is.
LEMMA RecordRenamedFits ==
  ASSUME IInv, IInv', BInv, RecordRenamed PROVE BInv'
<1> USE DEF memory, running, loop, told, budget
<1>1. /\ disk \in Image /\ disk' \in Image /\ durable' = durable /\ cur \in Admissions
      /\ bytes \in Int /\ count \in Int
  BY DEF RecordRenamed, IInv, TypeOK, BInv, CounterInv
<1>2. disk.pend # NoFile /\ seq \in Seqs /\ disk.recs[seq] = NoFile
  <2>1. CASE op = "put"
    BY <2>1, <1>1, RecFacts DEF RecordRenamed, IInv, PutInv
  <2>2. CASE op = "open"
    <3>1. disk.pend # NoFile /\ seq = disk.man - 1
      BY <2>2 DEF RecordRenamed, IInv, OpenInv
    <3>2. disk.man \in Nat /\ disk.man > 1 /\ disk.man <= MaxSeq + 1 /\ disk.recs[disk.man - 1] = NoFile
      BY <1>1, <3>1 DEF IInv, ImageInv, Image
    <3> QED
      BY <3>1, <3>2, SpoolAssumption DEF Seqs
  <2> QED
    BY <2>1, <2>2 DEF RecordRenamed
<1>3. /\ disk'.recs = [disk.recs EXCEPT ![seq] = disk.pend] /\ disk.recs \in [Seqs -> File]
      /\ disk'.repl = disk.repl /\ disk'.bad = disk.bad /\ disk'.pend = NoFile
  BY DEF RecordRenamed, IInv, TypeOK, Image
<1>4. /\ \A t \in Seqs : disk.recs[t] = IF t = seq THEN NoFile ELSE disk'.recs[t]
      /\ disk'.recs[seq] = disk.pend
  BY <1>2, <1>3
<1>5. /\ Charged(disk') = Charged(disk) + Charge(disk.pend)
      /\ Cardinality(Stored(disk')) = Cardinality(Stored(disk)) + 1
      /\ Charge(disk.pend) \in Nat /\ Charged(disk) \in Nat /\ Cardinality(Stored(disk)) \in Nat
  BY <1>1, <1>2, <1>4, OneLess
<1>6. Total(disk') = Total(disk) /\ Items(disk') = Items(disk)
  BY <1>1, <1>2, <1>3, <1>5, TotalFacts
<1>7. \A a : HasRecord(disk, a) => HasRecord(disk', a)
  BY <1>2, <1>4 DEF HasRecord, Stored
<1>8. FitsInv(disk)' /\ FitsInv(durable)'
  BY <1>1, <1>3, <1>6, <1>7 DEF BInv, FitsInv
<1>9. CounterInv'
  <2>1. CASE op = "put"
    <3>1. Charge(disk.pend) = PutCost[cur] /\ PutCost[cur] \in Nat
      BY <2>1, <1>1, RecCharge DEF RecordRenamed, IInv, PutInv
    <3> QED
      BY <2>1, <3>1, <1>1, <1>5 DEF RecordRenamed, BInv, CounterInv, Counted
  <2>2. CASE op = "open"
    BY <2>2 DEF RecordRenamed, BInv, CounterInv, Counted
  <2> QED
    BY <2>1, <2>2 DEF RecordRenamed
<1>10. ReadyInv'
  <2>1. CASE op = "put"
    <3>1. \A s \in ready : s \in Seqs /\ s < seq /\ s # seq
      BY <2>1, <1>2 DEF RecordRenamed, BInv, ReadyInv, Up, IInv, PutInv, TypeOK, Seqs
    <3> QED
      BY <2>1, <3>1, <1>3, <1>4 DEF RecordRenamed, BInv, ReadyInv, Up, Counted
  <2>2. CASE op = "open"
    BY <2>2 DEF RecordRenamed, ReadyInv, Up, Counted
  <2> QED
    BY <2>1, <2>2 DEF RecordRenamed
<1>11. RefusalJustified'
  BY DEF RecordRenamed, RefusalJustified
<1> QED
  BY <1>8, <1>9, <1>10, <1>11 DEF BInv

\* .replace.pending belongs to a stored record.
LEMMA ReplacementStaged ==
  ASSUME NEW d \in Image, NEW e, FitsInv(d), e.recs = d.recs, e.pend = d.pend, e.bad = d.bad,
         NEW a \in Admissions, HasRecord(d, a), NEW k \in BOOLEAN, e.repl = Rec(a, TRUE, k)
  PROVE  FitsInv(e) /\ Stored(e) = Stored(d) /\ Charged(e) = Charged(d)
<1>1. Stored(e) = Stored(d)
  BY DEF Stored
<1>2. Charged(e) = Charged(d)
  BY <1>1 DEF Charged
<1>3. Total(e) = Total(d) /\ Items(e) = Items(d)
  BY <1>1, <1>2 DEF Total, Items
<1>4. HasRecord(e, a)
  BY <1>1 DEF HasRecord
<1>5. e.repl.id = a /\ e.repl.ready
  <2>1. Rec(a, TRUE, k).id = a /\ Rec(a, TRUE, k).ready
    BY RecFacts
  <2> QED
    BY <2>1
<1> QED
  BY <1>1, <1>2, <1>3, <1>4, <1>5 DEF FitsInv

\* Activate stages the record that q.admissions names.
LEMMA ActivateBeginFits ==
  ASSUME IInv, BInv, NEW a \in Admissions, ActivateBegin(a) PROVE BInv'
<1> USE DEF memory, running, loop, told, budget
<1>1. disk \in Image /\ durable' = durable
  BY DEF ActivateBegin, IInv, TypeOK
<1>2. /\ disk'.recs = disk.recs /\ disk'.pend = disk.pend /\ disk'.bad = disk.bad
      /\ disk'.repl = Rec(a, TRUE, FALSE)
  BY DEF ActivateBegin, IInv, TypeOK, Image
<1>3. HasRecord(disk, a)
  <2>1. admissions[a] \in Seqs /\ disk.recs[admissions[a]] # NoFile /\ disk.recs[admissions[a]].id = a
    BY SpoolAssumption DEF ActivateBegin, Idle, Activatable, IInv, IndexInv, NoMisdirection, Up,
       TypeOK, Seqs
  <2> QED
    BY <2>1 DEF HasRecord, Stored
<1>4. FitsInv(disk)' /\ FitsInv(durable)' /\ Stored(disk') = Stored(disk) /\ Charged(disk') = Charged(disk)
  BY <1>1, <1>2, <1>3, ReplacementStaged DEF BInv
<1>5. CounterInv'
  BY <1>4 DEF ActivateBegin, Idle, BInv, CounterInv, Counted
<1>6. ReadyInv'
  BY <1>2 DEF ActivateBegin, Idle, BInv, ReadyInv, Up, Counted
<1>7. RefusalJustified'
  BY DEF ActivateBegin, RefusalJustified
<1> QED
  BY <1>4, <1>5, <1>6, <1>7 DEF BInv

\* .replace.pending is complete.
LEMMA ReplacementWrittenFits ==
  ASSUME IInv, BInv, ReplacementWritten PROVE BInv'
<1> USE DEF memory, running, loop, told, budget
<1>1. disk \in Image /\ durable' = durable /\ cur \in Admissions
  BY DEF ReplacementWritten, IInv, TypeOK
<1>2. /\ disk'.recs = disk.recs /\ disk'.pend = disk.pend /\ disk'.bad = disk.bad
      /\ disk'.repl = Rec(cur, TRUE, TRUE)
  BY DEF ReplacementWritten, IInv, TypeOK, Image
<1>3. HasRecord(disk, cur)
  BY DEF ReplacementWritten, IInv, ActivateInv, HasRecord, Stored
<1>4. FitsInv(disk)' /\ FitsInv(durable)' /\ Stored(disk') = Stored(disk) /\ Charged(disk') = Charged(disk)
  BY <1>1, <1>2, <1>3, ReplacementStaged DEF BInv
<1>5. CounterInv'
  BY <1>4 DEF ReplacementWritten, BInv, CounterInv, Counted
<1>6. ReadyInv'
  BY <1>2 DEF ReplacementWritten, BInv, ReadyInv, Up, Counted
<1>7. RefusalJustified'
  BY DEF ReplacementWritten, RefusalJustified
<1> QED
  BY <1>4, <1>5, <1>6, <1>7 DEF BInv

\* The ready form of a record is charged no more than the form it replaces.
LEMMA ReplacementRenamedFits ==
  ASSUME IInv, IInv', BInv, ReplacementRenamed PROVE BInv'
<1> USE DEF memory, running, loop, told, budget
<1>1. /\ disk \in Image /\ disk' \in Image /\ durable' = durable
      /\ bytes \in Int /\ count \in Int
  BY DEF ReplacementRenamed, IInv, TypeOK, BInv, CounterInv
<1>2. /\ disk.repl # NoFile /\ disk.repl.ready /\ disk.repl.id = cur
      /\ seq \in Seqs /\ disk.recs[seq] # NoFile /\ disk.recs[seq].id = cur
  <2>1. CASE op = "activate"
    <3>1. /\ disk.repl = Rec(cur, TRUE, TRUE) /\ cur \in Admissions
          /\ seq \in Seqs /\ disk.recs[seq] # NoFile /\ disk.recs[seq].id = cur
      BY <2>1 DEF ReplacementRenamed, IInv, ActivateInv, TypeOK
    <3>2. /\ Rec(cur, TRUE, TRUE) # NoFile /\ Rec(cur, TRUE, TRUE).ready
          /\ Rec(cur, TRUE, TRUE).id = cur
      BY <3>1, RecFacts
    <3> QED
      BY <3>1, <3>2
  <2>2. CASE op = "open"
    BY <2>2 DEF ReplacementRenamed, IInv, OpenInv
  <2> QED
    BY <2>1, <2>2 DEF ReplacementRenamed
<1>3. /\ disk'.recs = [disk.recs EXCEPT ![seq] = disk.repl] /\ disk.recs \in [Seqs -> File]
      /\ disk'.repl = NoFile /\ disk'.bad = disk.bad /\ disk'.pend = disk.pend
  BY DEF ReplacementRenamed, IInv, TypeOK, Image
<1>4. /\ \A t \in Seqs : disk'.recs[t] = IF t = seq THEN disk.repl ELSE disk.recs[t]
      /\ Stored(disk') = Stored(disk) /\ seq \in Stored(disk)
  BY <1>2, <1>3 DEF Stored
<1>5. Charge(disk.repl) <= Charge(disk.recs[seq]) /\ Charge(disk.repl) \in Nat /\ Charge(disk.recs[seq]) \in Nat
  <2>1. disk.repl \in Content /\ disk.recs[seq] \in Content
    BY <1>1, <1>2, <1>4, ImageFacts
  <2> QED
    BY <1>2, <2>1, ChargeType
<1>6. Charged(disk') <= Charged(disk) /\ Charged(disk) \in Nat /\ Charged(disk') \in Nat
  <2>1. AgreeExcept(disk, disk', seq) /\ disk'.recs[seq] = disk.repl
    BY <1>2, <1>4 DEF AgreeExcept
  <2>2. PICK r \in Nat : Charged(disk) = Charge(disk.recs[seq]) + r /\ Charged(disk') = Charge(disk.repl) + r
    BY <1>1, <1>2, <1>4, <2>1, ChargedApart
  <2> QED
    BY <1>5, <2>2
<1>7. /\ Total(disk') <= Total(disk) /\ Items(disk') = Items(disk)
      /\ Total(disk') \in Nat /\ Total(disk) \in Nat
  BY <1>1, <1>3, <1>4, <1>6, TotalFacts, ImageFacts DEF Items
<1>8. FitsInv(disk)' /\ FitsInv(durable)'
  BY <1>1, <1>3, <1>7, SpoolAssumption DEF BInv, FitsInv
<1>9. CounterInv'
  <2>1. op \in {"activate", "open"} /\ op' = op /\ step' \in {"sync", "async"} /\ (op = "open" => Counted)
    BY DEF ReplacementRenamed, Counted
  <2> QED
    BY <1>1, <1>4, <1>6, <2>1 DEF ReplacementRenamed, BInv, CounterInv, Counted
<1>10. ReadyInv'
  <2>1. op \in {"activate", "open"} /\ op' = op /\ step' \in {"sync", "async"} /\ (Up' \/ Counted' => Up \/ Counted)
    BY DEF ReplacementRenamed, Counted, Up
  <2>2. \A s \in ready : s \in Seqs
    BY DEF IInv, TypeOK
  <2> QED
    BY <1>2, <1>3, <1>4, <2>1, <2>2 DEF ReplacementRenamed, BInv, ReadyInv
<1>11. RefusalJustified'
  BY DEF ReplacementRenamed, RefusalJustified
<1> QED
  BY <1>8, <1>9, <1>10, <1>11 DEF BInv

\* .pending is created for an admission that Fits has let in.
LEMMA PutReservedFits ==
  ASSUME IInv, IInv', BInv, PutReserved PROVE BInv'
<1> USE DEF memory, running, loop, told, budget
<1>1. /\ disk \in Image /\ disk' \in Image /\ durable' = disk /\ cur \in Admissions
      /\ bytes \in Int /\ count \in Int /\ op = "put" /\ step = "msync"
  BY DEF PutReserved, IInv, TypeOK, BInv, CounterInv
<1>2. /\ disk'.recs = disk.recs /\ disk'.repl = disk.repl /\ disk'.bad = disk.bad
      /\ disk'.pend = Rec(cur, FALSE, FALSE)
  BY DEF PutReserved, IInv, TypeOK, Image
<1>3. /\ disk'.pend # NoFile /\ Charge(disk'.pend) = PutCost[cur] /\ PutCost[cur] \in Nat
  <2>1. /\ Rec(cur, FALSE, FALSE) # NoFile /\ Charge(Rec(cur, FALSE, FALSE)) = PutCost[cur]
        /\ PutCost[cur] \in Nat
    BY <1>1, RecFacts, RecCharge
  <2> QED
    BY <1>2, <2>1
<1>4. /\ Stored(disk') = Stored(disk) /\ Charged(disk') = Charged(disk)
      /\ Charged(disk) \in Nat /\ Cardinality(Stored(disk)) \in Nat
  <2>1. Stored(disk') = Stored(disk)
    BY <1>2 DEF Stored
  <2> QED
    BY <1>1, <1>2, <2>1, ImageFacts DEF Charged
<1>5. /\ bytes + PutCost[cur] <= MaxBytes /\ count + 1 <= MaxItems
      /\ bytes >= Charged(disk) /\ count >= Cardinality(Stored(disk))
  BY <1>1 DEF BInv, CounterInv
<1>6. Total(disk') <= MaxBytes /\ Items(disk') <= MaxItems
  BY <1>1, <1>3, <1>4, <1>5, TotalFacts, SpoolAssumption
<1>7. \A a : HasRecord(disk', a) <=> HasRecord(disk, a)
  BY <1>2, <1>4 DEF HasRecord
<1>8. FitsInv(disk)' /\ FitsInv(durable)'
  BY <1>1, <1>2, <1>6, <1>7 DEF BInv, FitsInv
<1>9. CounterInv'
  BY <1>1, <1>4, <1>5 DEF PutReserved, BInv, CounterInv, Counted
<1>10. ReadyInv'
  BY <1>1, <1>2 DEF PutReserved, BInv, ReadyInv, Up, Counted
<1>11. RefusalJustified'
  BY DEF PutReserved, RefusalJustified
<1> QED
  BY <1>8, <1>9, <1>10, <1>11 DEF BInv

\* A record leaves an image: it still fits, unless its activation was staged.
LEMMA RecordGone ==
  ASSUME NEW d \in Image, NEW e \in Image, NEW s \in Seqs, d.recs[s] # NoFile, FitsInv(d),
         \A t \in Seqs : e.recs[t] = IF t = s THEN NoFile ELSE d.recs[t],
         e.pend = d.pend, e.repl = d.repl, e.repl = NoFile \/ e.bad # {}
  PROVE  /\ FitsInv(e)
         /\ Charged(d) = Charged(e) + Charge(d.recs[s])
         /\ Cardinality(Stored(d)) = Cardinality(Stored(e)) + 1
         /\ Charge(d.recs[s]) \in Nat /\ Charged(e) \in Nat /\ Cardinality(Stored(e)) \in Nat
<1>1. /\ Charged(d) = Charged(e) + Charge(d.recs[s])
      /\ Cardinality(Stored(d)) = Cardinality(Stored(e)) + 1
      /\ Charge(d.recs[s]) \in Nat /\ Charged(e) \in Nat /\ Cardinality(Stored(e)) \in Nat
  BY OneLess
<1>2. d.pend # NoFile => Charge(d.pend) \in Nat
  BY ImageFacts
<1>3. Total(e) <= Total(d) /\ Items(e) <= Items(d)
  BY <1>1, <1>2 DEF Total, Items
<1>4. Total(e) \in Nat /\ Total(d) \in Nat /\ Items(e) \in Nat /\ Items(d) \in Nat
  BY TotalFacts
<1>5. Total(e) <= MaxBytes /\ Items(e) <= MaxItems
  BY <1>3, <1>4, SpoolAssumption DEF FitsInv
<1> QED
  BY <1>1, <1>5 DEF FitsInv

\* The head that Next moves aside was charged as a ready record.
LEMMA NextQuarantinesFits ==
  ASSUME IInv, IInv', BInv, NextQuarantines PROVE BInv'
<1> USE DEF memory, running, loop, told, budget
<1> DEFINE h == HeadOf(ready)
<1>1. /\ disk \in Image /\ disk' \in Image /\ durable' = durable /\ bytes \in Int /\ count \in Int
      /\ op = "idle" /\ ~closed /\ op' = "quarantine" /\ cur' = disk.recs[h].id
      /\ UNCHANGED <<bytes, count, closed, ready, next>>
  BY DEF NextQuarantines, Idle, HeadFile, IInv, TypeOK, BInv, CounterInv
<1>2. h \in ready /\ h \in Seqs /\ disk.recs[h] # NoFile
  BY HeadIsLeast DEF NextQuarantines, HeadFile, IInv, TypeOK
<1> HIDE DEF h
<1>3. /\ disk'.recs = [disk.recs EXCEPT ![h] = NoFile] /\ disk.recs \in [Seqs -> File]
      /\ disk'.repl = disk.repl /\ disk'.bad # {} /\ disk'.pend = disk.pend
  BY DEF NextQuarantines, Quarantine, IInv, TypeOK, Image, h
<1>4. \A t \in Seqs : disk'.recs[t] = IF t = h THEN NoFile ELSE disk.recs[t]
  BY <1>2, <1>3
<1>5. /\ FitsInv(disk') /\ Charged(disk) = Charged(disk') + Charge(disk.recs[h])
      /\ Cardinality(Stored(disk)) = Cardinality(Stored(disk')) + 1
      /\ Charged(disk') \in Nat /\ Cardinality(Stored(disk')) \in Nat /\ Charge(disk.recs[h]) \in Nat
  BY <1>1, <1>2, <1>3, <1>4, RecordGone DEF BInv
<1>6. step = "none" /\ disk.repl = NoFile /\ disk.recs[h].ready
  BY <1>1, <1>2 DEF BInv, ReadyInv, Up, IInv, LoopInv
<1>7. Charge(disk.recs[h]) = ReadyCost[cur']
  BY <1>1, <1>2, <1>6, ImageFacts, ChargeType DEF Stored
<1>8. FitsInv(disk)' /\ FitsInv(durable)'
  BY <1>1, <1>5 DEF BInv
<1>9. CounterInv'
  BY <1>1, <1>5, <1>7 DEF BInv, CounterInv, Counted
<1>10. ReadyInv'
  <2>1. \A s \in ready : s \in Seqs /\ s < next /\ (disk'.recs[s] # NoFile => disk'.recs[s].ready)
    BY <1>1, <1>4 DEF BInv, ReadyInv, Up, IInv, TypeOK
  <2>2. step' = "sync"
    BY DEF NextQuarantines
  <2> QED
    BY <1>1, <1>3, <1>6, <2>1, <2>2 DEF ReadyInv
<1>11. RefusalJustified'
  BY <1>1 DEF RefusalJustified
<1> QED
  BY <1>8, <1>9, <1>10, <1>11 DEF BInv

\* The head that Ack removes was charged as a ready record.
LEMMA AckRemovesFits ==
  ASSUME IInv, IInv', BInv, AckRemoves PROVE BInv'
<1> USE DEF memory, running, loop, told, budget
<1> DEFINE h == HeadOf(ready)
<1>1. /\ disk \in Image /\ disk' \in Image /\ durable' = durable /\ bytes \in Int /\ count \in Int
      /\ op = "idle" /\ ~closed /\ op' = "ack" /\ cur' = disk.recs[h].id /\ held = h
      /\ UNCHANGED <<bytes, count, closed, ready, next>>
  BY DEF AckRemoves, AckAllowed, Idle, HeadFile, IInv, TypeOK, BInv, CounterInv
<1>2. h \in ready /\ h \in Seqs /\ disk.recs[h] # NoFile
  BY HeadIsLeast DEF AckRemoves, AckAllowed, HeadFile, IInv, TypeOK
<1> HIDE DEF h
<1>3. /\ disk'.recs = [disk.recs EXCEPT ![h] = NoFile] /\ disk.recs \in [Seqs -> File]
      /\ disk'.repl = disk.repl /\ disk'.pend = disk.pend
  BY <1>1 DEF AckRemoves, IInv, TypeOK, Image
<1>4. \A t \in Seqs : disk'.recs[t] = IF t = h THEN NoFile ELSE disk.recs[t]
  BY <1>2, <1>3
<1>5. step = "none" /\ disk.repl = NoFile /\ disk.recs[h].ready
  BY <1>1, <1>2 DEF BInv, ReadyInv, Up, IInv, LoopInv
<1>6. /\ FitsInv(disk') /\ Charged(disk) = Charged(disk') + Charge(disk.recs[h])
      /\ Cardinality(Stored(disk)) = Cardinality(Stored(disk')) + 1
      /\ Charged(disk') \in Nat /\ Cardinality(Stored(disk')) \in Nat /\ Charge(disk.recs[h]) \in Nat
  BY <1>1, <1>2, <1>3, <1>4, <1>5, RecordGone DEF BInv
<1>7. Charge(disk.recs[h]) = ReadyCost[cur']
  BY <1>1, <1>2, <1>5, ImageFacts, ChargeType DEF Stored
<1>8. FitsInv(disk)' /\ FitsInv(durable)'
  BY <1>1, <1>6 DEF BInv
<1>9. CounterInv'
  BY <1>1, <1>6, <1>7 DEF BInv, CounterInv, Counted
<1>10. ReadyInv'
  <2>1. \A s \in ready : s \in Seqs /\ s < next /\ (disk'.recs[s] # NoFile => disk'.recs[s].ready)
    BY <1>1, <1>4 DEF BInv, ReadyInv, Up, IInv, TypeOK
  <2>2. step' = "sync"
    BY DEF AckRemoves
  <2> QED
    BY <1>1, <1>3, <1>5, <2>1, <2>2 DEF ReadyInv
<1>11. RefusalJustified'
  BY <1>1 DEF RefusalJustified
<1> QED
  BY <1>8, <1>9, <1>10, <1>11 DEF BInv

\* A record that the scan moves aside no longer counts.
LEMMA OpenQuarantinesFits ==
  ASSUME IInv, IInv', BInv, NEW s \in Seqs, OpenQuarantines(s) PROVE BInv'
<1> USE DEF memory, running, loop, told, budget
<1>1. /\ disk \in Image /\ disk' \in Image /\ durable' = disk' /\ disk.recs[s] # NoFile
      /\ op = "open" /\ step = "scan" /\ UNCHANGED <<op, step, bytes, count, closed, ready, next>>
  BY DEF OpenQuarantines, IInv, TypeOK
<1>2. /\ disk'.recs = [disk.recs EXCEPT ![s] = NoFile] /\ disk.recs \in [Seqs -> File]
      /\ disk'.repl = disk.repl /\ disk'.bad # {} /\ disk'.pend = disk.pend
  BY DEF OpenQuarantines, Quarantine, IInv, TypeOK, Image
<1>3. \A t \in Seqs : disk'.recs[t] = IF t = s THEN NoFile ELSE disk.recs[t]
  BY <1>2
<1>4. FitsInv(disk')
  BY <1>1, <1>2, <1>3, RecordGone DEF BInv
<1>5. CounterInv' /\ ReadyInv' /\ RefusalJustified'
  BY <1>1 DEF BInv, CounterInv, Counted, ReadyInv, Up, RefusalJustified
<1> QED
  BY <1>1, <1>4, <1>5 DEF BInv

\* A duplicate .pending is removed, or nothing changes.
LEMMA OpenPendingFits ==
  ASSUME IInv, IInv', BInv, OpenPending PROVE BInv'
<1> USE DEF memory, running, loop, told, budget
<1>1. /\ disk \in Image /\ disk' \in Image /\ durable' = durable
      /\ op' = "open" /\ step' \in {"scan", "rename", "sync"} /\ UNCHANGED bytes
  BY DEF OpenPending, OpenStep, IInv, TypeOK
<1>2. /\ disk'.recs = disk.recs /\ disk'.repl = disk.repl /\ disk'.bad = disk.bad
      /\ disk'.pend \in {disk.pend, NoFile}
  BY DEF OpenPending, IInv, TypeOK, Image
<1>3. /\ Stored(disk') = Stored(disk) /\ Charged(disk') = Charged(disk)
  <2>1. Stored(disk') = Stored(disk)
    BY <1>2 DEF Stored
  <2> QED
    BY <1>2, <2>1 DEF Charged
<1>4. \A a : HasRecord(disk', a) <=> HasRecord(disk, a)
  BY <1>2, <1>3 DEF HasRecord
<1>5. /\ Charged(disk) \in Nat /\ Cardinality(Stored(disk)) \in Nat
      /\ disk.pend # NoFile => Charge(disk.pend) \in Nat
  BY <1>1, ImageFacts
<1>6. Total(disk') <= MaxBytes /\ Items(disk') <= MaxItems
  BY <1>2, <1>3, <1>5, SpoolAssumption DEF BInv, FitsInv, Total, Items
<1>7. FitsInv(disk)' /\ FitsInv(durable)'
  BY <1>1, <1>2, <1>4, <1>6 DEF BInv, FitsInv
<1>8. CounterInv' /\ ReadyInv' /\ RefusalJustified'
  BY <1>1 DEF BInv, CounterInv, Counted, ReadyInv, Up, RefusalJustified
<1> QED
  BY <1>7, <1>8 DEF BInv

\* The scan counts what is stored, which fits.
LEMMA OpenScannedFits ==
  ASSUME IInv, BInv, OpenScanned PROVE BInv'
<1> USE DEF memory, running, loop, told, budget
<1>1. /\ disk \in Image /\ disk' = disk /\ durable' = durable /\ op' = "open" /\ step' = "activation"
      /\ op = "open" /\ step = "scan" /\ bytes' = Charged(disk)
      /\ count' = Cardinality(Stored(disk)) /\ next' = next
  BY DEF OpenScanned, OpenStep, IInv, TypeOK
<1>2. Charged(disk) <= MaxBytes /\ Cardinality(Stored(disk)) <= MaxItems
  BY <1>1, TotalFacts, ImageFacts, SpoolAssumption DEF BInv, FitsInv
<1>3. CounterInv'
  BY <1>1, <1>2, ImageFacts DEF OpenScanned, CounterInv, Counted, AllDecode
<1>4. ReadyInv'
  <2>1. \A s \in ready' : s \in Seqs /\ disk.recs[s] # NoFile /\ disk.recs[s].ready
    BY DEF OpenScanned, Stored
  <2>2. \A s \in ready' : s < next
    BY <1>1, <2>1 DEF IInv, ImageInv, OpenInv
  <2> QED
    BY <1>1, <2>1, <2>2 DEF ReadyInv
<1>5. RefusalJustified'
  BY <1>1 DEF RefusalJustified
<1> QED
  BY <1>1, <1>3, <1>4, <1>5 DEF BInv

\* With no record moved aside, the entry limit leaves room for the spool's own files.
LEMMA EntriesFit ==
  ASSUME IInv, BInv, disk.bad = {}
  PROVE  ~TooManyEntries
<1>1. disk \in Image
  BY DEF IInv, TypeOK
<1>2. Cardinality(Stored(disk)) <= MaxItems /\ Cardinality(Stored(disk)) \in Nat
  BY <1>1, TotalFacts, ImageFacts, SpoolAssumption DEF BInv, FitsInv
<1>3. Cardinality(disk.bad) = 0
  BY FS_EmptySet
<1> QED
  BY <1>2, <1>3, SpoolAssumption DEF TooManyEntries

\* OpenLogDisk refuses for what a crash tore or a quarantine removed, and for
\* nothing else: the other reasons for a refusal are excluded by the invariants.
LEMMA OpenRefusedFits ==
  ASSUME IInv, BInv, OpenRefused PROVE BInv'
<1> USE DEF memory, running, loop, told, budget
<1> DEFINE Excused ==
          \/ disk.manp = Torn
          \/ disk.pend # NoFile /\ ~disk.pend.ok
          \/ disk.repl # NoFile /\ ~disk.repl.ok
          \/ disk.bad # {} /\ (TooManyEntries \/ disk.repl # NoFile)
<1>1. disk \in Image /\ disk' = disk /\ durable' = durable /\ op' = "refused" /\ UNCHANGED bytes
  BY DEF OpenRefused, IInv, TypeOK
<1>2. Excused
  <2>2. CASE op = "down" /\ (disk.manp = Torn \/ (disk.manp # 0 /\ disk.manp < disk.man))
    <3>1. disk.manp \in -1..(MaxSeq + 1) /\ (disk.manp > 0 => disk.manp >= disk.man) /\ disk.man \in Nat
      BY <1>1 DEF IInv, ImageInv, Image
    <3>2. disk.manp = Torn
      BY ONLY <2>2, <3>1, SpoolAssumption DEF Torn
    <3> QED
      BY <3>2
  <2>3. CASE op = "open" /\ step = "pending" /\ PendingRefused
    <3>1. disk.pend # NoFile /\ disk.man \in Nat /\ disk.man > 1 /\ disk.recs[disk.man - 1] = NoFile
      BY <1>1, <2>3 DEF PendingRefused, IInv, ImageInv, Image
    <3>2. ~disk.pend.ok
      BY ONLY <2>3, <3>1 DEF PendingRefused, Reserved
    <3> QED
      BY <3>1, <3>2
  <2>4. CASE op = "open" /\ step = "scan" /\ (TooManyEntries \/ (AllDecode /\ DuplicateAdmission(disk)))
    <3>1. ~DuplicateAdmission(disk)
      BY DEF IInv, ImageInv, DuplicateAdmission, Stored
    <3> QED
      BY <2>4, <3>1, EntriesFit
  <2>5. CASE op = "open" /\ step = "activation" /\ ActivationRefused
    <3>1. disk.repl # NoFile /\ disk.repl.ready /\ (disk.bad = {} => HasRecord(disk, disk.repl.id))
      BY <2>5 DEF ActivationRefused, BInv, FitsInv
    <3>2. CASE ~disk.repl.ok
      BY <3>1, <3>2
    <3>3. CASE admissions[disk.repl.id] = 0
      <4>1. Indexed({})
        BY <2>5 DEF IInv, OpenInv, IndexInv
      <4>2. ~HasRecord(disk, disk.repl.id)
        BY <3>3, <4>1 DEF Indexed, HasRecord, Stored, Seqs
      <4> QED
        BY <3>1, <4>2
    <3>4. CASE admissions[disk.repl.id] # 0 /\ ~disk.recs[admissions[disk.repl.id]].ok
      <4>1. disk.repl.id \in Admissions
        BY <1>1, <3>1, ImageFacts, ChargeType
      <4>2. admissions[disk.repl.id] \in Seqs /\ disk.recs[admissions[disk.repl.id]] # NoFile
        BY <2>5, <3>4, <4>1, SpoolAssumption DEF IInv, TypeOK, OpenInv, Seqs
      <4>3. AllDecode
        BY <2>5 DEF BInv, CounterInv
      <4> QED
        BY <3>4, <4>2, <4>3 DEF AllDecode, Stored
    <3> QED
      BY <2>5, <3>1, <3>2, <3>3, <3>4 DEF ActivationRefused
  <2>6. ~(op = "open" /\ step = "budget" /\ OverBudget)
    <3> SUFFICES ASSUME op = "open", step = "budget", OverBudget PROVE FALSE
      OBVIOUS
    <3>1. bytes <= MaxBytes /\ count <= MaxItems /\ bytes \in Int /\ count \in Int
      BY DEF BInv, CounterInv, Counted, IInv, TypeOK
    <3> QED
      BY <3>1, SpoolAssumption DEF OverBudget
  <2> QED
    BY <2>2, <2>3, <2>4, <2>5, <2>6 DEF OpenRefused
<1>3. RefusalJustified'
  BY <1>1, <1>2 DEF RefusalJustified, TooManyEntries
<1>4. CounterInv' /\ ReadyInv'
  BY <1>1 DEF BInv, CounterInv, Counted, ReadyInv, Up
<1> QED
  BY <1>1, <1>3, <1>4 DEF BInv

\* Whatever image a crash leaves fits.
LEMMA CrashFits ==
  ASSUME IInv, BInv, Crash PROVE BInv'
<1>1. /\ disk' \in {disk, durable} /\ durable' = durable /\ op' = "down" /\ bytes' = 0
  BY DEF Crash
<1>2. CounterInv' /\ ReadyInv' /\ RefusalJustified'
  BY <1>1 DEF CounterInv, Counted, ReadyInv, Up, RefusalJustified
<1> QED
  BY <1>1, <1>2 DEF BInv

\* Damage changes no charge.
LEMMA DamagedFits ==
  ASSUME IInv, NEW s \in Seqs, disk.recs[s] \in Content, NEW d \in Image, FitsInv(d)
  PROVE  /\ FitsInv(Damaged(d, s)) /\ Charged(Damaged(d, s)) = Charged(d)
         /\ Stored(Damaged(d, s)) = Stored(d)
<1> DEFINE e == Damaged(d, s)
<1>1. /\ e \in Image /\ e.pend = d.pend /\ e.repl = d.repl
      /\ \A t \in Seqs :
            /\ e.recs[t] # NoFile <=> d.recs[t] # NoFile
            /\ d.recs[t] # NoFile =>
                 e.recs[t].id = d.recs[t].id /\ e.recs[t].ready = d.recs[t].ready
  BY DamagedFacts DEF IInv
<1>2. e.bad = d.bad
  BY DEF Damaged, Image
<1> HIDE DEF e
<1>3. Stored(e) = Stored(d)
  BY <1>1 DEF Stored
<1>4. \A t \in Stored(d) : Charge(e.recs[t]) = Charge(d.recs[t]) /\ e.recs[t].id = d.recs[t].id
  BY <1>1 DEF Charge, Stored
<1>5. Charged(e) = Charged(d)
  <2>1. [t \in Stored(e) |-> Charge(e.recs[t])] = [t \in Stored(d) |-> Charge(d.recs[t])]
    BY <1>3, <1>4
  <2> QED
    BY <1>3, <2>1 DEF Charged
<1>6. Total(e) = Total(d) /\ Items(e) = Items(d)
  BY <1>1, <1>3, <1>5 DEF Total, Items
<1>7. \A a : HasRecord(e, a) <=> HasRecord(d, a)
  BY <1>3, <1>4 DEF HasRecord
<1> QED
  BY <1>1, <1>2, <1>3, <1>5, <1>6, <1>7 DEF FitsInv, e

\* A damaged record is charged as before.
LEMMA DamageFits ==
  ASSUME IInv, BInv, NEW s \in Seqs, Damage(s) PROVE BInv'
<1> USE DEF memory, running, loop, told, budget
<1>1. /\ disk \in Image /\ durable \in Image /\ disk.recs[s] \in Content
      /\ disk' = Damaged(disk, s) /\ durable' = Damaged(durable, s) /\ op \in {"idle", "down"}
      /\ UNCHANGED <<op, step, bytes, count, closed, ready, next, seq, cur>>
  BY DEF Damage, IInv, TypeOK, Image, File
<1>2. FitsInv(disk') /\ FitsInv(durable') /\ Charged(disk') = Charged(disk) /\ Stored(disk') = Stored(disk)
  BY <1>1, DamagedFits DEF BInv
<1>3. /\ disk'.repl = disk.repl
      /\ \A t \in Seqs : /\ disk'.recs[t] # NoFile <=> disk.recs[t] # NoFile
                         /\ disk.recs[t] # NoFile => disk'.recs[t].ready = disk.recs[t].ready
  BY <1>1, DamagedFacts DEF IInv
<1>4. CounterInv'
  BY <1>1, <1>2 DEF BInv, CounterInv, Counted
<1>5. ReadyInv'
  <2>1. \A t \in ready : t \in Seqs
    BY DEF IInv, TypeOK
  <2>2. step = "none"
    BY <1>1 DEF IInv, LoopInv
  <2> QED
    BY <1>1, <1>3, <2>1, <2>2 DEF BInv, ReadyInv, Up, Counted
<1>6. RefusalJustified'
  BY <1>1 DEF RefusalJustified
<1> QED
  BY <1>2, <1>4, <1>5, <1>6 DEF BInv

\* The empty directory fits.
LEMMA InitFits == Init => BInv
<1> SUFFICES ASSUME Init PROVE BInv
  OBVIOUS
<1>1. /\ EmptyImage \in Image /\ EmptyImage.pend = NoFile /\ EmptyImage.repl = NoFile
      /\ \A s \in Seqs : EmptyImage.recs[s] = NoFile
  BY DEF EmptyImage, Image, File
<1>2. Stored(EmptyImage) = {}
  BY <1>1 DEF Stored
<1>3. Charged(EmptyImage) = 0
  <2> DEFINE f == [s \in Stored(EmptyImage) |-> Charge(EmptyImage.recs[s])]
  <2>1. Charged(EmptyImage) = SumFunctionOnSet(f, Stored(EmptyImage))
    BY DEF Charged
  <2> HIDE DEF f
  <2> QED
    BY <1>2, <2>1, FS_EmptySet, SumSteps
<1>4. FitsInv(EmptyImage)
  BY <1>1, <1>2, <1>3, FS_EmptySet, SpoolAssumption DEF FitsInv, Total, Items
<1>5. CounterInv /\ ReadyInv /\ RefusalJustified
  BY DEF Init, NoMemory, CounterInv, Counted, ReadyInv, Up, RefusalJustified
<1> QED
  BY <1>4, <1>5 DEF Init, BInv

\* A stuttering step changes nothing.
LEMMA StutterFits == BInv /\ UNCHANGED vars => BInv'
<1> SUFFICES ASSUME BInv, UNCHANGED vars PROVE BInv'
  OBVIOUS
<1> USE DEF vars, memory, running, loop, told, budget
<1>1. FitsInv(disk)' /\ FitsInv(durable)'
  BY DEF BInv
<1>2. CounterInv' /\ ReadyInv'
  BY DEF BInv, CounterInv, Counted, AllDecode, ReadyInv, Up
<1>3. RefusalJustified'
  BY DEF BInv, RefusalJustified, TooManyEntries
<1> QED
  BY <1>1, <1>2, <1>3 DEF BInv

\* Every step preserves BInv, given that IInv is an invariant.
LEMMA NextFits == IInv /\ IInv' /\ BInv /\ [Next]_vars => BInv'
<1> SUFFICES ASSUME IInv, IInv', BInv, [Next]_vars PROVE BInv'
  OBVIOUS
<1>1. CASE SaveManifest \/ WriteRecord \/ WriteReplacement
  BY <1>1, ManifestWrittenFits, ManifestRenamedFits, RecordWrittenFits, RecordRenamedFits,
     ReplacementWrittenFits, ReplacementRenamedFits DEF SaveManifest, WriteRecord, WriteReplacement
<1>2. CASE PutAdmission
  BY <1>2, PutExistingFits, PutBeginFits, PutReservedFits, PutReturnFits DEF PutAdmission
<1>3. CASE Activate \/ WriteFails
  BY <1>3, ActivateBeginFits, ActivateBlockedFits, ActivateReturnFits, WriteFailsFits
     DEF Activate
<1>4. CASE NextItem
  BY <1>4, NextReturnsFits, NextWaitsFits, NextWokenFits, NextClosedFits, NextQuarantinesFits,
     QuarantineReturnFits, QuarantineFailsFits DEF NextItem
<1>5. CASE Ack \/ Close
  BY <1>5, SendExhaustedFits, SendStopsFits, AckRefusedFits, AckRemovesFits, AckReturnFits,
     AckFailsFits, CloseFits DEF Ack
<1>6. CASE OpenLogDisk
  BY <1>6, OpenManifestFits, OpenManifestSyncedFits, OpenPendingFits, OpenPendingSyncedFits,
     OpenQuarantinesFits, OpenScannedFits, OpenActivationFits, OpenActivationSyncedFits,
     OpenReturnFits, OpenRefusedFits DEF OpenLogDisk
<1>7. CASE Environment
  BY <1>7, CrashFits, DamageFits DEF Environment
<1>8. CASE UNCHANGED vars
  BY <1>8, StutterFits
<1> QED
  BY <1>1, <1>2, <1>3, <1>4, <1>5, <1>6, <1>7, <1>8 DEF Next

\* BInv is an invariant of the spool.
THEOREM BudgetInductive == Spec => []BInv
<1>1. Init => BInv
  BY InitFits
<1>2. IInv /\ IInv' /\ BInv /\ [Next]_vars => BInv'
  BY NextFits
<1> QED
  BY <1>1, <1>2, Inductive, PTL DEF Spec

\* Every image a crash can leave fits the configured limits, and the counters of
\* an open spool never understate it.
THEOREM BudgetKept == Spec => []WithinBudget
<1>1. IInv /\ BInv => WithinBudget
  <2> SUFFICES ASSUME IInv, BInv PROVE WithinBudget
    OBVIOUS
  <2>1. disk \in Image /\ durable \in Image
    BY DEF IInv, TypeOK
  <2>2. ASSUME NEW d \in Image, FitsInv(d)
        PROVE  Charged(d) <= MaxBytes /\ Cardinality(Stored(d)) <= MaxItems
    BY <2>2, TotalFacts, ImageFacts, SpoolAssumption DEF FitsInv
  <2>3. \A d \in {disk, durable} : Charged(d) <= MaxBytes /\ Cardinality(Stored(d)) <= MaxItems
    BY <2>1, <2>2 DEF BInv
  <2>4. Idle /\ ~closed => bytes >= Charged(disk) /\ count >= Cardinality(Stored(disk))
    BY DEF BInv, CounterInv, Idle
  <2> QED
    BY <2>3, <2>4 DEF WithinBudget
<1> QED
  BY <1>1, Inductive, BudgetInductive, PTL

\* OpenLogDisk refuses a directory only for a torn write or a quarantined record,
\* never for where a rename was interrupted, a duplicate identity or the budget.
THEOREM RefusalsExplained == Spec => []RefusalJustified
<1>1. BInv => RefusalJustified
  BY DEF BInv
<1> QED
  BY <1>1, BudgetInductive, PTL

-----------------------------------------------------------------------------
(* The spool as a queue.  LagInv is inductive given IInv and BInv; the steps  *)
(* are sorted by what they do to the two images.                            *)

\* The records are those of before, and callers were told nothing.
Quiet ==
  /\ disk'.recs = disk.recs /\ durable' = durable
  /\ UNCHANGED <<fsynced, activated, released>>

\* The staged admission is gone, or what it was.
Staged ==
  /\ disk.man <= disk'.man
  /\ disk'.pend # NoFile =>
       disk.pend # NoFile /\ disk'.pend.id = disk.pend.id /\ disk'.man = disk.man

\* The calls that touch no file, and those that touch staging files only.
Untouched ==
  \/ (\E a \in Admissions : PutExisting(a) \/ ActivateBlocked(a)) \/ WriteFails
  \/ NextReturns \/ NextWaits \/ NextWoken \/ NextClosed \/ QuarantineFails
  \/ SendExhausted \/ SendStops \/ AckRefused \/ AckFails \/ Close
  \/ OpenScanned \/ OpenActivation \/ OpenReturn \/ OpenRefused
Staging ==
  \/ ManifestWritten \/ ManifestRenamed \/ RecordWritten \/ ReplacementWritten
  \/ (\E a \in Admissions : PutBegin(a) \/ ActivateBegin(a))
  \/ OpenManifest \/ OpenPending
\* The calls that end in the fsync of the directory.
Syncing ==
  \/ PutReserved \/ PutReturn \/ ActivateReturn \/ QuarantineReturn \/ AckReturn
  \/ OpenManifestSynced \/ OpenPendingSynced \/ OpenActivationSynced

\* A call that touches no file leaves the images alone.
LEMMA UntouchedImages ==
  ASSUME Untouched PROVE UNCHANGED <<disk, durable, fsynced, activated, released>>
<1> USE DEF memory, running, loop, told, budget
<1>1. CASE \E a \in Admissions : PutExisting(a) \/ ActivateBlocked(a)
  BY <1>1 DEF PutExisting, ActivateBlocked
<1>2. CASE WriteFails \/ NextReturns \/ NextWaits \/ NextWoken \/ NextClosed \/ QuarantineFails
  BY <1>2 DEF WriteFails, NextReturns, NextWaits, NextWoken, NextClosed, QuarantineFails
<1>3. CASE SendExhausted \/ SendStops \/ AckRefused \/ AckFails \/ Close
  BY <1>3 DEF SendExhausted, SendStops, AckRefused, AckFails, Close
<1>4. CASE OpenScanned \/ OpenActivation \/ OpenReturn \/ OpenRefused
  BY <1>4 DEF OpenScanned, OpenActivation, OpenReturn, OpenRefused
<1> QED
  BY <1>1, <1>2, <1>3, <1>4 DEF Untouched

\* A staging file is not a record.
LEMMA StagingImages ==
  ASSUME IInv, Staging PROVE Quiet /\ Staged
<1> USE DEF memory, running, loop, told, budget, Quiet, Staged
<1>1. /\ disk \in Image /\ disk.man \in Nat /\ ImageInv(disk) /\ next \in Nat
      /\ seq \in Nat /\ cur \in Admissions
  BY DEF IInv, TypeOK, Image
<1>2. CASE ManifestWritten
  BY <1>1, <1>2 DEF ManifestWritten, Image
<1>3. CASE ManifestRenamed
  <2>1. disk.pend = NoFile /\ disk.manp \in Nat /\ disk.manp >= disk.man
    <3>1. disk.manp \in Int /\ (disk.manp > 0 => disk.manp >= disk.man)
          /\ (disk.pend # NoFile => disk.manp = 0)
      BY <1>1 DEF ImageInv, Image
    <3>2. disk.manp > 0
      BY <1>1, <1>3 DEF ManifestRenamed, IInv, PutInv, OpenInv
    <3> QED
      BY <1>1, <3>1, <3>2
  <2>3. disk'.recs = disk.recs /\ disk'.man = disk.manp /\ disk'.pend = disk.pend
    BY <1>1, <1>3 DEF ManifestRenamed, Image
  <2> QED
    BY <1>1, <1>3, <2>1, <2>3 DEF ManifestRenamed
<1>4. CASE RecordWritten
  <2>1. disk.pend = Rec(cur, FALSE, FALSE)
    BY <1>4 DEF RecordWritten, IInv, PutInv
  <2>2. disk'.pend = Rec(cur, FALSE, TRUE)
    BY <1>1, <1>4 DEF RecordWritten, Image
  <2>3. Rec(cur, FALSE, TRUE).id = cur /\ Rec(cur, FALSE, FALSE).id = cur
        /\ Rec(cur, FALSE, FALSE) # NoFile
    BY <1>1, RecFacts
  <2>4. /\ disk'.recs = disk.recs /\ disk'.man = disk.man /\ durable' = durable
        /\ UNCHANGED <<fsynced, activated, released>>
    BY <1>1, <1>4 DEF RecordWritten, Image
  <2>5. disk.pend # NoFile /\ disk.pend.id = cur /\ disk'.pend.id = cur
    BY ONLY <2>1, <2>2, <2>3
  <2> QED
    BY ONLY <1>1, <2>4, <2>5 DEF Quiet, Staged
<1>5. CASE ReplacementWritten
  BY <1>1, <1>5 DEF ReplacementWritten, Image
<1>6. ASSUME NEW a \in Admissions, PutBegin(a) PROVE Quiet /\ Staged
  BY <1>1, <1>6 DEF PutBegin, Image
<1>7. ASSUME NEW a \in Admissions, ActivateBegin(a) PROVE Quiet /\ Staged
  BY <1>1, <1>7 DEF ActivateBegin, Image
<1>8. CASE OpenManifest
  BY <1>1, <1>8 DEF OpenManifest, OpenStep, Image
<1>9. CASE OpenPending
  BY <1>1, <1>9 DEF OpenPending, OpenStep, Image
<1> QED
  BY <1>2, <1>3, <1>4, <1>5, <1>6, <1>7, <1>8, <1>9 DEF Staging

\* After the fsync the durable image is what the process sees, but for the
\* .pending that PutAdmission creates next.
LEMMA SyncingImages ==
  ASSUME IInv, Syncing
  PROVE  disk'.recs = disk.recs /\ disk'.man = disk.man /\ durable' = disk
<1> USE DEF memory, running, loop, told, budget
<1>1. CASE PutReserved
  <2>1. disk \in Image
    BY DEF IInv, TypeOK
  <2> QED
    BY <1>1, <2>1 DEF PutReserved, Image
<1>2. CASE PutReturn \/ ActivateReturn \/ QuarantineReturn \/ AckReturn
  BY <1>2 DEF PutReturn, ActivateReturn, QuarantineReturn, AckReturn
<1>3. CASE OpenManifestSynced \/ OpenPendingSynced \/ OpenActivationSynced
  BY <1>3 DEF OpenManifestSynced, OpenPendingSynced, OpenActivationSynced
<1> QED
  BY <1>1, <1>2, <1>3 DEF Syncing

\* No two records of an image are of one admission, the staged one included.
Apart(d) ==
  /\ \A s, t \in Seqs : d.recs[s] # NoFile /\ d.recs[t] # NoFile =>
       (s = t <=> d.recs[s].id = d.recs[t].id)
  /\ d.pend # NoFile => \A s \in Seqs : d.recs[s] # NoFile =>
       s # d.man - 1 /\ d.recs[s].id # d.pend.id

LEMMA ImagesApart == IInv => Apart(disk) /\ Apart(durable)
BY DEF IInv, ImageInv, Apart

\* An image lags behind one with the same records.
LEMMA LagsSame ==
  ASSUME NEW d, NEW e, Apart(d), e.man <= d.man, e.recs = d.recs
  PROVE  Lags(e, d)
BY DEF Lags, Apart

\* Staging, in the image that is ahead, keeps the other one behind.
LEMMA LagsStaged ==
  ASSUME NEW d \in Image, NEW e \in Image, NEW f \in Image, Lags(e, d),
         f.recs = d.recs, d.man <= f.man,
         f.pend # NoFile => d.pend # NoFile /\ f.pend.id = d.pend.id /\ f.man = d.man
  PROVE  Lags(e, f)
<1>1. d.man \in Nat /\ e.man \in Nat /\ f.man \in Nat
  BY DEF Image
<1> QED
  BY <1>1 DEF Lags

\* So does dropping a record from it.
LEMMA LagsDropped ==
  ASSUME NEW d \in Image, NEW e \in Image, NEW f \in Image, Lags(e, d), NEW s \in Seqs,
         f.recs = [d.recs EXCEPT ![s] = NoFile], f.man = d.man, f.pend = d.pend
  PROVE  Lags(e, f)
<1>1. \A t \in Seqs : f.recs[t] # NoFile => d.recs[t] # NoFile /\ f.recs[t] = d.recs[t]
  BY DEF Image
<1> QED
  BY <1>1 DEF Lags

\* Lags is kept by the steps that are sorted above.
LEMMA SortedLags ==
  ASSUME IInv, IInv', LagInv, Untouched \/ Staging \/ Syncing
  PROVE  Lags(durable, disk)'
<1>1. /\ disk \in Image /\ durable \in Image /\ disk' \in Image /\ durable' \in Image
      /\ disk.man \in Nat /\ Lags(durable, disk)
  BY DEF IInv, TypeOK, Image, LagInv
<1>2. CASE Untouched
  BY <1>1, <1>2, UntouchedImages
<1>3. CASE Staging
  <2>1. Quiet /\ Staged
    BY <1>3, StagingImages
  <2> QED
    BY <1>1, <2>1, LagsStaged DEF Quiet, Staged
<1>4. CASE Syncing
  <2>1. durable'.recs = disk'.recs /\ durable'.man <= disk'.man
    BY <1>1, <1>4, SyncingImages
  <2>2. Apart(disk')
    BY DEF IInv, ImageInv, Apart
  <2> QED
    BY <2>1, <2>2, LagsSame
<1> QED
  BY <1>2, <1>3, <1>4

\* Calls that touch no file keep NamesInv: q.names changes at the end of a scan,
\* which reads it from the directory.
LEMMA UntouchedNames ==
  ASSUME IInv, BInv, LagInv, Untouched PROVE NamesInv'
<1> USE DEF memory, running, loop, told, budget
<1>1. disk' = disk /\ NamesInv
  BY UntouchedImages DEF LagInv
<1>2. CASE \E a \in Admissions : PutExisting(a) \/ ActivateBlocked(a)
  BY <1>1, <1>2 DEF PutExisting, ActivateBlocked, NamesInv, Up, Counted
<1>3. CASE WriteFails \/ QuarantineFails \/ AckFails \/ Close
  BY <1>1, <1>3 DEF WriteFails, QuarantineFails, AckFails, Close, NamesInv, Up, Counted, Idle,
     IInv, LoopInv
<1>4. CASE NextReturns \/ NextWaits \/ NextWoken \/ NextClosed \/ SendExhausted \/ SendStops
           \/ AckRefused
  BY <1>1, <1>4 DEF NextReturns, NextWaits, NextWoken, NextClosed, SendExhausted, SendStops,
     AckRefused, NamesInv, Up, Counted
<1>5. CASE OpenScanned
  BY <1>1, <1>5 DEF OpenScanned, OpenStep, NamesInv, Up, Counted
<1>6. CASE OpenActivation
  BY <1>1, <1>6 DEF OpenActivation, OpenStep, NamesInv, Up, Counted, ActivationRefused
<1>7. CASE OpenReturn \/ OpenRefused
  BY <1>1, <1>7 DEF OpenReturn, OpenRefused, NamesInv, Up, Counted
<1> QED
  BY <1>2, <1>3, <1>4, <1>5, <1>6, <1>7 DEF Untouched

\* Nor do staging files, though an activation begins with one.
LEMMA StagingNames ==
  ASSUME IInv, BInv, LagInv, Staging PROVE NamesInv'
<1> USE DEF memory, running, loop, told, budget
<1>1. disk'.recs = disk.recs /\ NamesInv /\ Stored(disk') = Stored(disk)
  BY StagingImages DEF Quiet, LagInv, Stored
<1>2. CASE ManifestWritten \/ ManifestRenamed \/ RecordWritten \/ ReplacementWritten
  BY <1>1, <1>2 DEF ManifestWritten, ManifestRenamed, RecordWritten, ReplacementWritten,
     NamesInv, Up, Counted
<1>3. ASSUME NEW a \in Admissions, PutBegin(a) PROVE NamesInv'
  BY <1>1, <1>3 DEF PutBegin, Idle, NamesInv, Up, Counted
<1>4. ASSUME NEW a \in Admissions, ActivateBegin(a) PROVE NamesInv'
  BY <1>1, <1>4 DEF ActivateBegin, Activatable, Idle, NamesInv, Up, Counted
<1>5. CASE OpenManifest \/ OpenPending
  BY <1>1, <1>5 DEF OpenManifest, OpenPending, OpenStep, NamesInv, Up, Counted
<1> QED
  BY <1>2, <1>3, <1>4, <1>5 DEF Staging

\* What returns with the fsync puts the activated number in q.names, and takes
\* out of it only a number whose file is gone.
LEMMA SyncingNames ==
  ASSUME IInv, BInv, LagInv, Syncing PROVE NamesInv'
<1> USE DEF memory, running, loop, told, budget
<1>1. disk'.recs = disk.recs /\ NamesInv /\ Stored(disk') = Stored(disk)
  BY SyncingImages DEF LagInv, Stored
<1>2. CASE PutReserved
  BY <1>1, <1>2 DEF PutReserved, NamesInv, Up, Counted
<1>3. CASE PutReturn
  BY <1>1, <1>3 DEF PutReturn, NamesInv, Up, Counted
<1>4. CASE ActivateReturn
  BY <1>1, <1>4 DEF ActivateReturn, NamesInv, Up, Counted
<1>5. CASE QuarantineReturn \/ AckReturn
  BY <1>1, <1>5 DEF QuarantineReturn, AckReturn, Forget, NamesInv, Up, Counted, IInv, RemovalInv,
     Stored
<1>6. CASE OpenManifestSynced \/ OpenPendingSynced \/ OpenActivationSynced
  BY <1>1, <1>6 DEF OpenManifestSynced, OpenPendingSynced, OpenActivationSynced, OpenStep,
     NamesInv, Up, Counted
<1> QED
  BY <1>2, <1>3, <1>4, <1>5, <1>6 DEF Syncing

\* A new record is new to the durable image, and not ready.
LEMMA RecordRenamedQ ==
  ASSUME IInv, IInv', BInv, LagInv, RecordRenamed PROVE LagInv'
<1> USE DEF memory, running, loop, told, budget
<1> DEFINE d == disk
           e == disk'
           p == disk.pend
<1>1. /\ d \in Image /\ durable \in Image /\ e \in Image /\ Lags(durable, d) /\ NamesInv
      /\ durable' = durable /\ d.man \in Nat /\ p \in File
  BY DEF RecordRenamed, IInv, TypeOK, LagInv, Image
<1>2. seq \in Seqs /\ p # NoFile /\ seq = d.man - 1
  <2>1. CASE op = "put"
    <3>1. p = Rec(cur, FALSE, TRUE) /\ cur \in Admissions
      BY <2>1 DEF RecordRenamed, IInv, PutInv, TypeOK
    <3>2. p # NoFile
      BY ONLY <3>1, RecFacts
    <3>3. seq \in Seqs /\ d.man = seq + 1
      BY <2>1 DEF RecordRenamed, IInv, PutInv
    <3> QED
      BY ONLY <3>2, <3>3, SpoolAssumption DEF Seqs
  <2>2. CASE op = "open"
    BY <1>1, <2>2, SpoolAssumption DEF RecordRenamed, IInv, OpenInv, ImageInv, Seqs
  <2> QED
    BY <2>1, <2>2 DEF RecordRenamed
<1>3. e.recs = [d.recs EXCEPT ![seq] = p] /\ e.man = d.man /\ e.pend = NoFile
  BY <1>1 DEF RecordRenamed, Image
<1>4. \A t \in Seqs : e.recs[t] = IF t = seq THEN p ELSE d.recs[t]
  BY <1>1, <1>3 DEF Image
<1>5. \A s \in Seqs : durable.recs[s] # NoFile => s # seq /\ durable.recs[s].id # p.id
  BY <1>1, <1>2 DEF Lags
<1>6. Lags(durable, e)
  <2> HIDE DEF d, e, p
  <2> QED
    BY <1>1, <1>3, <1>4, <1>5 DEF Lags
<1>7. op = "put" => ~p.ready
  <2> SUFFICES ASSUME op = "put" PROVE ~p.ready
    OBVIOUS
  <2>1. p = Rec(cur, FALSE, TRUE) /\ cur \in Admissions
    BY DEF RecordRenamed, IInv, PutInv, TypeOK
  <2> QED
    BY ONLY <2>1, RecFacts
<1>8. NamesInv'
  BY <1>1, <1>4, <1>7 DEF RecordRenamed, NamesInv, Up, Counted, Stored
<1> QED
  BY <1>1, <1>6, <1>8 DEF LagInv

\* The renamed replacement is of the record it replaces.
LEMMA ReplacementRenamedQ ==
  ASSUME IInv, IInv', BInv, LagInv, ReplacementRenamed PROVE LagInv'
<1> USE DEF memory, running, loop, told, budget
<1> DEFINE d == disk
           e == disk'
           r == disk.repl
<1>1. /\ d \in Image /\ durable \in Image /\ e \in Image /\ Lags(durable, d) /\ NamesInv
      /\ durable' = durable /\ cur \in Admissions
  BY DEF ReplacementRenamed, IInv, TypeOK, LagInv
<1>2. /\ seq \in Seqs /\ d.recs[seq] # NoFile /\ d.recs[seq].id = cur /\ d.recs[seq].ok
      /\ r # NoFile /\ r.id = cur /\ r.ready /\ r.ok
  <2>1. CASE op = "activate"
    <3>1. r = Rec(cur, TRUE, TRUE)
      BY <2>1 DEF ReplacementRenamed, IInv, ActivateInv
    <3> HIDE DEF r
    <3> QED
      BY <1>1, <2>1, <3>1, RecFacts DEF ReplacementRenamed, IInv, ActivateInv, NamesInv
  <2>2. CASE op = "open"
    BY <1>1, <2>2 DEF ReplacementRenamed, IInv, OpenInv, NamesInv
  <2> QED
    BY <2>1, <2>2 DEF ReplacementRenamed
<1>3. e.recs = [d.recs EXCEPT ![seq] = r] /\ e.man = d.man /\ e.pend = d.pend
  BY <1>1 DEF ReplacementRenamed, Image
<1>4. \A t \in Seqs : e.recs[t] = IF t = seq THEN r ELSE d.recs[t]
  BY <1>1, <1>3 DEF Image
<1>5. Lags(durable, e)
  <2> HIDE DEF d, e, r
  <2> QED
    BY <1>1, <1>2, <1>3, <1>4 DEF Lags
<1>6. NamesInv'
  BY <1>1, <1>2, <1>4 DEF ReplacementRenamed, NamesInv, Up, Counted, Stored
<1> QED
  BY <1>1, <1>5, <1>6 DEF LagInv

\* A record that is dropped from the directory leaves no trace in NamesInv.
LEMMA DroppedNames ==
  ASSUME LagInv, ~closed, Up, NEW s \in Seqs, disk \in Image,
         disk'.recs = [disk.recs EXCEPT ![s] = NoFile], ready' = ready,
         op \notin {"activate", "open"}, op' \notin {"activate", "open"}
  PROVE  NamesInv'
<1>1. \A t \in Seqs : disk'.recs[t] # NoFile => disk.recs[t] # NoFile /\ disk'.recs[t] = disk.recs[t]
  BY DEF Image
<1> QED
  BY <1>1 DEF LagInv, NamesInv, Stored, Counted

\* Ack drops the head.
LEMMA AckRemovesQ ==
  ASSUME IInv, IInv', BInv, LagInv, AckRemoves PROVE LagInv'
<1> USE DEF memory, running, loop, told, budget
<1>1. /\ disk \in Image /\ durable \in Image /\ disk' \in Image /\ Lags(durable, disk)
      /\ durable' = durable /\ ready \subseteq Seqs /\ held \in ready
  BY HeadIsLeast DEF AckRemoves, AckAllowed, IInv, TypeOK, LagInv
<1>2. disk'.recs = [disk.recs EXCEPT ![held] = NoFile] /\ disk'.man = disk.man
      /\ disk'.pend = disk.pend
  BY <1>1 DEF AckRemoves, Image
<1>3. Lags(durable, disk')
  BY <1>1, <1>2, LagsDropped
<1>4. NamesInv'
  BY <1>1, <1>2, DroppedNames DEF AckRemoves, AckAllowed, Idle, Up
<1> QED
  BY <1>1, <1>3, <1>4 DEF LagInv

\* Next sets the head aside.
LEMMA NextQuarantinesQ ==
  ASSUME IInv, IInv', BInv, LagInv, NextQuarantines PROVE LagInv'
<1> USE DEF memory, running, loop, told, budget
<1> DEFINE h == HeadOf(ready)
<1>1. /\ disk \in Image /\ durable \in Image /\ disk' \in Image /\ Lags(durable, disk)
      /\ durable' = durable /\ h \in Seqs
  BY HeadIsLeast DEF NextQuarantines, IInv, TypeOK, LagInv
<1>2. disk' = [disk EXCEPT !.recs[h] = NoFile, !.bad = disk.bad \cup {h}]
  BY DEF NextQuarantines, Quarantine
<1> HIDE DEF h
<1>3. disk'.recs = [disk.recs EXCEPT ![h] = NoFile] /\ disk'.man = disk.man
      /\ disk'.pend = disk.pend
  BY <1>1, <1>2 DEF Image
<1>4. Lags(durable, disk')
  BY <1>1, <1>3, LagsDropped
<1>5. NamesInv'
  BY <1>1, <1>3, DroppedNames DEF NextQuarantines, Idle, Up
<1> QED
  BY <1>1, <1>4, <1>5 DEF LagInv

\* A quarantine of the scan is fsynced at once.
LEMMA OpenQuarantinesQ ==
  ASSUME IInv, IInv', BInv, LagInv, NEW s \in Seqs, OpenQuarantines(s) PROVE LagInv'
<1> USE DEF memory, running, loop, told, budget
<1>1. durable' = disk' /\ disk' \in Image /\ disk'.man \in Nat
  BY DEF OpenQuarantines, IInv, TypeOK, Image
<1>2. Apart(disk')
  BY DEF IInv, ImageInv, Apart
<1>3. Lags(durable', disk')
  BY <1>1, <1>2, LagsSame
<1>4. NamesInv'
  BY DEF OpenQuarantines, NamesInv, Up, Counted
<1> QED
  BY <1>3, <1>4 DEF LagInv

\* A kill leaves both images, a power loss makes them one.
LEMMA CrashQ ==
  ASSUME IInv, IInv', LagInv, Crash PROVE LagInv'
<1> USE DEF memory, running, loop, told, budget
<1>1. disk' \in {disk, durable} /\ durable' = durable /\ Lags(durable, disk) /\ durable.man \in Nat
  BY DEF Crash, LagInv, IInv, TypeOK, Image
<1>2. Apart(disk')
  BY DEF IInv, ImageInv, Apart
<1>3. Lags(durable', disk')
  BY <1>1, <1>2, LagsSame
<1>4. NamesInv'
  BY DEF Crash, NamesInv, Up, Counted
<1> QED
  BY <1>3, <1>4 DEF LagInv

\* What damage does to an image: it may make record s unreadable.
LEMMA DamagedRecords ==
  ASSUME NEW d \in Image, NEW s \in Seqs, disk.recs[s] # NoFile, disk.recs[s] \in Content
  PROVE  /\ Damaged(d, s).man = d.man /\ Damaged(d, s).pend = d.pend
         /\ \A t \in Seqs : t # s => Damaged(d, s).recs[t] = d.recs[t]
         /\ d.recs[s] # disk.recs[s] => Damaged(d, s).recs[s] = d.recs[s]
         /\ d.recs[s] = disk.recs[s] =>
              /\ Damaged(d, s).recs[s] # NoFile /\ ~Damaged(d, s).recs[s].ok
              /\ Damaged(d, s).recs[s].id = d.recs[s].id
              /\ Damaged(d, s).recs[s].ready = d.recs[s].ready
<1>1. CASE d.recs[s] # disk.recs[s]
  BY <1>1 DEF Damaged
<1>2. CASE d.recs[s] = disk.recs[s]
  <2> DEFINE c == [d.recs[s] EXCEPT !.ok = FALSE]
             e == [d EXCEPT !.recs[s] = c]
  <2>1. c # NoFile /\ c.id = d.recs[s].id /\ c.ready = d.recs[s].ready /\ ~c.ok
    BY <1>2, SpoolAssumption DEF Content
  <2>2. Damaged(d, s) = e
    BY <1>2 DEF Damaged
  <2> HIDE DEF c
  <2>3. /\ e.recs = [d.recs EXCEPT ![s] = c] /\ d.recs \in [Seqs -> File]
        /\ e.man = d.man /\ e.pend = d.pend
    BY DEF Image
  <2>4. \A t \in Seqs : e.recs[t] = IF t = s THEN c ELSE d.recs[t]
    BY <2>3
  <2> HIDE DEF e
  <2> QED
    BY <1>2, <2>1, <2>2, <2>3, <2>4
<1> QED
  BY <1>1, <1>2

\* Damage that reaches the durable image reaches the directory.
LEMMA DamageQ ==
  ASSUME IInv, IInv', LagInv, NEW s \in Seqs, Damage(s) PROVE LagInv'
<1> USE DEF memory, running, loop, told, budget
<1> DEFINE d == disk
           e == durable
           f == Damaged(disk, s)
           g == Damaged(durable, s)
<1>1. /\ d \in Image /\ e \in Image /\ d.recs[s] # NoFile /\ d.recs[s] \in Content
      /\ Lags(e, d) /\ disk' = f /\ durable' = g /\ NamesInv
  BY DEF Damage, IInv, TypeOK, LagInv, Image, File
<1>2. /\ f.man = d.man /\ f.pend = d.pend /\ g.man = e.man
      /\ \A t \in Seqs : t # s => f.recs[t] = d.recs[t] /\ g.recs[t] = e.recs[t]
      /\ f.recs[s] # NoFile /\ ~f.recs[s].ok /\ f.recs[s].id = d.recs[s].id
      /\ f.recs[s].ready = d.recs[s].ready
  BY <1>1, DamagedRecords
<1>3. /\ g.recs[s] # NoFile <=> e.recs[s] # NoFile
      /\ g.recs[s] # NoFile =>
           g.recs[s].id = e.recs[s].id /\ g.recs[s].ready = e.recs[s].ready
  BY <1>1, DamagedRecords
<1> HIDE DEF d, e, f, g
<1>4. \A t \in Seqs :
        /\ f.recs[t] # NoFile <=> d.recs[t] # NoFile
        /\ g.recs[t] # NoFile <=> e.recs[t] # NoFile
        /\ f.recs[t] # NoFile => /\ f.recs[t].id = d.recs[t].id
                                 /\ f.recs[t].ready = d.recs[t].ready
                                 /\ \/ t # s /\ g.recs[t] = e.recs[t] /\ f.recs[t].ok = d.recs[t].ok
                                    \/ ~f.recs[t].ok
        /\ g.recs[t] # NoFile => g.recs[t].id = e.recs[t].id /\ g.recs[t].ready = e.recs[t].ready
  BY <1>1, <1>2, <1>3
<1>5. Lags(g, f)
  BY <1>1, <1>2, <1>4 DEF Lags
<1>6. NamesInv'
  BY <1>1, <1>4 DEF Damage, NamesInv, Up, Counted, Stored, d
<1> QED
  BY <1>1, <1>5, <1>6 DEF LagInv

\* Which of the above each disjunct of Next is.
LEMMA StepsSorted ==
  ASSUME Next
  PROVE  \/ Untouched \/ Staging \/ Syncing
         \/ RecordRenamed \/ ReplacementRenamed \/ AckRemoves \/ NextQuarantines
         \/ (\E s \in Seqs : OpenQuarantines(s)) \/ Crash \/ (\E s \in Seqs : Damage(s))
BY DEF Next, SaveManifest, WriteRecord, WriteReplacement, PutAdmission, Activate, NextItem, Ack,
   OpenLogDisk, Environment, Untouched, Staging, Syncing

\* LagInv is inductive, given the invariants of the earlier theorems.
LEMMA NextLags ==
  ASSUME IInv, IInv', BInv, LagInv, [Next]_vars PROVE LagInv'
<1>1. CASE UNCHANGED vars
  BY <1>1 DEF vars, memory, running, LagInv, NamesInv, Up, Counted, Stored
<1>2. CASE Untouched \/ Staging \/ Syncing
  BY <1>2, SortedLags, UntouchedNames, StagingNames, SyncingNames DEF LagInv
<1>3. CASE RecordRenamed \/ ReplacementRenamed \/ AckRemoves \/ NextQuarantines
  BY <1>3, RecordRenamedQ, ReplacementRenamedQ, AckRemovesQ, NextQuarantinesQ
<1>4. CASE (\E s \in Seqs : OpenQuarantines(s)) \/ Crash \/ (\E s \in Seqs : Damage(s))
  BY <1>4, OpenQuarantinesQ, CrashQ, DamageQ
<1> QED
  BY <1>1, <1>2, <1>3, <1>4, StepsSorted

\* Only PutAdmission stages a record.
LEMMA NextUnready ==
  ASSUME IInv, QInv, [Next]_vars PROVE Unready(disk)' /\ Unready(durable)'
<1> USE DEF memory, running, loop, told, budget
<1>1. disk \in Image /\ durable \in Image /\ Unready(disk) /\ Unready(durable)
  BY DEF IInv, TypeOK, QInv
<1>2. CASE disk'.pend \in {disk.pend, NoFile} /\ durable' \in {durable, disk}
  BY <1>1, <1>2 DEF Unready
<1>3. CASE UNCHANGED vars \/ Untouched
  BY <1>2, <1>3, UntouchedImages DEF vars
<1>4. CASE Staging /\ ~RecordWritten
  <2>1. disk'.pend \in {disk.pend, NoFile}
    BY <1>1, <1>4 DEF Staging, ManifestWritten, ManifestRenamed, ReplacementWritten, PutBegin,
       ActivateBegin, OpenManifest, OpenPending, Image
  <2> QED
    BY <1>2, <1>4, <2>1, StagingImages DEF Quiet
<1>5. CASE RecordWritten \/ PutReserved
  <2>1. cur \in Admissions
    BY DEF IInv, TypeOK
  <2>2. /\ disk'.pend = Rec(cur, FALSE, TRUE) \/ disk'.pend = Rec(cur, FALSE, FALSE)
        /\ durable' \in {durable, disk}
    BY <1>1, <1>5 DEF RecordWritten, PutReserved, Image
  <2>3. ~disk'.pend.ready
    BY ONLY <2>1, <2>2, RecFacts
  <2> QED
    BY <1>1, <2>2, <2>3 DEF Unready
<1>6. CASE Syncing /\ ~PutReserved
  BY <1>2, <1>6, SyncingImages DEF Syncing, PutReturn, ActivateReturn, QuarantineReturn, AckReturn,
     OpenManifestSynced, OpenPendingSynced, OpenActivationSynced
<1>7. CASE RecordRenamed \/ ReplacementRenamed \/ AckRemoves \/ NextQuarantines
  BY <1>1, <1>2, <1>7 DEF RecordRenamed, ReplacementRenamed, AckRemoves, NextQuarantines,
     Quarantine, Image
<1>8. ASSUME NEW s \in Seqs, OpenQuarantines(s) PROVE Unready(disk)' /\ Unready(durable)'
  <2>1. disk'.pend = disk.pend /\ durable' = disk'
    BY <1>1, <1>8 DEF OpenQuarantines, Quarantine, Image
  <2> QED
    BY <1>1, <2>1 DEF Unready
<1>9. CASE Crash
  BY <1>1, <1>9 DEF Crash, Unready
<1>10. ASSUME NEW s \in Seqs, Damage(s) PROVE Unready(disk)' /\ Unready(durable)'
  <2>1. disk'.pend = disk.pend /\ durable'.pend = durable.pend
    BY <1>1, <1>10, DamagedRecords DEF Damage, Image, File
  <2> QED
    BY <1>1, <2>1 DEF Unready
<1> QED
  BY <1>3, <1>4, <1>5, <1>6, <1>7, <1>8, <1>9, <1>10, StepsSorted

LEMMA InitQ == Init => QInv
<1> SUFFICES ASSUME Init PROVE QInv
  OBVIOUS
<1>1. disk = EmptyImage /\ durable = EmptyImage /\ op = "down"
  BY DEF Init
<1>2. disk.man = 0 /\ disk.pend = NoFile /\ durable = disk /\ \A s \in Seqs : disk.recs[s] = NoFile
  BY <1>1 DEF EmptyImage
<1> QED
  BY <1>1, <1>2 DEF QInv, LagInv, Lags, NamesInv, Up, Counted, Unready

\* The durable image is the directory of a moment ago, in everything a power
\* loss could show, and q.names misses no deliverable record.
THEOREM QueueInductive == Spec => []QInv
<1>1. Init => QInv
  BY InitQ
<1>2. IInv /\ IInv' /\ BInv /\ QInv /\ [Next]_vars => QInv'
  BY NextLags, NextUnready DEF QInv
<1> QED
  BY <1>1, <1>2, Inductive, BudgetInductive, PTL DEF Spec

-----------------------------------------------------------------------------
(* The refinement.  The queue's variables as functions of this module's,    *)
(* and what a record's place in the queue says about the two images.        *)

QPos == [a \in Admissions |-> QueuedAs(a)]
QReady == {a \in Admissions : HasReady(disk, a) \/ HasReady(durable, a)}
QTold == [a \in Admissions |-> Promise(a)]
QDamaged == {a \in Admissions : \E s \in Stored(disk) :
                                   disk.recs[s].id = a /\ ~disk.recs[s].ok}
QLeaving == {a \in Admissions : HasRecord(durable, a) /\ ~HasRecord(disk, a)}

\* Image d holds admission a under number s.
At(d, s, a) == d.recs[s] # NoFile /\ d.recs[s].id = a

\* The number an admission has in the queue is the one it has in the images.
Located ==
  \A a \in Admissions :
    /\ QPos[a] \in {0} \cup Seqs
    /\ \A s \in Seqs : QPos[a] = s <=> At(disk, s, a) \/ At(durable, s, a)

LEMMA HeldAt ==
  ASSUME NEW d, NEW a
  PROVE  /\ HasRecord(d, a) <=> \E s \in Seqs : At(d, s, a)
         /\ HasReady(d, a) <=> \E s \in Seqs : At(d, s, a) /\ d.recs[s].ready
BY DEF HasRecord, HasReady, Stored, At

LEMMA NumberAt ==
  ASSUME NEW d, NEW a, Apart(d), HasRecord(d, a)
  PROVE  NumberOf(d, a) \in Seqs /\ \A s \in Seqs : NumberOf(d, a) = s <=> At(d, s, a)
<1>1. NumberOf(d, a) \in Seqs /\ At(d, NumberOf(d, a), a)
  BY NumberOfType DEF Stored, At
<1> QED
  BY <1>1 DEF Apart, At

LEMMA PlacedAt ==
  ASSUME NEW d, NEW e, NEW a, Apart(d), Apart(e), Lags(e, d), NEW n,
         n = IF HasRecord(d, a) THEN NumberOf(d, a) ELSE NumberOf(e, a)
  PROVE  n \in {0} \cup Seqs /\ \A s \in Seqs : n = s <=> At(d, s, a) \/ At(e, s, a)
<1>1. 0 \notin Seqs
  BY SpoolAssumption DEF Seqs
<1>2. CASE HasRecord(d, a)
  <2>1. n \in Seqs /\ At(d, n, a) /\ \A s \in Seqs : n = s <=> At(d, s, a)
    BY <1>2, NumberAt
  <2>2. \A s \in Seqs : At(e, s, a) => s = n
    BY <2>1 DEF Lags, At
  <2> QED
    BY <2>1, <2>2
<1>3. CASE ~HasRecord(d, a) /\ HasRecord(e, a)
  BY <1>3, NumberAt, HeldAt
<1>4. CASE ~HasRecord(d, a) /\ ~HasRecord(e, a)
  BY <1>1, <1>4, HeldAt DEF NumberOf
<1> QED
  BY <1>2, <1>3, <1>4

LEMMA LocatedNow == IInv /\ QInv => Located
<1> SUFFICES ASSUME IInv, QInv, NEW a \in Admissions
             PROVE  /\ QPos[a] \in {0} \cup Seqs
                    /\ \A s \in Seqs : QPos[a] = s <=> At(disk, s, a) \/ At(durable, s, a)
  BY DEF Located
<1>1. Apart(disk) /\ Apart(durable) /\ Lags(durable, disk)
  BY ImagesApart DEF QInv, LagInv
<1>2. QPos[a] = IF HasRecord(disk, a) THEN NumberOf(disk, a) ELSE NumberOf(durable, a)
  BY DEF QPos, QueuedAs
<1> QED
  BY ONLY <1>1, <1>2, PlacedAt

LEMMA LocatedThen ==
  ASSUME IInv', QInv'
  PROVE  Located'
<1> SUFFICES ASSUME NEW a \in Admissions
             PROVE  /\ QPos'[a] \in {0} \cup Seqs
                    /\ \A s \in Seqs : QPos'[a] = s <=> At(disk', s, a) \/ At(durable', s, a)
  BY DEF Located
<1>1. Apart(disk') /\ Apart(durable') /\ Lags(durable', disk')
  BY DEF QInv, LagInv, IInv, ImageInv, Apart
<1>2. QPos'[a] = IF HasRecord(disk', a) THEN NumberOf(disk', a) ELSE NumberOf(durable', a)
  BY DEF QPos, QueuedAs
<1> QED
  BY ONLY <1>1, <1>2, PlacedAt

\* An admission keeps its place while the images keep it under its number.
LEMMA SamePlace ==
  ASSUME Located, Located', NEW a \in Admissions,
         \A s \in Seqs : At(disk', s, a) \/ At(durable', s, a)
                           <=> At(disk, s, a) \/ At(durable, s, a)
  PROVE  QPos'[a] = QPos[a]
<1>1. 0 \notin Seqs
  BY SpoolAssumption DEF Seqs
<1>2. /\ QPos[a] \in {0} \cup Seqs /\ QPos'[a] \in {0} \cup Seqs
      /\ \A s \in Seqs : QPos[a] = s <=> QPos'[a] = s
  BY DEF Located
<1> QED
  BY ONLY <1>1, <1>2

\* Membership in the other sets, in terms of the images.
LEMMA ViewOf ==
  ASSUME NEW a \in Admissions
  PROVE  /\ a \in QReady <=> \E s \in Seqs : \/ At(disk, s, a) /\ disk.recs[s].ready
                                             \/ At(durable, s, a) /\ durable.recs[s].ready
         /\ a \in QDamaged <=> \E s \in Seqs : At(disk, s, a) /\ ~disk.recs[s].ok
         /\ a \in QLeaving <=> /\ \E s \in Seqs : At(durable, s, a)
                               /\ \A s \in Seqs : ~At(disk, s, a)
BY HeldAt DEF QReady, QDamaged, QLeaving, Stored, At

LEMMA ViewOfNext ==
  ASSUME NEW a \in Admissions
  PROVE  /\ a \in QReady' <=> \E s \in Seqs : \/ At(disk', s, a) /\ disk'.recs[s].ready
                                              \/ At(durable', s, a) /\ durable'.recs[s].ready
         /\ a \in QDamaged' <=> \E s \in Seqs : At(disk', s, a) /\ ~disk'.recs[s].ok
         /\ a \in QLeaving' <=> /\ \E s \in Seqs : At(durable', s, a)
                                /\ \A s \in Seqs : ~At(disk', s, a)
BY HeldAt DEF QReady, QDamaged, QLeaving, Stored, At

\* What the queue does not see.
LEMMA QuietUnseen ==
  ASSUME IInv, IInv', QInv, QInv', disk'.recs = disk.recs, durable'.recs = durable.recs,
         UNCHANGED <<fsynced, activated, released>>
  PROVE  UNCHANGED Queue!vars
<1>1. \A s \in Seqs, a \in Admissions :
         (At(disk', s, a) <=> At(disk, s, a)) /\ (At(durable', s, a) <=> At(durable, s, a))
  BY DEF At
<1>2. QPos' = QPos
  <2>1. \A a \in Admissions : QPos'[a] = QPos[a]
    BY <1>1, SamePlace, LocatedNow, LocatedThen
  <2> QED
    BY <2>1 DEF QPos
<1>3. QReady' = QReady /\ QDamaged' = QDamaged /\ QLeaving' = QLeaving
  BY <1>1 DEF QReady, QDamaged, QLeaving, HasRecord, HasReady, Stored
<1>4. QTold' = QTold
  BY DEF QTold, Promise
<1> QED
  BY <1>2, <1>3, <1>4 DEF Queue!vars, QPos, QReady, QTold, QDamaged, QLeaving

\* When a step only makes the past permanent, or takes back what nobody was
\* told: nothing is new in either image, nothing else starts to leave, and what
\* was promised is still there.
LEMMA SettlesWhen ==
  ASSUME Located, Located',
         \A s \in Seqs : /\ disk'.recs[s] \in {NoFile, disk.recs[s], durable.recs[s]}
                         /\ durable'.recs[s] \in {NoFile, disk.recs[s], durable.recs[s]},
         QLeaving' \subseteq QLeaving, QDamaged' \subseteq QDamaged \cup QLeaving,
         \A a \in Admissions : /\ Promise(a) # "none" => HasRecord(disk', a)
                               /\ Promise(a) = "ready" => HasReady(disk', a)
  PROVE  Queue!Settles
<1>1. 0 \notin Seqs
  BY SpoolAssumption DEF Seqs
<1>2. \A s \in Seqs, a \in Admissions :
         At(disk', s, a) \/ At(durable', s, a) => At(disk, s, a) \/ At(durable, s, a)
  BY DEF At
<1>3. ASSUME NEW a \in Admissions
      PROVE  QPos'[a] = QPos[a] \/ (QPos'[a] = 0 /\ QTold[a] = "none")
  <2>1. /\ QPos[a] \in {0} \cup Seqs /\ QPos'[a] \in {0} \cup Seqs
        /\ \A s \in Seqs : QPos'[a] = s => QPos[a] = s
    BY <1>2 DEF Located
  <2>2. Promise(a) # "none" => QPos'[a] # 0
    BY <1>1, HeldAt DEF Located
  <2>3. QTold[a] = Promise(a)
    BY DEF QTold
  <2> QED
    BY ONLY <1>1, <2>1, <2>2, <2>3
<1>4. QReady' \subseteq QReady
  <2> SUFFICES ASSUME NEW a \in Admissions, a \in QReady' PROVE a \in QReady
    BY DEF QReady
  <2>1. PICK s \in Seqs : \/ At(disk', s, a) /\ disk'.recs[s].ready
                          \/ At(durable', s, a) /\ durable'.recs[s].ready
    BY ViewOfNext
  <2> QED
    BY <2>1, ViewOf DEF At
<1>5. \A a \in Admissions : QTold[a] = "ready" => a \in QReady'
  BY DEF QTold, QReady
<1> QED
  BY <1>3, <1>4, <1>5 DEF Queue!Settles, Queue!Queued, QPos, QReady, QTold, QDamaged, QLeaving

\* What callers were told is in both images.
LEMMA ToldKept ==
  ASSUME IInv, NEW a \in Admissions
  PROVE  /\ Promise(a) # "none" => HasRecord(disk, a) /\ HasRecord(durable, a)
         /\ Promise(a) = "ready" => HasReady(disk, a) /\ HasReady(durable, a)
<1>1. /\ Promise(a) # "none" => a \in fsynced \ released \/ a \in activated \ released
      /\ Promise(a) = "ready" => a \in activated \ released
  BY DEF Promise
<1>2. /\ a \in fsynced \ released => HasRecord(disk, a) /\ HasRecord(durable, a)
      /\ a \in activated \ released => HasReady(disk, a) /\ HasReady(durable, a)
  BY DEF IInv, AdmittedSurvives, ActivatedSurvives
<1>3. \A d \in {disk, durable} : HasReady(d, a) => HasRecord(d, a)
  BY DEF HasReady, HasRecord
<1> QED
  BY <1>1, <1>2, <1>3

\* So it is in the directory, and on the disk, whatever is synced.
LEMMA SyncSettles ==
  ASSUME IInv, IInv', QInv, QInv', disk'.recs = disk.recs, durable' = disk
  PROVE  Queue!Settles /\ QLeaving' = {}
<1>1. Located /\ Located'
  BY LocatedNow, LocatedThen
<1>2. QLeaving' = {}
  BY DEF QLeaving, HasRecord, Stored
<1>3. QDamaged' = QDamaged
  BY DEF QDamaged, Stored
<1>4. \A a : (HasRecord(disk', a) <=> HasRecord(disk, a)) /\ (HasReady(disk', a) <=> HasReady(disk, a))
  BY DEF HasRecord, HasReady, Stored
<1>5. \A a \in Admissions : /\ Promise(a) # "none" => HasRecord(disk', a)
                            /\ Promise(a) = "ready" => HasReady(disk', a)
  BY <1>4, ToldKept
<1> QED
  BY <1>1, <1>2, <1>3, <1>5, SettlesWhen

\* Settling leads to a step of the queue.
LEMMA SettledStep ==
  ASSUME Queue!Settles, UNCHANGED <<fsynced, activated, released>>
  PROVE  Queue!Next
<1>1. QTold' = QTold
  BY DEF QTold, Promise
<1>2. Queue!Settle
  BY <1>1 DEF Queue!Settle, QTold
<1> QED
  BY <1>2 DEF Queue!Next, Queue!Settle

LEMMA SyncedStep ==
  ASSUME IInv, IInv', QInv, QInv', disk'.recs = disk.recs, durable' = disk,
         UNCHANGED <<fsynced, activated, released>>
  PROVE  Queue!Next
BY SyncSettles, SettledStep

\* PutAdmission returns a receipt for a record that is in both images.
LEMMA PutReturnStep ==
  ASSUME IInv, IInv', QInv, QInv', PutReturn
  PROVE  Queue!Next
<1>1. Queue!Settles /\ QLeaving' = {} /\ cur \in Admissions
  BY SyncSettles DEF PutReturn, IInv, TypeOK
<1>2. QTold' = [QTold EXCEPT ![cur] = "stored"]
  BY <1>1 DEF QTold, Promise, PutReturn
<1>3. QPos'[cur] # 0
  <2>1. disk.recs[seq] = Rec(cur, FALSE, TRUE) /\ seq \in Seqs /\ disk' = disk
    BY DEF PutReturn, IInv, PutInv
  <2>2. Rec(cur, FALSE, TRUE) # NoFile /\ Rec(cur, FALSE, TRUE).id = cur
    BY <1>1, RecFacts
  <2>3. disk.recs[seq] # NoFile /\ disk.recs[seq].id = cur
    BY ONLY <2>1, <2>2
  <2>4. seq \in Seqs /\ disk' = disk
    BY <2>1
  <2>5. At(disk', seq, cur)
    BY ONLY <2>3, <2>4 DEF At
  <2>6. QPos'[cur] = seq
    BY ONLY <1>1, <2>4, <2>5, IInv', QInv', LocatedThen DEF Located
  <2> QED
    BY ONLY <2>4, <2>6, SpoolAssumption DEF Seqs
<1>4. Queue!ConfirmStored(cur)
  BY <1>1, <1>2, <1>3 DEF Queue!ConfirmStored, QPos, QTold, QLeaving
<1> QED
  BY <1>1, <1>4 DEF Queue!Next, Queue!ConfirmStored

\* Activate returns: the record is deliverable in both images, unless it was
\* damaged or acknowledged before, and then nothing is promised for it.
LEMMA ActivateReturnStep ==
  ASSUME IInv, IInv', QInv, QInv', ActivateReturn
  PROVE  Queue!Next
<1>1. Queue!Settles /\ QLeaving' = {} /\ cur \in Admissions
  BY SyncSettles DEF ActivateReturn, IInv, TypeOK
<1>2. /\ UNCHANGED <<fsynced, released>> /\ activated' = activated \cup {cur}
      /\ disk' = disk /\ seq \in Seqs /\ At(disk, seq, cur) /\ disk.recs[seq].ready
  BY DEF ActivateReturn, IInv, ActivateInv, At
<1>3. CASE cur \in released
  <2>1. QTold' = QTold
    BY <1>2, <1>3 DEF QTold, Promise
  <2>2. Queue!Settle
    BY <1>1, <2>1 DEF Queue!Settle, QTold
  <2> QED
    BY <2>2 DEF Queue!Next, Queue!Settle
<1>4. CASE cur \notin released
  <2>1. QTold' = [QTold EXCEPT ![cur] = "ready"]
    BY <1>1, <1>2, <1>4 DEF QTold, Promise
  <2>2. cur \in QReady'
    BY <1>1, <1>2, ViewOfNext
  <2>3. Queue!ConfirmReady(cur)
    BY <1>1, <2>1, <2>2 DEF Queue!ConfirmReady, QReady, QTold, QLeaving
  <2> QED
    BY <1>1, <2>3 DEF Queue!Next, Queue!ConfirmReady
<1> QED
  BY <1>3, <1>4

\* The calls that end in the fsync of the directory.
LEMMA SyncingStep ==
  ASSUME IInv, IInv', QInv, QInv', Syncing
  PROVE  Queue!Next
<1> USE DEF memory, running, loop, told, budget
<1>1. disk'.recs = disk.recs /\ durable' = disk
  BY SyncingImages
<1>2. CASE PutReturn \/ ActivateReturn
  BY <1>2, PutReturnStep, ActivateReturnStep
<1>3. CASE PutReserved \/ QuarantineReturn \/ AckReturn
  <2>1. UNCHANGED <<fsynced, activated, released>>
    BY <1>3 DEF PutReserved, QuarantineReturn, AckReturn
  <2> QED
    BY <1>1, <2>1, SyncedStep
<1>4. CASE OpenManifestSynced \/ OpenPendingSynced \/ OpenActivationSynced
  <2>1. UNCHANGED <<fsynced, activated, released>>
    BY <1>4 DEF OpenManifestSynced, OpenPendingSynced, OpenActivationSynced
  <2> QED
    BY <1>1, <2>1, SyncedStep
<1> QED
  BY <1>2, <1>3, <1>4 DEF Syncing

\* A power loss takes back what was not synced, which nobody was told.
LEMMA CrashStep ==
  ASSUME IInv, IInv', QInv, QInv', Crash
  PROVE  [Queue!Next]_(Queue!vars)
<1> USE DEF told
<1>1. /\ disk' \in {disk, durable} /\ durable' = durable
      /\ UNCHANGED <<fsynced, activated, released>>
  BY DEF Crash
<1>2. CASE disk' = disk
  BY <1>1, <1>2, QuietUnseen
<1>3. CASE disk' = durable
  <2>1. Located /\ Located'
    BY LocatedNow, LocatedThen
  <2>2. QLeaving' = {}
    BY <1>1, <1>3 DEF QLeaving
  <2>3. QDamaged' \subseteq QDamaged \cup QLeaving
    <3> SUFFICES ASSUME NEW a \in Admissions, a \in QDamaged', a \notin QLeaving
                 PROVE  a \in QDamaged
      BY DEF QDamaged
    <3>1. PICK s \in Seqs : At(durable, s, a) /\ ~durable.recs[s].ok
      BY <1>3, ViewOfNext
    <3>2. PICK t \in Seqs : At(disk, t, a)
      BY <3>1, ViewOf
    <3>3. t = s /\ ~disk.recs[t].ok
      BY <3>1, <3>2 DEF QInv, LagInv, Lags, At
    <3> QED
      BY <3>2, <3>3, ViewOf
  <2>4. \A a \in Admissions : /\ Promise(a) # "none" => HasRecord(disk', a)
                              /\ Promise(a) = "ready" => HasReady(disk', a)
    BY <1>3, ToldKept
  <2>5. Queue!Settles
    BY <1>1, <1>3, <2>1, <2>2, <2>3, <2>4, SettlesWhen
  <2> QED
    BY <1>1, <2>5, SettledStep
<1> QED
  BY <1>1, <1>2, <1>3

\* What callers are told next is in the next directory.
LEMMA ToldKeptNext ==
  ASSUME IInv', UNCHANGED <<fsynced, activated, released>>, NEW a \in Admissions
  PROVE  /\ Promise(a) # "none" => HasRecord(disk', a)
         /\ Promise(a) = "ready" => HasReady(disk', a)
<1>1. /\ Promise(a) # "none" => a \in fsynced' \ released' \/ a \in activated' \ released'
      /\ Promise(a) = "ready" => a \in activated' \ released'
  BY DEF Promise
<1>2. /\ a \in fsynced' \ released' => HasRecord(disk', a)
      /\ a \in activated' \ released' => HasReady(disk', a)
  BY DEF IInv, AdmittedSurvives, ActivatedSurvives
<1>3. HasReady(disk', a) => HasRecord(disk', a)
  BY DEF HasReady, HasRecord
<1> QED
  BY <1>1, <1>2, <1>3

\* A record the scan sets aside is gone for good at once.
LEMMA OpenQuarantinesStep ==
  ASSUME IInv, IInv', QInv, QInv', NEW s \in Seqs, OpenQuarantines(s)
  PROVE  Queue!Next
<1> USE DEF told
<1>1. /\ disk \in Image /\ durable' = disk' /\ UNCHANGED <<fsynced, activated, released>>
      /\ disk' = Quarantine(disk, s)
  BY DEF OpenQuarantines, IInv, TypeOK
<1>2. disk'.recs = [disk.recs EXCEPT ![s] = NoFile] /\ disk.recs \in [Seqs -> File]
  BY <1>1 DEF Quarantine, Image
<1>3. \A t \in Seqs : disk'.recs[t] \in {NoFile, disk.recs[t]}
  BY <1>2
<1>4. QLeaving' = {}
  BY <1>1 DEF QLeaving
<1>5. QDamaged' \subseteq QDamaged
  BY <1>3 DEF QDamaged, Stored
<1>6. Located /\ Located'
  BY LocatedNow, LocatedThen
<1>7. \A a \in Admissions : /\ Promise(a) # "none" => HasRecord(disk', a)
                            /\ Promise(a) = "ready" => HasReady(disk', a)
  BY <1>1, ToldKeptNext
<1>8. Queue!Settles
  BY <1>1, <1>3, <1>4, <1>5, <1>6, <1>7, SettlesWhen
<1> QED
  BY <1>1, <1>8, SettledStep

\* What dropping record s from the directory does, until it is synced.
LEMMA DroppedView ==
  ASSUME IInv, QInv, NEW s \in Seqs, disk.recs[s] # NoFile, NEW a \in Admissions,
         a = disk.recs[s].id, durable' = durable,
         disk'.recs = [disk.recs EXCEPT ![s] = NoFile]
  PROVE  /\ \A t \in Seqs, b \in Admissions : At(disk', t, b) <=> b # a /\ At(disk, t, b)
         /\ \A t \in Seqs, b \in Admissions : b # a /\ At(disk, t, b) => disk'.recs[t] = disk.recs[t]
         /\ \A t \in Seqs : At(disk, t, a) \/ At(durable, t, a) => t = s
<1>1. disk.recs \in [Seqs -> File] /\ Apart(disk) /\ Lags(durable, disk)
  BY ImagesApart DEF IInv, TypeOK, Image, QInv, LagInv
<1>2. \A t \in Seqs : disk'.recs[t] = IF t = s THEN NoFile ELSE disk.recs[t]
  BY <1>1
<1>3. \A t \in Seqs : At(disk, t, a) \/ At(durable, t, a) => t = s
  BY <1>1 DEF Apart, Lags, At
<1> QED
  BY <1>2, <1>3 DEF At

\* Next sets a damaged record aside.  It may come back while the durable image
\* still has it.
LEMMA NextQuarantinesStep ==
  ASSUME IInv, IInv', QInv, QInv', NextQuarantines
  PROVE  Queue!Next
<1> USE DEF told
<1> DEFINE h == HeadOf(ready)
           a == disk.recs[h].id
<1>1. /\ disk \in Image /\ durable' = durable /\ UNCHANGED <<fsynced, activated, released>>
      /\ h \in Seqs /\ disk' = Quarantine(disk, h) /\ disk.recs[h] # NoFile /\ ~disk.recs[h].ok
  BY HeadIsLeast DEF NextQuarantines, HeadFile, IInv, TypeOK
<1>2. a \in Admissions
  BY <1>1 DEF Image, File, Content
<1> HIDE DEF h
<1>3. disk'.recs = [disk.recs EXCEPT ![h] = NoFile] /\ disk.recs \in [Seqs -> File]
  BY <1>1 DEF Quarantine, Image
<1>4. /\ \A t \in Seqs, b \in Admissions : At(disk', t, b) <=> b # a /\ At(disk, t, b)
      /\ \A t \in Seqs, b \in Admissions : b # a /\ At(disk, t, b) => disk'.recs[t] = disk.recs[t]
      /\ \A t \in Seqs : At(disk, t, a) \/ At(durable, t, a) => t = h
  BY <1>1, <1>2, <1>3, DroppedView
<1>5. At(disk, h, a) /\ a \in QDamaged
  BY <1>1, <1>2, ViewOf DEF At
<1> HIDE DEF a
<1>6. QDamaged' = QDamaged \ {a}
  <2>1. \A b \in Admissions : b \in QDamaged' <=> b \in QDamaged /\ b # a
    BY <1>4, ViewOf, ViewOfNext
  <2> QED
    BY <2>1 DEF QDamaged
<1>7. Located /\ Located'
  BY LocatedNow, LocatedThen
<1>8. CASE HasRecord(durable, a)
  <2>1. At(durable, h, a)
    BY <1>2, <1>4, <1>8, HeldAt
  <2>2. QPos' = QPos
    <3>1. \A b \in Admissions : QPos'[b] = QPos[b]
      BY <1>1, <1>4, <1>7, <2>1, SamePlace
    <3> QED
      BY <3>1 DEF QPos
  <2>3. QLeaving' = QLeaving \cup {a}
    <3>1. \A b \in Admissions : b \in QLeaving' <=> b \in QLeaving \/ b = a
      BY <1>1, <1>4, <2>1, ViewOf, ViewOfNext
    <3> QED
      BY <1>2, <3>1 DEF QLeaving
  <2>4. QReady' \in {QReady, QReady \ {a}}
    <3>1. \A b \in Admissions : b # a => (b \in QReady' <=> b \in QReady)
      BY <1>1, <1>4, ViewOf, ViewOfNext
    <3>2. a \in QReady' => a \in QReady
      BY <1>1, <1>2, <1>4, ViewOf, ViewOfNext
    <3> QED
      BY <3>1, <3>2 DEF QReady
  <2>5. QTold' = QTold
    BY <1>1 DEF QTold, Promise
  <2>6. Queue!SetAside(a)
    BY <1>5, <1>6, <2>2, <2>3, <2>4, <2>5
       DEF Queue!SetAside, QPos, QReady, QTold, QDamaged, QLeaving
  <2> QED
    BY <1>2, <2>6 DEF Queue!Next, Queue!SetAside
<1>9. CASE ~HasRecord(durable, a)
  <2>1. QLeaving' \subseteq QLeaving
    <3>1. \A b \in Admissions : b \in QLeaving' => b \in QLeaving
      BY <1>1, <1>4, <1>9, HeldAt, ViewOf, ViewOfNext
    <3> QED
      BY <3>1 DEF QLeaving
  <2>2. \A t \in Seqs : disk'.recs[t] \in {NoFile, disk.recs[t]}
    BY <1>3
  <2>3. \A b \in Admissions : /\ Promise(b) # "none" => HasRecord(disk', b)
                              /\ Promise(b) = "ready" => HasReady(disk', b)
    BY <1>1, ToldKeptNext
  <2>4. Queue!Settles
    BY <1>1, <1>6, <1>7, <2>1, <2>2, <2>3, SettlesWhen
  <2> QED
    BY <1>1, <2>4, SettledStep
<1> QED
  BY <1>8, <1>9

\* Ack removes the head of the queue: every deliverable record of the directory
\* is in q.names, and one that is deliverable on the disk only is leaving.
LEMMA AckRemovesStep ==
  ASSUME IInv, IInv', BInv, QInv, QInv', AckRemoves
  PROVE  Queue!Next
<1> USE DEF told, memory
<1> DEFINE h == HeadOf(ready)
           a == disk.recs[h].id
<1>1. /\ disk \in Image /\ durable' = durable /\ UNCHANGED <<fsynced, activated>>
      /\ h \in Seqs /\ h \in ready /\ ready \subseteq Seqs /\ disk.recs[h] # NoFile /\ disk.recs[h].ok
      /\ disk' = [disk EXCEPT !.recs[h] = NoFile] /\ released' = released \cup {a}
      /\ ~closed /\ op = "idle"
  BY HeadIsLeast DEF AckRemoves, AckAllowed, HeadFile, Idle, IInv, TypeOK
<1>2. a \in Admissions
  BY <1>1 DEF Image, File, Content
<1>3. disk.recs[h].ready
  BY <1>1 DEF BInv, ReadyInv, Up
<1>4. \A t \in Seqs : disk.recs[t] # NoFile /\ disk.recs[t].ready => h <= t
  BY <1>1, HeadIsLeast DEF QInv, LagInv, NamesInv, Up, Stored
<1> HIDE DEF h
<1>5. disk'.recs = [disk.recs EXCEPT ![h] = NoFile]
  BY <1>1 DEF Image
<1>6. /\ \A t \in Seqs, b \in Admissions : At(disk', t, b) <=> b # a /\ At(disk, t, b)
      /\ \A t \in Seqs, b \in Admissions : b # a /\ At(disk, t, b) => disk'.recs[t] = disk.recs[t]
      /\ \A t \in Seqs : At(disk, t, a) \/ At(durable, t, a) => t = h
  BY <1>1, <1>2, <1>5, DroppedView
<1>7. At(disk, h, a)
  BY <1>1 DEF At
<1>8. a \notin QDamaged
  BY <1>1, <1>2, <1>6, ViewOf
<1> HIDE DEF a
<1>9. QDamaged' = QDamaged
  <2>1. \A b \in Admissions : b \in QDamaged' <=> b \in QDamaged
    BY <1>6, <1>8, ViewOf, ViewOfNext
  <2> QED
    BY <2>1 DEF QDamaged
<1>10. QTold' = [QTold EXCEPT ![a] = "none"]
  BY <1>1, <1>2 DEF QTold, Promise
<1>11. QReady' \in {QReady, QReady \ {a}}
  <2>1. \A b \in Admissions : b # a => (b \in QReady' <=> b \in QReady)
    BY <1>1, <1>6, ViewOf, ViewOfNext
  <2>2. a \in QReady
    BY <1>1, <1>2, <1>3, <1>7, ViewOf
  <2> QED
    BY <2>1, <2>2 DEF QReady
<1>12. Located /\ Located' /\ QPos[a] = h
  BY <1>1, <1>2, <1>7, LocatedNow, LocatedThen DEF Located
<1>13. a \in QReady \ QLeaving
  BY <1>1, <1>2, <1>3, <1>7, ViewOf
<1>14. ASSUME NEW b \in QReady \ QLeaving PROVE QPos[a] <= QPos[b]
  <2>1. b \in Admissions
    BY DEF QReady
  <2>2. PICK t \in Seqs : \/ At(disk, t, b) /\ disk.recs[t].ready
                          \/ At(durable, t, b) /\ durable.recs[t].ready
    BY <2>1, ViewOf
  <2>3. At(disk, t, b) /\ disk.recs[t].ready
    <3>1. CASE At(durable, t, b) /\ durable.recs[t].ready
      <4>1. PICK u \in Seqs : At(disk, u, b)
        BY <2>1, <3>1, ViewOf
      <4> QED
        BY <3>1, <4>1 DEF QInv, LagInv, Lags, At
    <3> QED
      BY <2>2, <3>1
  <2>4. QPos[b] = t
    BY <1>12, <2>1, <2>3 DEF Located
  <2> QED
    BY <1>4, <1>12, <2>3, <2>4 DEF At
<1>15. \/ QLeaving' = QLeaving \cup {a} /\ QPos' = QPos
       \/ QPos' = [QPos EXCEPT ![a] = 0] /\ QLeaving' = QLeaving
  <2>1. \A b \in Admissions : b # a => QPos'[b] = QPos[b]
    BY <1>1, <1>6, <1>12, SamePlace
  <2>2. \A b \in Admissions : b # a => (b \in QLeaving' <=> b \in QLeaving)
    BY <1>1, <1>6, ViewOf, ViewOfNext
  <2>3. CASE At(durable, h, a)
    <3>1. QPos'[a] = QPos[a]
      BY <1>1, <1>2, <1>12, <2>3 DEF Located
    <3>2. a \in QLeaving'
      BY <1>1, <1>2, <1>6, <2>3, ViewOfNext
    <3> QED
      BY <1>2, <2>1, <2>2, <3>1, <3>2 DEF QPos, QLeaving
  <2>4. CASE ~At(durable, h, a)
    <3>1. \A t \in Seqs : ~At(disk', t, a) /\ ~At(durable', t, a)
      BY <1>1, <1>2, <1>6, <2>4
    <3>2. QPos'[a] = 0
      BY <1>2, <1>12, <3>1 DEF Located
    <3>3. a \notin QLeaving' /\ a \notin QLeaving
      BY <1>2, <1>13, <3>1, ViewOfNext
    <3> QED
      BY <1>2, <2>1, <2>2, <3>2, <3>3 DEF QPos, QLeaving
  <2> QED
    BY <2>3, <2>4
<1>16. Queue!Acknowledge(a)
  BY <1>8, <1>9, <1>10, <1>11, <1>13, <1>14, <1>15
     DEF Queue!Acknowledge, Queue!IsHead, QPos, QReady, QTold, QDamaged, QLeaving
<1> QED
  BY <1>2, <1>16 DEF Queue!Next, Queue!Acknowledge

\* The staged admission gets the reserved number, above all others.
LEMMA RecordRenamedStep ==
  ASSUME IInv, IInv', QInv, QInv', RecordRenamed
  PROVE  Queue!Next
<1> USE DEF told
<1> DEFINE p == disk.pend
           a == disk.pend.id
<1>1. /\ disk \in Image /\ durable \in Image /\ durable' = durable /\ disk.man \in Nat
      /\ durable.man \in Nat /\ UNCHANGED <<fsynced, activated, released>>
      /\ Lags(durable, disk) /\ Apart(disk)
  BY ImagesApart DEF RecordRenamed, IInv, TypeOK, QInv, LagInv, Image
<1>2. seq \in Seqs /\ p # NoFile /\ seq = disk.man - 1 /\ ~p.ready /\ p.ok
  <2>1. CASE op = "put"
    <3>1. p = Rec(cur, FALSE, TRUE) /\ cur \in Admissions
      BY <2>1 DEF RecordRenamed, IInv, PutInv, TypeOK
    <3>2. p # NoFile /\ ~p.ready /\ p.ok
      BY ONLY <3>1, RecFacts
    <3>3. seq \in Seqs /\ disk.man = seq + 1
      BY <2>1 DEF RecordRenamed, IInv, PutInv
    <3> QED
      BY ONLY <3>2, <3>3, SpoolAssumption DEF Seqs
  <2>2. CASE op = "open"
    <3>1. p # NoFile /\ p.ok /\ seq = disk.man - 1 /\ ~p.ready
      BY <2>2 DEF RecordRenamed, IInv, OpenInv, QInv, Unready
    <3>2. disk.man > 1 /\ disk.man <= MaxSeq + 1
      BY <3>1 DEF IInv, ImageInv
    <3> QED
      BY <1>1, <3>1, <3>2, SpoolAssumption DEF Seqs
  <2> QED
    BY <2>1, <2>2 DEF RecordRenamed
<1>3. a \in Admissions
  BY <1>1, <1>2 DEF Image, File, Content
<1>4. disk'.recs = [disk.recs EXCEPT ![seq] = p]
  BY <1>1 DEF RecordRenamed, Image
<1>5. \A t \in Seqs : disk'.recs[t] = IF t = seq THEN p ELSE disk.recs[t]
  BY <1>1, <1>4 DEF Image
<1>6. \A t \in Seqs : /\ disk.recs[t] # NoFile => t < seq /\ disk.recs[t].id # a
                      /\ durable.recs[t] # NoFile => t < seq /\ durable.recs[t].id # a
  <2> SUFFICES ASSUME NEW t \in Seqs
               PROVE  /\ disk.recs[t] # NoFile => t < seq /\ disk.recs[t].id # a
                      /\ durable.recs[t] # NoFile => t < seq /\ durable.recs[t].id # a
    OBVIOUS
  <2>1. /\ disk.recs[t] # NoFile => t < disk.man /\ t # disk.man - 1 /\ disk.recs[t].id # a
        /\ durable.recs[t] # NoFile => t < durable.man /\ t # disk.man - 1 /\ durable.recs[t].id # a
        /\ durable.man <= disk.man
    BY <1>1, <1>2 DEF Lags, Apart, IInv, ImageInv
  <2> QED
    BY <1>1, <1>2, <2>1, SpoolAssumption DEF Seqs
<1> HIDE DEF p, a
<1>7. /\ \A t \in Seqs, b \in Admissions : At(disk', t, b) <=> At(disk, t, b) \/ (t = seq /\ b = a)
      /\ \A t \in Seqs : ~At(disk, t, a) /\ ~At(durable, t, a)
      /\ disk.recs[seq] = NoFile
  BY <1>1, <1>2, <1>5, <1>6, SpoolAssumption DEF At, p, a, Seqs
<1>8. Located /\ Located'
  BY LocatedNow, LocatedThen
<1>9. QPos[a] = 0 /\ QPos'[a] = seq
  BY <1>2, <1>3, <1>7, <1>8 DEF Located
<1>10. \A b \in Admissions : QPos[b] # 0 => seq > QPos[b]
  BY <1>2, <1>6, <1>8, SpoolAssumption DEF Located, At, Seqs
<1>11. QPos' = [QPos EXCEPT ![a] = seq]
  <2>1. \A b \in Admissions : b # a => QPos'[b] = QPos[b]
    BY <1>1, <1>7, <1>8, SamePlace
  <2> QED
    BY <1>3, <1>9, <2>1 DEF QPos
<1>12. QReady' = QReady /\ QDamaged' = QDamaged /\ QLeaving' = QLeaving
  <2>1. \A t \in Seqs, b \in Admissions : At(disk, t, b) => disk'.recs[t] = disk.recs[t]
    BY <1>5, <1>7 DEF At
  <2>2. \A b \in Admissions : b \in QReady' <=> b \in QReady
    BY <1>1, <1>2, <1>5, <1>7, <2>1, ViewOf, ViewOfNext
  <2>3. \A b \in Admissions : b \in QDamaged' <=> b \in QDamaged
    BY <1>1, <1>2, <1>5, <1>7, <2>1, ViewOf, ViewOfNext
  <2>4. \A b \in Admissions : b \in QLeaving' <=> b \in QLeaving
    BY <1>1, <1>2, <1>7, ViewOf, ViewOfNext
  <2> QED
    BY <2>2, <2>3, <2>4 DEF QReady, QDamaged, QLeaving
<1>13. QTold' = QTold
  BY <1>1 DEF QTold, Promise
<1>14. seq \in Nat \ {0}
  BY <1>2, SpoolAssumption DEF Seqs
<1>15. Queue!Store(a)
  BY <1>3, <1>9, <1>10, <1>11, <1>12, <1>13, <1>14
     DEF Queue!Store, Queue!Queued, QPos, QReady, QTold, QDamaged, QLeaving
<1> QED
  BY <1>3, <1>15 DEF Queue!Next, Queue!Store

\* The replacement makes the record it replaces deliverable, and nothing else.
LEMMA ReplacementRenamedStep ==
  ASSUME IInv, IInv', QInv, QInv', ReplacementRenamed
  PROVE  Queue!Next
<1> USE DEF told
<1> DEFINE r == disk.repl
<1>1. /\ disk \in Image /\ durable' = durable /\ UNCHANGED <<fsynced, activated, released>>
      /\ cur \in Admissions /\ Apart(disk) /\ NamesInv
  BY ImagesApart DEF ReplacementRenamed, IInv, TypeOK, QInv, LagInv
<1>2. /\ seq \in Seqs /\ disk.recs[seq] # NoFile /\ disk.recs[seq].id = cur /\ disk.recs[seq].ok
      /\ r # NoFile /\ r.id = cur /\ r.ready /\ r.ok
  <2>1. CASE op = "activate"
    <3>1. r = Rec(cur, TRUE, TRUE)
      BY <2>1 DEF ReplacementRenamed, IInv, ActivateInv
    <3> HIDE DEF r
    <3> QED
      BY <1>1, <2>1, <3>1, RecFacts DEF ReplacementRenamed, IInv, ActivateInv, NamesInv
  <2>2. CASE op = "open"
    BY <1>1, <2>2 DEF ReplacementRenamed, IInv, OpenInv, NamesInv
  <2> QED
    BY <2>1, <2>2 DEF ReplacementRenamed
<1>3. disk'.recs = [disk.recs EXCEPT ![seq] = r]
  BY <1>1 DEF ReplacementRenamed, Image
<1>4. \A t \in Seqs : disk'.recs[t] = IF t = seq THEN r ELSE disk.recs[t]
  BY <1>1, <1>3 DEF Image
<1> HIDE DEF r
<1>5. /\ \A t \in Seqs, b \in Admissions : At(disk', t, b) <=> At(disk, t, b)
      /\ \A t \in Seqs, b \in Admissions : At(disk, t, b) /\ b # cur => disk'.recs[t] = disk.recs[t]
      /\ \A t \in Seqs : At(disk, t, cur) <=> t = seq
      /\ disk'.recs[seq].ready /\ disk'.recs[seq].ok
  BY <1>1, <1>2, <1>4 DEF At, Apart
<1>6. QPos' = QPos
  <2>1. \A b \in Admissions : QPos'[b] = QPos[b]
    BY <1>1, <1>5, SamePlace, LocatedNow, LocatedThen
  <2> QED
    BY <2>1 DEF QPos
<1>7. QReady' = QReady \cup {cur}
  <2>1. \A b \in Admissions : b # cur => (b \in QReady' <=> b \in QReady)
    BY <1>1, <1>5, ViewOf, ViewOfNext
  <2>2. cur \in QReady'
    BY <1>1, <1>2, <1>5, ViewOfNext
  <2> QED
    BY <1>1, <2>1, <2>2 DEF QReady
<1>8. QDamaged' = QDamaged
  <2>1. \A b \in Admissions : b \in QDamaged' <=> b \in QDamaged
    BY <1>1, <1>2, <1>5, ViewOf, ViewOfNext
  <2> QED
    BY <2>1 DEF QDamaged
<1>9. QLeaving' = QLeaving /\ cur \notin QLeaving
  <2>1. \A b \in Admissions : b \in QLeaving' <=> b \in QLeaving
    BY <1>1, <1>5, ViewOf, ViewOfNext
  <2>2. cur \notin QLeaving
    BY <1>1, <1>2, <1>5, ViewOf
  <2> QED
    BY <2>1, <2>2 DEF QLeaving
<1>10. QPos[cur] # 0
  <2>1. QPos[cur] = seq
    BY <1>1, <1>2, <1>5, LocatedNow DEF Located
  <2> QED
    BY <1>2, <2>1, SpoolAssumption DEF Seqs
<1>11. QTold' = QTold
  BY <1>1 DEF QTold, Promise
<1>12. Queue!MakeReady(cur)
  BY <1>1, <1>6, <1>7, <1>8, <1>9, <1>10, <1>11
     DEF Queue!MakeReady, Queue!Queued, QPos, QReady, QTold, QDamaged, QLeaving
<1> QED
  BY <1>1, <1>12 DEF Queue!Next, Queue!MakeReady

\* Damage spoils one record and takes back what was told of it.
LEMMA DamageStep ==
  ASSUME IInv, IInv', QInv, QInv', NEW s \in Seqs, Damage(s)
  PROVE  Queue!Next
<1> DEFINE a == disk.recs[s].id
           f == disk'
           g == durable'
<1>1. /\ disk \in Image /\ durable \in Image /\ disk.recs[s] # NoFile
      /\ disk.recs[s] \in Content /\ disk.recs[s].ok /\ a \in Admissions
      /\ f = Damaged(disk, s) /\ g = Damaged(durable, s)
      /\ UNCHANGED <<fsynced, activated>> /\ released' = released \cup {a} /\ Apart(disk)
  BY ImagesApart DEF Damage, IInv, TypeOK, Image, File, Content
<1>2. /\ \A t \in Seqs : t # s => f.recs[t] = disk.recs[t] /\ g.recs[t] = durable.recs[t]
      /\ f.recs[s] # NoFile /\ ~f.recs[s].ok /\ f.recs[s].id = a
      /\ f.recs[s].ready = disk.recs[s].ready
  BY <1>1, DamagedRecords
<1>3. /\ g.recs[s] # NoFile <=> durable.recs[s] # NoFile
      /\ g.recs[s] # NoFile =>
           g.recs[s].id = durable.recs[s].id /\ g.recs[s].ready = durable.recs[s].ready
  BY <1>1, DamagedRecords
<1>4. At(disk, s, a)
  BY <1>1 DEF At
<1>5. \A t \in Seqs, b \in Admissions :
        /\ At(f, t, b) <=> At(disk, t, b)
        /\ At(g, t, b) <=> At(durable, t, b)
        /\ At(f, t, b) => f.recs[t].ready = disk.recs[t].ready
        /\ At(g, t, b) => g.recs[t].ready = durable.recs[t].ready
  <2> HIDE DEF f, g
  <2> QED
    BY <1>1, <1>2, <1>3 DEF At
<1>6. \A t \in Seqs : At(disk, t, a) => t = s
  BY <1>1 DEF Apart, At
<1> HIDE DEF a
<1>7. QPos' = QPos
  <2>1. \A b \in Admissions : QPos'[b] = QPos[b]
    BY <1>5, SamePlace, LocatedNow, LocatedThen
  <2> QED
    BY <2>1 DEF QPos
<1>8. QReady' = QReady /\ QLeaving' = QLeaving
  <2>1. \A b \in Admissions : b \in QReady' <=> b \in QReady
    BY <1>5, ViewOf, ViewOfNext
  <2>2. \A b \in Admissions : b \in QLeaving' <=> b \in QLeaving
    BY <1>5, ViewOf, ViewOfNext
  <2> QED
    BY <2>1, <2>2 DEF QReady, QLeaving
<1>9. QDamaged' = QDamaged \cup {a} /\ a \notin QDamaged
  <2>1. a \in QDamaged'
    BY <1>1, <1>2, <1>4, <1>5, ViewOfNext
  <2>2. a \notin QDamaged
    BY <1>1, <1>6, ViewOf
  <2>3. \A t \in Seqs, b \in Admissions : b # a /\ At(disk, t, b) => t # s /\ f.recs[t] = disk.recs[t]
    BY <1>2, <1>4 DEF At
  <2>4. \A b \in Admissions : b # a => (b \in QDamaged' <=> b \in QDamaged)
    BY <1>5, <2>3, ViewOf, ViewOfNext
  <2> QED
    BY <1>1, <2>1, <2>2, <2>4 DEF QDamaged
<1>10. QTold' = [QTold EXCEPT ![a] = "none"]
  BY <1>1 DEF QTold, Promise
<1>11. QPos[a] # 0
  <2>1. QPos[a] = s
    BY <1>1, <1>4, LocatedNow DEF Located
  <2> QED
    BY <2>1, SpoolAssumption DEF Seqs
<1>12. Queue!Damage(a)
  BY <1>1, <1>7, <1>8, <1>9, <1>10, <1>11
     DEF Queue!Damage, Queue!Queued, QPos, QReady, QTold, QDamaged, QLeaving
<1> QED
  BY <1>1, <1>12 DEF Queue!Next, Queue!Damage

\* Every step is one of the queue, or is not seen by it.
LEMMA QueueStep ==
  ASSUME IInv, IInv', BInv, QInv, QInv', [Next]_vars
  PROVE  [Queue!Next]_(Queue!vars)
<1>1. CASE UNCHANGED vars
  BY <1>1, QuietUnseen DEF vars, told
<1>2. CASE Untouched
  BY <1>2, UntouchedImages, QuietUnseen
<1>3. CASE Staging
  BY <1>3, StagingImages, QuietUnseen DEF Quiet
<1>4. CASE Syncing
  BY <1>4, SyncingStep
<1>5. CASE RecordRenamed \/ ReplacementRenamed \/ AckRemoves \/ NextQuarantines
  BY <1>5, RecordRenamedStep, ReplacementRenamedStep, AckRemovesStep, NextQuarantinesStep
<1>6. CASE \E s \in Seqs : OpenQuarantines(s) \/ Damage(s)
  BY <1>6, OpenQuarantinesStep, DamageStep
<1>7. CASE Crash
  BY <1>7, CrashStep
<1> QED
  BY <1>1, <1>2, <1>3, <1>4, <1>5, <1>6, <1>7, StepsSorted

\* An empty directory is an empty queue.
LEMMA InitQueue == Init => Queue!Init
<1> SUFFICES ASSUME Init PROVE Queue!Init
  OBVIOUS
<1>1. disk.recs = [s \in Seqs |-> NoFile] /\ durable = disk
  BY DEF Init, EmptyImage
<1>2. \A a : ~HasRecord(disk, a) /\ ~HasReady(disk, a) /\ Stored(disk) = {}
  BY <1>1 DEF HasRecord, HasReady, Stored
<1>3. QPos = [a \in Admissions |-> 0]
  BY <1>1, <1>2 DEF QPos, QueuedAs, NumberOf
<1>4. QReady = {} /\ QDamaged = {} /\ QLeaving = {}
  BY <1>1, <1>2 DEF QReady, QDamaged, QLeaving
<1>5. QTold = [a \in Admissions |-> "none"]
  BY DEF QTold, Promise, Init
<1> QED
  BY <1>3, <1>4, <1>5 DEF Queue!Init, QPos, QReady, QTold, QDamaged, QLeaving

\* File by file, fsync by fsync and crash by crash, LogDisk is the first-in
\* first-out queue of DurableQueue, which keeps what its callers were told.
THEOREM QueueRefinement == Spec => ImplementsQueue
<1>1. Init => Queue!Init
  BY InitQueue
<1>2. IInv /\ IInv' /\ BInv /\ QInv /\ QInv' /\ [Next]_vars => [Queue!Next]_(Queue!vars)
  BY QueueStep
<1> QED
  BY <1>1, <1>2, Inductive, BudgetInductive, QueueInductive, PTL
     DEF Spec, ImplementsQueue, Queue!Spec

==============================================================================
