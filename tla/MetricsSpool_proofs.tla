------------------------ MODULE MetricsSpool_proofs ------------------------
(***************************************************************************)
(* What the Metrics spool guarantees, for every budget, every set of       *)
(* configurations that may open it and every number of batches, crashes    *)
(* and faults.  MInv is inductive.  DirInv says what a crash may leave of  *)
(* the directory, and holds of the directory the process sees and of the   *)
(* durable one alike; UpInv, PutInv and OpenInv say what the operation     *)
(* that holds q.mu has made of it so far.                                  *)
(***************************************************************************)
EXTENDS MetricsSpool, Sums

\* The two halves of a directory: control files, and records.
SameControl(e, d) ==
    e.primary = d.primary /\ e.backup = d.backup /\ e.journal = d.journal /\ e.stage = d.stage
SameRecords(e, d) == e.recs = d.recs /\ e.bad = d.bad
Alike(e, d) == SameControl(e, d) /\ SameRecords(e, d)

-----------------------------------------------------------------------------
(* Constants.                                                               *)

\* An opener has its fields, and its hashes are hashes.
LEMMA OpenerFacts ==
  ASSUME NEW o \in Openers
  PROVE  o.v2 \in BOOLEAN /\ o.hash \in Hashes /\ o.legacy \in Hashes
BY OpenersAssumption DEF Hashes

\* The bounds.
LEMMA BoundFacts ==
  /\ MaxBatches \in Nat /\ MaxBatches >= 1 /\ 1 \in Batches
  /\ MaxItems \in Nat /\ MaxBytes \in Nat /\ Reserve \in Nat
  /\ \A b \in Batches : Cost[b] \in Nat /\ b \in Nat
BY OpenersAssumption DEF Batches

\* NoFile and Torn are neither of the things that files contain.
LEMMA FileFacts ==
  /\ NoFile # Torn
  /\ \A m \in Control : Valid(m) /\ m # NoFile /\ m # Torn
  /\ \A j \in Journal : j # NoFile /\ j # Torn
  /\ \A c \in Records : c # NoFile /\ c # Torn
BY FilesAssumption DEF Valid

\* The fields of a control record.
LEMMA ControlFacts ==
  ASSUME NEW m \in Control
  PROVE  /\ m.ver \in 1..2 /\ m.scope \in Hashes
         /\ m.next \in Nat /\ m.next >= 1 /\ m.next <= MaxBatches + 1
BY BoundFacts DEF Control

\* The fields of a journal, and the control records it names.
LEMMA JournalFacts ==
  ASSUME NEW j \in Journal
  PROVE  /\ j.old \in Hashes /\ j.new \in Hashes
         /\ j.next \in Nat /\ j.next >= 1 /\ j.next <= MaxBatches + 1
         /\ Upgraded(j) \in Control /\ Before(j) \in Control
         /\ Upgraded(j).ver = 2 /\ Upgraded(j).scope = j.new /\ Upgraded(j).next = j.next
         /\ Before(j).ver = 1 /\ Before(j).scope = j.old /\ Before(j).next = j.next
BY BoundFacts DEF Control, Journal, Upgraded, Before

\* A copy of the manifest is readable exactly if it is a control record.
LEMMA CopyFacts ==
  ASSUME NEW m \in Control \cup {NoFile, Torn}
  PROVE  /\ Valid(m) <=> m \in Control
         /\ ~Valid(m) <=> m \in {NoFile, Torn}
BY FileFacts DEF Valid

\* The fields of a directory.
LEMMA DirFacts ==
  ASSUME NEW d \in Dirs
  PROVE  /\ d.primary \in Control \cup {NoFile, Torn} /\ d.backup \in Control \cup {NoFile, Torn}
         /\ d.journal \in Journal \cup {NoFile} /\ d.pending \in BOOLEAN
         /\ d.stage \in [Stages -> Control \cup Journal \cup {NoFile, Torn}]
         /\ d.recs \in [Batches -> Records \cup {NoFile}]
         /\ d.bad \in SUBSET [seq : Batches, batch : Batches]
BY DEF Dirs

\* Records of a directory, its numbers, and that they are finitely many.
LEMMA RecordFacts ==
  ASSUME NEW d \in Dirs
  PROVE  /\ Stored(d) \in SUBSET Batches /\ Numbers(d) \in SUBSET Batches
         /\ \A s \in Stored(d) : d.recs[s] \in Records /\ d.recs[s].batch \in Batches
                                 /\ d.recs[s].ok \in BOOLEAN
         /\ \A r \in d.bad : r.seq \in Batches /\ r.batch \in Batches
         /\ IsFiniteSet(Stored(d)) /\ IsFiniteSet(d.bad)
<1>1. Stored(d) \in SUBSET Batches
  BY DEF Stored
<1>2. ASSUME NEW s \in Stored(d)
      PROVE  d.recs[s] \in Records /\ d.recs[s].batch \in Batches /\ d.recs[s].ok \in BOOLEAN
  BY <1>2, DirFacts DEF Stored, Records
<1>3. \A r \in d.bad : r.seq \in Batches /\ r.batch \in Batches
  BY DirFacts
<1>4. Numbers(d) \in SUBSET Batches
  BY <1>1, <1>3 DEF Numbers
<1>5. IsFiniteSet(Batches)
  BY BoundFacts, FS_Interval DEF Batches
<1>6. IsFiniteSet(Stored(d))
  BY <1>1, <1>5, FS_Subset
<1>7. IsFiniteSet(d.bad)
  <2> DEFINE f == [r \in d.bad |-> <<r.seq, r.batch>>]
  <2>1. f \in [d.bad -> Batches \X Batches]
    BY <1>3
  <2>2. ASSUME NEW r \in d.bad, NEW q \in d.bad, f[r] = f[q] PROVE r = q
    <3>1. r.seq = q.seq /\ r.batch = q.batch
      BY <2>2
    <3> QED
      BY <3>1, DirFacts
  <2>3. f \in Injection(d.bad, Batches \X Batches)
    BY <2>1, <2>2 DEF Injection, IsInjective
  <2>4. IsFiniteSet(Batches \X Batches)
    BY <1>5, FS_Product
  <2> HIDE DEF f
  <2> QED
    BY <2>3, <2>4, FS_Injection
<1> QED
  BY <1>1, <1>2, <1>3, <1>4, <1>6, <1>7

\* What is stored is charged for in naturals.
LEMMA CostFacts ==
  ASSUME NEW d \in Dirs
  PROVE  /\ RecordCosts(d) \in Nat /\ BadCosts(d) \in Nat /\ EntriesOf(d) \in Nat
<1>1. RecordCosts(d) \in Nat
  <2> DEFINE f == [s \in Stored(d) |-> Cost[d.recs[s].batch]]
  <2>1. \A s \in Stored(d) : f[s] \in Nat
    BY RecordFacts, BoundFacts
  <2> HIDE DEF f
  <2>2. SumFunctionOnSet(f, Stored(d)) \in Nat
    BY <2>1, RecordFacts, SumRemove
  <2> QED
    BY <2>2 DEF f, RecordCosts
<1>2. BadCosts(d) \in Nat
  <2> DEFINE f == [r \in d.bad |-> Cost[r.batch]]
  <2>1. \A s \in d.bad : f[s] \in Nat
    BY RecordFacts, BoundFacts
  <2> HIDE DEF f
  <2>2. SumFunctionOnSet(f, d.bad) \in Nat
    BY <2>1, RecordFacts, SumRemove
  <2> QED
    BY <2>2 DEF f, BadCosts
<1>3. EntriesOf(d) \in Nat
  BY RecordFacts, FS_CardinalityType DEF EntriesOf
<1> QED
  BY <1>1, <1>2, <1>3

-----------------------------------------------------------------------------
(* What the operations do to a directory.                                   *)

\* The records of a directory do not depend on its control files.
LEMMA SameRecordsFacts ==
  ASSUME NEW d, NEW e, SameRecords(e, d)
  PROVE  /\ Stored(e) = Stored(d) /\ Numbers(e) = Numbers(d)
         /\ RecordCosts(e) = RecordCosts(d) /\ BadCosts(e) = BadCosts(d)
         /\ EntriesOf(e) = EntriesOf(d)
         /\ \A b : Holds(e, b) <=> Holds(d, b)
         /\ \A off, dmg : RecordsInv(e, off, dmg) <=> RecordsInv(d, off, dmg)
<1>1. Stored(e) = Stored(d)
  BY DEF Stored, SameRecords
<1>2. e.recs = d.recs /\ e.bad = d.bad
  BY DEF SameRecords
<1>3. Numbers(e) = Numbers(d)
  BY <1>1, <1>2 DEF Numbers
<1>4. RecordCosts(e) = RecordCosts(d)
  BY <1>1, <1>2 DEF RecordCosts
<1>5. BadCosts(e) = BadCosts(d)
  BY <1>2 DEF BadCosts
<1>6. EntriesOf(e) = EntriesOf(d)
  BY <1>1, <1>2 DEF EntriesOf
<1>7. \A b : Holds(e, b) <=> Holds(d, b)
  BY <1>1, <1>2 DEF Holds
<1>8. \A off, dmg : RecordsInv(e, off, dmg) <=> RecordsInv(d, off, dmg)
  BY <1>1, <1>2, <1>6 DEF RecordsInv
<1> QED
  BY <1>1, <1>3, <1>4, <1>5, <1>6, <1>7, <1>8

\* What is said of the control files stays true when records go.
LEMMA SameControlFacts ==
  ASSUME NEW d \in Dirs, NEW e \in Dirs, SameControl(e, d), NEW off,
         Numbers(e) \subseteq Numbers(d), CopiesInv(d, off)
  PROVE  CopiesInv(e, off)
BY DEF SameControl, CopiesInv, Fresh

\* Stages are control files.
LEMMA SameStages ==
  ASSUME NEW d, NEW e, SameControl(e, d), StagesInv(d)
  PROVE  StagesInv(e)
BY DEF SameControl, StagesInv

\* A directory that differs in .pending only.
LEMMA AlikeFacts ==
  ASSUME NEW d \in Dirs, NEW e \in Dirs, Alike(e, d)
  PROVE  /\ \A off, dmg : DirInv(d, off, dmg) => DirInv(e, off, dmg)
         /\ \A h : Settled(d, h) => Settled(e, h)
<1>1. Numbers(e) = Numbers(d)
  BY SameRecordsFacts DEF Alike
<1>2. \A off : CopiesInv(d, off) => CopiesInv(e, off)
  BY <1>1, SameControlFacts DEF Alike
<1>3. StagesInv(d) => StagesInv(e)
  BY SameStages DEF Alike
<1>4. \A off, dmg : RecordsInv(d, off, dmg) => RecordsInv(e, off, dmg)
  BY SameRecordsFacts DEF Alike
<1>5. \A h : Settled(d, h) => Settled(e, h)
  BY DEF Alike, SameControl, Settled
<1> QED
  BY <1>2, <1>3, <1>4, <1>5 DEF DirInv

\* More batches are offered, or damaged.
LEMMA MoreOffered ==
  ASSUME NEW d \in Dirs, NEW off \in Nat, NEW dmg, NEW off2 \in Nat, NEW dmg2,
         DirInv(d, off, dmg), off <= off2, dmg \subseteq dmg2
  PROVE  DirInv(d, off2, dmg2)
<1>1. CopiesInv(d, off2)
  <2>1. \A m \in {d.primary, d.backup} : Valid(m) => Fresh(d, m.next) /\ m.next <= off2 + 1
    BY DirFacts, CopyFacts, ControlFacts DEF DirInv, CopiesInv
  <2>2. d.journal # NoFile => d.journal.next <= off2 + 1
    BY DirFacts, JournalFacts DEF DirInv, CopiesInv
  <2> QED
    BY <2>1, <2>2 DEF DirInv, CopiesInv
<1>2. RecordsInv(d, off2, dmg2)
  <2>1. \A s \in Stored(d) : d.recs[s].batch <= off2
    BY RecordFacts, BoundFacts DEF DirInv, RecordsInv
  <2> QED
    BY <2>1 DEF DirInv, RecordsInv
<1> QED
  BY <1>1, <1>2 DEF DirInv

\* .pending is created or removed.
LEMMA PendingSet ==
  ASSUME NEW d \in Dirs, NEW p \in BOOLEAN
  PROVE  /\ [d EXCEPT !.pending = p] \in Dirs /\ Alike([d EXCEPT !.pending = p], d)
         /\ [d EXCEPT !.pending = p].pending = p
BY DEF Dirs, Alike, SameControl, SameRecords

\* The primary copy is replaced.
LEMMA PrimarySet ==
  ASSUME NEW d \in Dirs, NEW m \in Control \cup {NoFile, Torn}
  PROVE  /\ [d EXCEPT !.primary = m] \in Dirs /\ SameRecords([d EXCEPT !.primary = m], d)
         /\ [d EXCEPT !.primary = m].primary = m /\ [d EXCEPT !.primary = m].backup = d.backup
         /\ [d EXCEPT !.primary = m].journal = d.journal /\ [d EXCEPT !.primary = m].stage = d.stage
BY DEF Dirs, SameRecords

\* The backup copy is replaced.
LEMMA BackupSet ==
  ASSUME NEW d \in Dirs, NEW m \in Control \cup {NoFile, Torn}
  PROVE  /\ [d EXCEPT !.backup = m] \in Dirs /\ SameRecords([d EXCEPT !.backup = m], d)
         /\ [d EXCEPT !.backup = m].backup = m /\ [d EXCEPT !.backup = m].primary = d.primary
         /\ [d EXCEPT !.backup = m].journal = d.journal /\ [d EXCEPT !.backup = m].stage = d.stage
BY DEF Dirs, SameRecords

\* The journal is removed.
LEMMA JournalGone ==
  ASSUME NEW d \in Dirs
  PROVE  /\ [d EXCEPT !.journal = NoFile] \in Dirs /\ SameRecords([d EXCEPT !.journal = NoFile], d)
         /\ [d EXCEPT !.journal = NoFile].primary = d.primary
         /\ [d EXCEPT !.journal = NoFile].backup = d.backup
         /\ [d EXCEPT !.journal = NoFile].journal = NoFile
         /\ [d EXCEPT !.journal = NoFile].stage = d.stage
BY DEF Dirs, SameRecords

\* A record file is replaced or removed.
LEMMA RecordSet ==
  ASSUME NEW d \in Dirs, NEW s \in Batches, NEW c \in Records \cup {NoFile}
  PROVE  /\ [d EXCEPT !.recs[s] = c] \in Dirs /\ SameControl([d EXCEPT !.recs[s] = c], d)
         /\ [d EXCEPT !.recs[s] = c].bad = d.bad
         /\ [d EXCEPT !.recs[s] = c].recs = [d.recs EXCEPT ![s] = c]
BY DEF Dirs, SameControl

\* A stage is created, written or renamed away.
LEMMA StageSet ==
  ASSUME NEW d \in Dirs, NEW t \in Stages, NEW c \in Control \cup Journal \cup {NoFile, Torn}
  PROVE  /\ [d EXCEPT !.stage[t] = c] \in Dirs /\ SameRecords([d EXCEPT !.stage[t] = c], d)
         /\ [d EXCEPT !.stage[t] = c].primary = d.primary
         /\ [d EXCEPT !.stage[t] = c].backup = d.backup
         /\ [d EXCEPT !.stage[t] = c].journal = d.journal
         /\ [d EXCEPT !.stage[t] = c].stage = [d.stage EXCEPT ![t] = c]
BY DEF Dirs, SameRecords

\* A record is renamed aside.
LEMMA QuarantineFacts ==
  ASSUME NEW d \in Dirs, NEW s \in Stored(d)
  PROVE  /\ Quarantine(d, s) \in Dirs /\ SameControl(Quarantine(d, s), d)
         /\ Quarantine(d, s).recs = [d.recs EXCEPT ![s] = NoFile]
         /\ Quarantine(d, s).bad = d.bad \cup {[seq |-> s, batch |-> d.recs[s].batch]}
<1> DEFINE r == [seq |-> s, batch |-> d.recs[s].batch]
           B == d.bad \cup {r}
<1>1. s \in Batches /\ r \in [seq : Batches, batch : Batches]
  BY RecordFacts
<1>2. Quarantine(d, s) = [d EXCEPT !.recs[s] = NoFile, !.bad = B]
  BY DEF Quarantine
<1> HIDE DEF r
<1>3. B \in SUBSET [seq : Batches, batch : Batches]
  BY <1>1, DirFacts
<1> HIDE DEF B
<1>4. /\ [d EXCEPT !.recs[s] = NoFile, !.bad = B] \in Dirs
      /\ SameControl([d EXCEPT !.recs[s] = NoFile, !.bad = B], d)
      /\ [d EXCEPT !.recs[s] = NoFile, !.bad = B].recs = [d.recs EXCEPT ![s] = NoFile]
      /\ [d EXCEPT !.recs[s] = NoFile, !.bad = B].bad = B
  BY <1>1, <1>3 DEF Dirs, SameControl
<1> QED
  BY <1>2, <1>4 DEF r, B

\* One record less, whatever else happened to the directory.
LEMMA OneLess ==
  ASSUME NEW d \in Dirs, NEW e \in Dirs, NEW s \in Stored(d), Stored(e) = Stored(d) \ {s},
         \A t \in Stored(e) : e.recs[t].batch = d.recs[t].batch
  PROVE  /\ RecordCosts(d) = Cost[d.recs[s].batch] + RecordCosts(e)
         /\ Cardinality(Stored(d)) = Cardinality(Stored(e)) + 1
<1> DEFINE f == [t \in Stored(d) |-> Cost[d.recs[t].batch]]
           g == [t \in Stored(e) |-> Cost[e.recs[t].batch]]
<1>1. IsFiniteSet(Stored(d)) /\ IsFiniteSet(Stored(e))
  BY RecordFacts
<1>2. \A t \in Stored(d) : f[t] \in Nat
  BY RecordFacts, BoundFacts
<1>3. \A t \in Stored(e) : f[t] = g[t]
  OBVIOUS
<1>4. f[s] = Cost[d.recs[s].batch]
  OBVIOUS
<1>5. RecordCosts(d) = SumFunctionOnSet(f, Stored(d)) /\ RecordCosts(e) = SumFunctionOnSet(g, Stored(e))
  BY DEF RecordCosts
<1> HIDE DEF f, g
<1>6. SumFunctionOnSet(f, Stored(d)) = f[s] + SumFunctionOnSet(f, Stored(e))
  BY <1>1, <1>2, SumRemove
<1>7. SumFunctionOnSet(f, Stored(e)) = SumFunctionOnSet(g, Stored(e))
  BY <1>1, <1>3, SumSame
<1>8. Cardinality(Stored(d)) = Cardinality(Stored(e)) + 1
  <2>1. Cardinality(Stored(d)) \in Nat
    BY <1>1, FS_CardinalityType
  <2>2. Cardinality(Stored(d) \ {s}) = Cardinality(Stored(d)) - 1
    BY <1>1, FS_RemoveElement
  <2> QED
    BY <2>1, <2>2
<1> QED
  BY <1>4, <1>5, <1>6, <1>7, <1>8

\* The same records, some of them damaged.
LEMMA SameBatches ==
  ASSUME NEW d \in Dirs, NEW e \in Dirs, Stored(e) = Stored(d),
         \A t \in Stored(e) : e.recs[t].batch = d.recs[t].batch
  PROVE  RecordCosts(d) = RecordCosts(e)
<1> DEFINE f == [t \in Stored(d) |-> Cost[d.recs[t].batch]]
           g == [t \in Stored(e) |-> Cost[e.recs[t].batch]]
<1>1. f = g
  OBVIOUS
<1> QED
  BY <1>1 DEF RecordCosts

\* Ack removes a record.
LEMMA RecordRemoved ==
  ASSUME NEW d \in Dirs, NEW e \in Dirs, NEW s \in Stored(d), SameControl(e, d),
         e.recs = [d.recs EXCEPT ![s] = NoFile], e.bad = d.bad,
         NEW off, NEW dmg, DirInv(d, off, dmg)
  PROVE  /\ DirInv(e, off, dmg) /\ Stored(e) = Stored(d) \ {s} /\ Numbers(e) \subseteq Numbers(d)
         /\ \A t \in Stored(e) : e.recs[t] = d.recs[t]
         /\ RecordCosts(d) = Cost[d.recs[s].batch] + RecordCosts(e)
         /\ BadCosts(e) = BadCosts(d) /\ EntriesOf(d) = EntriesOf(e) + 1
<1>1. Stored(e) = Stored(d) \ {s} /\ \A t \in Stored(e) : e.recs[t] = d.recs[t]
  BY RecordFacts, DirFacts DEF Stored
<1>2. Numbers(e) \subseteq Numbers(d)
  BY <1>1 DEF Numbers
<1>3. /\ RecordCosts(d) = Cost[d.recs[s].batch] + RecordCosts(e)
      /\ Cardinality(Stored(d)) = Cardinality(Stored(e)) + 1
  BY <1>1, OneLess, ZenonT(60)
<1>4. Cardinality(d.bad) \in Nat /\ Cardinality(Stored(e)) \in Nat
  BY RecordFacts, FS_CardinalityType
<1>5. EntriesOf(d) = EntriesOf(e) + 1
  BY <1>3, <1>4 DEF EntriesOf
<1>6. RecordsInv(e, off, dmg)
  <2>1. EntriesOf(e) <= MaxItems
    BY <1>5, CostFacts, BoundFacts DEF DirInv, RecordsInv
  <2> QED
    BY <1>1, <2>1 DEF DirInv, RecordsInv
<1>7. CopiesInv(e, off) /\ StagesInv(e)
  BY <1>2, SameControlFacts, SameStages DEF DirInv
<1>8. BadCosts(e) = BadCosts(d)
  BY DEF BadCosts
<1> QED
  BY <1>1, <1>2, <1>3, <1>5, <1>6, <1>7, <1>8 DEF DirInv

\* A record is quarantined: it keeps its place in both limits.
LEMMA RecordQuarantined ==
  ASSUME NEW d \in Dirs, NEW s \in Stored(d), NEW off, NEW dmg, DirInv(d, off, dmg)
  PROVE  LET e == Quarantine(d, s)
         IN  /\ DirInv(e, off, dmg) /\ Stored(e) = Stored(d) \ {s} /\ Numbers(e) = Numbers(d)
             /\ \A t \in Stored(e) : e.recs[t] = d.recs[t]
             /\ RecordCosts(e) + BadCosts(e) = RecordCosts(d) + BadCosts(d)
             /\ EntriesOf(e) = EntriesOf(d)
<1> DEFINE e == Quarantine(d, s)
           r == [seq |-> s, batch |-> d.recs[s].batch]
<1>1. /\ e \in Dirs /\ SameControl(e, d) /\ e.recs = [d.recs EXCEPT ![s] = NoFile]
      /\ e.bad = d.bad \cup {r}
  BY QuarantineFacts
<1>2. r.seq = s /\ r.batch = d.recs[s].batch
  OBVIOUS
<1> HIDE DEF e, r
<1>3. Stored(e) = Stored(d) \ {s} /\ \A t \in Stored(e) : e.recs[t] = d.recs[t]
  BY <1>1, RecordFacts, DirFacts DEF Stored
<1>4. Numbers(e) = Numbers(d)
  BY <1>1, <1>2, <1>3 DEF Numbers
<1>5. r \notin d.bad
  BY <1>2 DEF DirInv, RecordsInv
<1>6. /\ RecordCosts(d) = Cost[d.recs[s].batch] + RecordCosts(e)
      /\ Cardinality(Stored(d)) = Cardinality(Stored(e)) + 1
  <2>1. \A t \in Stored(e) : e.recs[t].batch = d.recs[t].batch
    BY <1>3
  <2>2. e \in Dirs /\ Stored(e) = Stored(d) \ {s}
    BY <1>1, <1>3
  <2> QED
    BY <2>1, <2>2, OneLess
<1>7. BadCosts(e) = Cost[d.recs[s].batch] + BadCosts(d)
  <2> DEFINE f == [q \in d.bad |-> Cost[q.batch]]
             g == [q \in e.bad |-> Cost[q.batch]]
  <2>1. \A q \in d.bad \cup {r} : g[q] \in Nat
    BY <1>1, RecordFacts, BoundFacts
  <2>2. \A q \in d.bad : f[q] = g[q]
    BY <1>1
  <2>3. g[r] = Cost[d.recs[s].batch]
    BY <1>1, <1>2
  <2>4. BadCosts(d) = SumFunctionOnSet(f, d.bad) /\ BadCosts(e) = SumFunctionOnSet(g, e.bad)
    BY DEF BadCosts
  <2> HIDE DEF f, g
  <2>5. IsFiniteSet(d.bad)
    BY RecordFacts
  <2>6. SumFunctionOnSet(g, d.bad \cup {r}) = g[r] + SumFunctionOnSet(g, d.bad)
    BY <1>5, <2>1, <2>5, SumAdd
  <2>7. SumFunctionOnSet(f, d.bad) = SumFunctionOnSet(g, d.bad)
    BY <2>2, <2>5, SumSame
  <2> QED
    BY <1>1, <2>3, <2>4, <2>6, <2>7
<1>8. RecordCosts(e) + BadCosts(e) = RecordCosts(d) + BadCosts(d)
  <2>1. RecordCosts(e) \in Nat /\ BadCosts(d) \in Nat
    BY <1>1, CostFacts
  <2>2. Cost[d.recs[s].batch] \in Nat
    BY RecordFacts, BoundFacts
  <2>3. \A a, b, c \in Nat : b + (a + c) = (a + b) + c
    OBVIOUS
  <2>4. RecordCosts(e) + (Cost[d.recs[s].batch] + BadCosts(d))
          = (Cost[d.recs[s].batch] + RecordCosts(e)) + BadCosts(d)
    BY <2>1, <2>2, <2>3
  <2> QED
    BY <1>6, <1>7, <2>4, Zenon
<1>9. EntriesOf(e) = EntriesOf(d)
  <2>1. Cardinality(d.bad) \in Nat /\ Cardinality(Stored(e)) \in Nat
    BY <1>1, RecordFacts, FS_CardinalityType
  <2>2. Cardinality(e.bad) = Cardinality(d.bad) + 1
    BY <1>1, <1>5, RecordFacts, FS_AddElement
  <2> QED
    BY <1>6, <2>1, <2>2 DEF EntriesOf
<1>10. RecordsInv(e, off, dmg)
  <2>1. \A q \in e.bad : q.seq \notin Stored(e)
    BY <1>1, <1>2, <1>3 DEF DirInv, RecordsInv
  <2> QED
    BY <1>3, <1>9, <2>1 DEF DirInv, RecordsInv
<1>11. CopiesInv(e, off) /\ StagesInv(e)
  BY <1>1, <1>4, SameControlFacts, SameStages DEF DirInv
<1> QED
  BY <1>3, <1>4, <1>8, <1>9, <1>10, <1>11 DEF DirInv, e

\* There is room for record c under number s: both copies of the manifest are ahead.
Room(d, s, c, off) ==
    /\ c.ok = TRUE /\ c.batch <= off /\ EntriesOf(d) < MaxItems
    /\ d.journal = NoFile /\ s < d.primary.next /\ s < d.backup.next

\* e is d with c for its record s.
Places(e, d, s, c) == e.recs = [d.recs EXCEPT ![s] = c] /\ e.bad = d.bad

\* Put places a record under a fresh number, when there is room.
LEMMA RecordPlaced ==
  ASSUME NEW d \in Dirs, NEW e \in Dirs, NEW s \in Batches, SameControl(e, d), NEW c \in Records,
         Places(e, d, s, c),
         NEW off, NEW dmg, DirInv(d, off, dmg), Fresh(d, s), Room(d, s, c, off)
  PROVE  /\ DirInv(e, off, dmg) /\ Stored(e) = Stored(d) \cup {s} /\ Numbers(e) = Numbers(d) \cup {s}
         /\ e.recs[s] = c /\ \A t \in Stored(d) : e.recs[t] = d.recs[t]
         /\ RecordCosts(e) = Cost[c.batch] + RecordCosts(d)
         /\ BadCosts(e) = BadCosts(d) /\ EntriesOf(e) = EntriesOf(d) + 1
<1>a. e.recs = [d.recs EXCEPT ![s] = c] /\ e.bad = d.bad
  BY DEF Places
<1>0. s \notin Numbers(d)
  BY RecordFacts, BoundFacts DEF Fresh
<1>1. s \notin Stored(d) /\ \A r \in d.bad : r.seq # s
  BY <1>0 DEF Numbers
<1>2. /\ Stored(e) = Stored(d) \cup {s} /\ e.recs[s] = c
      /\ \A t \in Stored(d) : e.recs[t] = d.recs[t]
  BY <1>a, <1>1, FileFacts, DirFacts DEF Stored
<1>3. Numbers(e) = Numbers(d) \cup {s}
  BY <1>a, <1>2 DEF Numbers
<1>4. /\ RecordCosts(e) = Cost[c.batch] + RecordCosts(d)
      /\ Cardinality(Stored(e)) = Cardinality(Stored(d)) + 1
  <2>1. Stored(d) = Stored(e) \ {s} /\ s \in Stored(e)
    BY <1>a, <1>1, <1>2
  <2>2. \A t \in Stored(d) : d.recs[t].batch = e.recs[t].batch
    BY <1>a, <1>2
  <2>3. /\ RecordCosts(e) = Cost[e.recs[s].batch] + RecordCosts(d)
        /\ Cardinality(Stored(e)) = Cardinality(Stored(d)) + 1
    BY <2>1, <2>2, OneLess
  <2> QED
    BY <1>a, <1>2, <2>3
<1>5. Cardinality(d.bad) \in Nat /\ Cardinality(Stored(d)) \in Nat
  BY RecordFacts, FS_CardinalityType
<1>6. EntriesOf(e) = EntriesOf(d) + 1
  BY <1>a, <1>4, <1>5 DEF EntriesOf
<1>7. RecordsInv(e, off, dmg)
  <2>1. EntriesOf(e) <= MaxItems
    BY <1>a, <1>6, CostFacts, BoundFacts DEF Room
  <2>2. \A t \in Stored(e) : e.recs[t].batch <= off /\ (~e.recs[t].ok => e.recs[t].batch \in dmg)
    BY <1>a, <1>2 DEF DirInv, RecordsInv, Room
  <2> QED
    BY <1>a, <1>1, <1>2, <2>1, <2>2 DEF DirInv, RecordsInv
<1>8. CopiesInv(e, off)
  <2>1. \A m \in {d.primary, d.backup} : Valid(m) => Fresh(e, m.next)
    BY <1>a, <1>3 DEF Fresh, DirInv, CopiesInv, Room
  <2> QED
    BY <2>1 DEF SameControl, DirInv, CopiesInv, Room
<1>9. StagesInv(e)
  BY SameStages DEF DirInv
<1>10. BadCosts(e) = BadCosts(d)
  BY <1>a DEF BadCosts
<1> QED
  BY <1>a, <1>2, <1>3, <1>4, <1>6, <1>7, <1>8, <1>9, <1>10 DEF DirInv

\* A record file becomes unreadable.
LEMMA RecordDamaged ==
  ASSUME NEW d \in Dirs, NEW s \in Stored(d), NEW off, NEW dmg, DirInv(d, off, dmg)
  PROVE  LET e == [d EXCEPT !.recs[s].ok = FALSE]
         IN  /\ e \in Dirs /\ SameControl(e, d) /\ e.pending = d.pending /\ e.bad = d.bad
             /\ DirInv(e, off, dmg \cup {d.recs[s].batch})
             /\ Stored(e) = Stored(d) /\ Numbers(e) = Numbers(d)
             /\ \A t \in Stored(d) : e.recs[t].batch = d.recs[t].batch
             /\ RecordCosts(e) = RecordCosts(d) /\ BadCosts(e) = BadCosts(d)
             /\ EntriesOf(e) = EntriesOf(d)
<1> DEFINE e == [d EXCEPT !.recs[s].ok = FALSE]
           c == [d.recs[s] EXCEPT !.ok = FALSE]
<1>1. c \in Records /\ c.batch = d.recs[s].batch /\ c.ok = FALSE
  BY RecordFacts DEF Records
<1>2. e = [d EXCEPT !.recs[s] = c]
  OBVIOUS
<1>3. s \in Batches
  BY RecordFacts
<1> HIDE DEF e, c
<1>4. /\ e \in Dirs /\ SameControl(e, d) /\ e.bad = d.bad /\ e.recs = [d.recs EXCEPT ![s] = c]
  BY <1>1, <1>2, <1>3, RecordSet
<1>5. e.pending = d.pending
  BY <1>1, <1>2, <1>3 DEF Dirs
<1>6. /\ Stored(e) = Stored(d) /\ e.recs[s] = c
      /\ \A t \in Stored(d) : t # s => e.recs[t] = d.recs[t]
  BY <1>1, <1>3, <1>4, FileFacts, DirFacts DEF Stored
<1>7. \A t \in Stored(d) : e.recs[t].batch = d.recs[t].batch
  BY <1>1, <1>6
<1>8. Numbers(e) = Numbers(d)
  BY <1>4, <1>6 DEF Numbers
<1>9. RecordCosts(e) = RecordCosts(d)
  BY <1>4, <1>6, <1>7, SameBatches
<1>10. BadCosts(e) = BadCosts(d) /\ EntriesOf(e) = EntriesOf(d)
  BY <1>4, <1>6 DEF BadCosts, EntriesOf
<1>11. RecordsInv(e, off, dmg \cup {d.recs[s].batch})
  <2>1. \A t \in Stored(e) : e.recs[t].batch <= off
    BY <1>6, <1>7 DEF DirInv, RecordsInv
  <2>2. \A t \in Stored(e) : ~e.recs[t].ok => e.recs[t].batch \in dmg \cup {d.recs[s].batch}
    BY <1>6, <1>1 DEF DirInv, RecordsInv
  <2> QED
    BY <1>4, <1>6, <1>10, <2>1, <2>2 DEF DirInv, RecordsInv
<1>12. CopiesInv(e, off) /\ StagesInv(e)
  BY <1>4, <1>8, SameControlFacts, SameStages DEF DirInv
<1> QED
  BY <1>4, <1>5, <1>6, <1>7, <1>8, <1>9, <1>10, <1>11, <1>12 DEF DirInv, e

\* A directory that differs in .pending only is the same for everything else.
LEMMA AlikeAll ==
  ASSUME NEW d \in Dirs, NEW e \in Dirs, Alike(e, d)
  PROVE  /\ e.primary = d.primary /\ e.backup = d.backup /\ e.journal = d.journal
         /\ e.stage = d.stage /\ e.recs = d.recs /\ e.bad = d.bad
         /\ Stored(e) = Stored(d) /\ Numbers(e) = Numbers(d)
         /\ RecordCosts(e) = RecordCosts(d) /\ BadCosts(e) = BadCosts(d)
         /\ EntriesOf(e) = EntriesOf(d)
         /\ \A b : Holds(e, b) <=> Holds(d, b)
         /\ \A h : Settled(d, h) => Settled(e, h)
         /\ \A off, dmg : DirInv(d, off, dmg) => DirInv(e, off, dmg)
BY AlikeFacts, SameRecordsFacts DEF Alike, SameControl, SameRecords

\* Control files that change leave the records as they are.
LEMMA ControlSet ==
  ASSUME NEW d \in Dirs, NEW e \in Dirs, SameRecords(e, d), NEW off, NEW dmg, DirInv(d, off, dmg)
  PROVE  /\ e.recs = d.recs /\ e.bad = d.bad
         /\ Stored(e) = Stored(d) /\ Numbers(e) = Numbers(d)
         /\ RecordCosts(e) = RecordCosts(d) /\ BadCosts(e) = BadCosts(d)
         /\ EntriesOf(e) = EntriesOf(d)
         /\ \A b : Holds(e, b) <=> Holds(d, b)
         /\ \A n : Fresh(e, n) <=> Fresh(d, n)
         /\ RecordsInv(e, off, dmg)
         /\ CopiesInv(e, off) /\ StagesInv(e) => DirInv(e, off, dmg)
BY SameRecordsFacts DEF SameRecords, DirInv, Fresh

\* The head of the queue.
LEMMA HeadFacts ==
  ASSUME NEW S \in SUBSET Batches, S # {}
  PROVE  Head(S) \in S /\ \A t \in S : Head(S) <= t
<1>1. S \subseteq Nat
  BY DEF Batches
<1>2. PICK x \in S : \A y \in S : ~(<<y, x>> \in OpToRel(<, Nat))
  BY <1>1, WFMin, NatLessThanWellFounded, Zenon
<1>3. \A y \in S : ~(y < x)
  BY <1>1, <1>2 DEF OpToRel
<1>4. \E s \in S : \A t \in S : s <= t
  BY <1>1, <1>3
<1> QED
  BY <1>4 DEF Head

\* A greater number leaves the head where it is.
LEMMA HeadStays ==
  ASSUME NEW S \in SUBSET Batches, S # {}, NEW n \in Batches, \A t \in S : t < n
  PROVE  Head(S \cup {n}) = Head(S)
<1>1. Head(S) \in S /\ \A t \in S : Head(S) <= t
  BY HeadFacts
<1>2. S \cup {n} \in SUBSET Batches /\ S \cup {n} # {}
  OBVIOUS
<1>3. Head(S \cup {n}) \in S \cup {n} /\ \A t \in S \cup {n} : Head(S \cup {n}) <= t
  BY <1>2, HeadFacts
<1>4. S \subseteq Nat /\ n \in Nat
  BY BoundFacts
<1> DEFINE a == Head(S)
           b == Head(S \cup {n})
<1> HIDE DEF a, b
<1>5. a \in S /\ b \in S \cup {n} /\ (\A t \in S : a <= t) /\ \A t \in S \cup {n} : b <= t
  BY <1>1, <1>3 DEF a, b
<1>6. a = b
  BY <1>4, <1>5
<1> QED
  BY <1>6 DEF a, b

\* The batch that the delivery loop holds is stored.
LEMMA HeldStored ==
  ASSUME MInv, consumer \in {"holds", "acks"}, op # "ack"
  PROVE  /\ op \in {"idle", "put"} /\ Up
         /\ names # {} /\ held = Head(names) /\ held \in names /\ held \in Stored(disk)
         /\ held \in Batches /\ disk.recs[held].batch \in 1..offered
<1>1. op \in {"idle", "put"} /\ Up
  BY DEF MInv, ControlInv, Up, TypeOK
<1>2. names # {} /\ held = Head(names) /\ names \subseteq Stored(disk) /\ names \in SUBSET Batches
  BY <1>1 DEF MInv, HeldIsHead, HoldInv, TypeOK
<1>3. held \in names
  BY <1>2, HeadFacts
<1>4. held \in Stored(disk) /\ held \in Batches
  BY <1>2, <1>3
<1>5. disk.recs[held].batch \in 1..offered
  <2>1. disk.recs[held].batch \in Batches
    BY <1>4, RecordFacts DEF MInv, TypeOK
  <2>2. disk.recs[held].batch <= offered
    BY <1>4 DEF MInv, DirInv, RecordsInv
  <2> QED
    BY <2>1, <2>2, BoundFacts DEF Batches, MInv, TypeOK
<1> QED
  BY <1>1, <1>2, <1>3, <1>4, <1>5

\* The manifest that loadManifest reads.
LEMMA RawFacts ==
  ASSUME MInv
  PROVE  /\ Raw \in {disk.primary, disk.backup} /\ Raw \in Control \cup {NoFile, Torn}
         /\ Valid(Raw) => Raw \in Control /\ Fresh(disk, Raw.next) /\ Raw.next <= offered + 1
<1>1. disk \in Dirs /\ CopiesInv(disk, offered)
  BY DEF MInv, TypeOK, DirInv
<1>2. Raw \in {disk.primary, disk.backup}
  BY DEF Raw
<1>3. Raw \in Control \cup {NoFile, Torn}
  BY <1>1, <1>2, DirFacts
<1> QED
  BY <1>1, <1>2, <1>3, CopyFacts DEF CopiesInv

\* The manifest of a process that has not read one.
LEMMA NoManifestType ==
  ASSUME NEW o \in Openers
  PROVE  NoManifest \in Control
<1>1. Hashes # {}
  BY OpenerFacts
<1> DEFINE h == CHOOSE h \in Hashes : TRUE
<1>2. h \in Hashes
  BY <1>1
<1>3. NoManifest = [ver |-> 1, scope |-> h, next |-> 1]
  BY DEF NoManifest
<1> HIDE DEF h
<1> QED
  BY <1>2, <1>3, BoundFacts DEF Control

\* What RefusalJustified says of a directory that was refused.
Justified ==
    \/ opener.v2 /\ disk.pending
    \/ ForeignStage \/ OverBudget
    \/ IF disk.journal # NoFile
         THEN \/ ~opener.v2 \/ disk.journal.new # opener.hash
              \/ NoFile \in {disk.primary, disk.backup} \/ {disk.primary, disk.backup} = {Torn}
         ELSE IF Valid(Raw) THEN WrongScope(Raw) ELSE TRUE

\* A refusal whose reason stands in the directory.
LEMMA RefusedJustified ==
  ASSUME Justified, UNCHANGED <<disk, opener>>
  PROVE  RefusalJustified'
<1>1. OverBudget' <=> OverBudget
  BY DEF OverBudget, Charged, Entries
<1>2. ForeignStage' <=> ForeignStage
  BY DEF ForeignStage
<1>3. Raw' = Raw /\ (WrongScope(Raw)' <=> WrongScope(Raw))
  BY DEF Raw, WrongScope
<1> QED
  BY <1>1, <1>2, <1>3 DEF Justified, RefusalJustified

\* The control files are refused.
LEMMA ControlRefusedJustified ==
  ASSUME MInv, ControlRefused
  PROVE  Justified
<1>1. CASE opener.v2 /\ disk.pending
  BY <1>1 DEF Justified
<1>2. CASE disk.journal # NoFile /\ ~Resumable
  <2>1. {disk.primary, disk.backup} \subseteq
          {Before(disk.journal), Upgraded(disk.journal), Torn, NoFile}
    BY <1>2 DEF MInv, DirInv, CopiesInv
  <2> QED
    BY <1>2, <2>1 DEF Justified, Resumable
<1>3. CASE disk.journal = NoFile /\ ~Valid(Raw)
  BY <1>3 DEF Justified
<1>4. CASE disk.journal = NoFile /\ Valid(Raw) /\ ~Matches /\ ~Migratable
  <2>1. Raw.ver \in 1..2 /\ opener.v2 \in BOOLEAN
    BY <1>4, RawFacts, ControlFacts, OpenerFacts DEF MInv, TypeOK
  <2>2. WrongScope(Raw)
    <3> HIDE DEF Raw
    <3> QED
      BY <1>4, <2>1 DEF Matches, Migratable, WrongScope
  <2> QED
    BY <1>4, <2>2 DEF Justified
<1> QED
  BY <1>1, <1>2, <1>3, <1>4 DEF ControlRefused, Valid

\* A stage is refused: only a torn one, or one of another configuration.
LEMMA StageRefusedJustified ==
  ASSUME MInv, op = "open", step = "stage", disk.stage[target] \notin {NoFile, StageContent}
  PROVE  Justified
<1>1. /\ opener.v2 /\ target \in Stages
      /\ target = "journal" => disk.backup = manifest /\ manifest.ver = 1
      /\ target # "journal" => disk.journal # NoFile /\ manifest = Upgraded(disk.journal)
  BY DEF MInv, OpenInv, ControlInv
<1>2. CASE disk.stage[target] = Torn
  BY <1>1, <1>2 DEF Justified, ForeignStage
<1>3. CASE target = "journal" /\ disk.stage[target] # Torn
  <2> DEFINE j == disk.stage["journal"]
  <2>1. j \in Journal /\ disk.backup \in {Before(j), Torn, NoFile}
    BY <1>3 DEF MInv, DirInv, StagesInv
  <2>2. manifest \in Control
    BY DEF MInv, TypeOK
  <2>3. manifest = Before(j)
    BY <1>1, <1>3, <2>1, <2>2, FileFacts
  <2> HIDE DEF j
  <2>4. j.old = manifest.scope /\ j.next = manifest.next
    BY <2>1, <2>3, JournalFacts
  <2>5. j.new # opener.hash
    BY <1>3, <2>1, <2>4 DEF Journal, StageContent, j
  <2> QED
    BY <1>3, <2>5 DEF Justified, ForeignStage, Stages, j
<1>4. CASE target # "journal" /\ disk.stage[target] # Torn
  <2>1. disk.stage[target] = Upgraded(disk.journal)
    BY <1>1, <1>4 DEF MInv, DirInv, StagesInv, Stages
  <2> QED
    BY <1>1, <1>4, <2>1 DEF StageContent
<1> QED
  BY <1>2, <1>3, <1>4

\* The scan refuses: for the budget, or a stage that this opener does not resume.
LEMMA ScanRefusedJustified ==
  ASSUME MInv, Scanned, Unexpected \/ OverBudget
  PROVE  Justified
<1>1. /\ Owns(manifest) /\ disk.journal = NoFile /\ manifest = Raw /\ manifest \in Control
      /\ opener.v2 \in BOOLEAN
  BY OpenerFacts DEF MInv, OpenInv, Scanned, TypeOK
<1>2. CASE OverBudget
  BY <1>2 DEF Justified
<1>3. CASE \E s \in Numbers(disk) : s >= manifest.next
  <2>1. Fresh(disk, manifest.next)
    BY <1>1, RawFacts, FileFacts
  <2> QED
    BY <1>1, <1>3, <2>1, RecordFacts, BoundFacts, ControlFacts DEF Fresh, MInv, TypeOK
<1>4. CASE \E t \in Stages : disk.stage[t] # NoFile
  <2>1. disk.stage["journal"] # NoFile
    BY <1>1, <1>4 DEF MInv, DirInv, StagesInv, Stages
  <2>2. CASE disk.stage["journal"] = Torn
    BY <2>1, <2>2 DEF Justified, ForeignStage, Stages
  <2>3. CASE disk.stage["journal"] # Torn
    <3> DEFINE j == disk.stage["journal"]
    <3>1. j \in Journal /\ {disk.primary, disk.backup} \subseteq {Before(j), Torn, NoFile}
      BY <2>1, <2>3 DEF MInv, DirInv, StagesInv
    <3>2. manifest = Before(j)
      BY <1>1, <3>1, RawFacts, FileFacts
    <3>3. manifest.ver = 1
      BY <3>1, <3>2, JournalFacts
    <3>4. ~opener.v2
      BY <1>1, <3>3 DEF Owns
    <3> QED
      BY <2>1, <2>3, <3>4 DEF Justified, ForeignStage, Stages
  <2> QED
    BY <2>2, <2>3
<1> QED
  BY <1>2, <1>3, <1>4 DEF Unexpected

\* What is charged for is a number.
LEMMA ChargedType ==
  ASSUME TypeOK
  PROVE  Charged \in Nat /\ Entries \in Nat /\ Cost[cur] \in Nat
<1>1. RecordCosts(disk) \in Nat /\ BadCosts(disk) \in Nat /\ EntriesOf(disk) \in Nat
  BY CostFacts DEF TypeOK
<1>2. Reserve \in Nat /\ Cost[cur] \in Nat
  BY BoundFacts DEF TypeOK
<1> QED
  BY <1>1, <1>2 DEF Charged, Entries

\* What scopeWrite writes.
LEMMA StageContentType ==
  ASSUME manifest \in Control, opener \in Openers
  PROVE  /\ StageContent \in Control \cup Journal
         /\ target = "journal" => StageContent \in Journal
BY OpenerFacts DEF StageContent, Journal, Control

\* The journal names the manifest that is there before the migration.
LEMMA StageContentBefore ==
  ASSUME manifest \in Control, manifest.ver = 1, target = "journal", StageContent \in Journal
  PROVE  Before(StageContent) = manifest /\ StageContent.next = manifest.next
<1>1. StageContent.old = manifest.scope /\ StageContent.next = manifest.next
  BY DEF StageContent
<1> HIDE DEF StageContent
<1> QED
  BY <1>1 DEF Before, Control

\* e is d with one copy of the manifest unreadable.
Torns(e, d) ==
    /\ e.primary \in {d.primary, Torn} /\ e.backup \in {d.backup, Torn}
    /\ e.journal = d.journal /\ e.stage = d.stage

\* It is still a directory that a crash may leave.
LEMMA TornDir ==
  ASSUME NEW d \in Dirs, NEW e \in Dirs, NEW off, NEW dmg, DirInv(d, off, dmg),
         SameRecords(e, d), Torns(e, d)
  PROVE  DirInv(e, off, dmg)
<1>1. \A n : Fresh(e, n) <=> Fresh(d, n)
  BY ControlSet
<1>2. ~Valid(Torn)
  BY DEF Valid
<1>3. CopiesInv(e, off)
  BY <1>1, <1>2 DEF DirInv, CopiesInv, Torns
<1>4. StagesInv(e)
  BY DEF DirInv, StagesInv, Torns
<1> QED
  BY <1>3, <1>4, ControlSet

\* A copy becomes unreadable.
LEMMA CopyTorn ==
  ASSUME NEW d \in Dirs, NEW off, NEW dmg, DirInv(d, off, dmg)
  PROVE  /\ [d EXCEPT !.primary = Torn] \in Dirs /\ SameRecords([d EXCEPT !.primary = Torn], d)
         /\ Torns([d EXCEPT !.primary = Torn], d) /\ DirInv([d EXCEPT !.primary = Torn], off, dmg)
         /\ [d EXCEPT !.backup = Torn] \in Dirs /\ SameRecords([d EXCEPT !.backup = Torn], d)
         /\ Torns([d EXCEPT !.backup = Torn], d) /\ DirInv([d EXCEPT !.backup = Torn], off, dmg)
<1> DEFINE p == [d EXCEPT !.primary = Torn]
           b == [d EXCEPT !.backup = Torn]
<1>1. /\ p \in Dirs /\ SameRecords(p, d) /\ p.primary = Torn /\ p.backup = d.backup
      /\ p.journal = d.journal /\ p.stage = d.stage
  BY PrimarySet
<1>2. /\ b \in Dirs /\ SameRecords(b, d) /\ b.backup = Torn /\ b.primary = d.primary
      /\ b.journal = d.journal /\ b.stage = d.stage
  BY BackupSet
<1> HIDE DEF p, b
<1>3. Torns(p, d) /\ Torns(b, d)
  BY <1>1, <1>2 DEF Torns
<1>4. DirInv(p, off, dmg) /\ DirInv(b, off, dmg)
  BY <1>1, <1>2, <1>3, TornDir
<1> QED
  BY <1>1, <1>2, <1>3, <1>4 DEF p, b

-----------------------------------------------------------------------------
(* The steps.                                                               *)

\* A scrape begins or ends.
LEMMA ScrapeMInv ==
  ASSUME MInv, ScrapeBegin \/ ScrapeEnd
  PROVE  MInv'
<1>1. /\ UNCHANGED <<disk, durable, memory, running, consumer, held, blocked, history, bounds>>
      /\ scraping' \in BOOLEAN
  BY DEF ScrapeBegin, ScrapeEnd
<1>2. TypeOK'
  BY <1>1 DEF MInv, TypeOK, memory, running, history
<1>3. /\ ControlInv' /\ DirInv(disk, offered, damaged)' /\ DirInv(durable, offered, damaged)'
      /\ UpInv' /\ PutInv' /\ BudgetInv' /\ HoldInv' /\ HeldIsHead'
  BY <1>1 DEF MInv, memory, running, history, ControlInv, UpInv, PutInv, BudgetInv, HoldInv,
     HeldIsHead, Up, Owns, SameScope, Charged, Entries
<1>4. OpenInv' /\ TenantInv' /\ OneTenant' /\ AcceptedSurvives' /\ NoLostWakeup'
  BY <1>1 DEF MInv, memory, running, history, OpenInv, TenantInv, OneTenant, AcceptedSurvives,
     NoLostWakeup, Up, Owns, Raw, StageContent
<1>5. RefusalJustified'
  BY <1>1, RefusedJustified DEF MInv, running, RefusalJustified, Justified
<1> QED
  BY <1>2, <1>3, <1>4, <1>5 DEF MInv

\* A batch is refused, because the spool is full or closed.
LEMMA PutRefusedMInv ==
  ASSUME MInv, PutFull \/ PutClosed
  PROVE  MInv'
<1>1. TypeOK'
  <2>1. offered' \in 0..MaxBatches /\ 1..offered \subseteq 1..offered'
    <3>1. offered \in 0..MaxBatches /\ offered < MaxBatches /\ offered' = offered + 1
      BY DEF MInv, TypeOK, PutFull, PutClosed
    <3> QED
      BY <3>1, BoundFacts
  <2> QED
    BY <2>1 DEF MInv, TypeOK, PutFull, PutClosed, memory, running, loop, history, bounds
<1>2. ControlInv'
  BY DEF MInv, ControlInv, Up, PutFull, PutClosed, Idle, memory, running, loop, history, bounds
<1>3. DirInv(disk, offered, damaged)'
  <2>1. offered \in Nat /\ offered' = offered + 1 /\ damaged' = damaged /\ disk \in Dirs /\ durable \in Dirs
    BY BoundFacts DEF MInv, TypeOK, PutFull, PutClosed, history
  <2>2. offered' \in Nat /\ offered <= offered'
    BY <2>1
  <2>3. DirInv(disk, offered, damaged)
    BY DEF MInv
  <2>4. DirInv(disk, offered', damaged)
    BY <2>1, <2>2, <2>3, MoreOffered
  <2> QED
    BY <2>1, <2>4 DEF PutFull, PutClosed
<1>4. DirInv(durable, offered, damaged)'
  <2>1. offered \in Nat /\ offered' = offered + 1 /\ damaged' = damaged /\ disk \in Dirs /\ durable \in Dirs
    BY BoundFacts DEF MInv, TypeOK, PutFull, PutClosed, history
  <2>2. offered' \in Nat /\ offered <= offered'
    BY <2>1
  <2>3. DirInv(durable, offered, damaged)
    BY DEF MInv
  <2>4. DirInv(durable, offered', damaged)
    BY <2>1, <2>2, <2>3, MoreOffered
  <2> QED
    BY <2>1, <2>4 DEF PutFull, PutClosed
<1>5. UpInv'
  <2>1. manifest.next <= offered + 1 /\ manifest.next \in Nat /\ offered \in Nat
    BY ControlFacts DEF MInv, TypeOK, UpInv, Up, PutFull, PutClosed, Idle
  <2>2. manifest.next <= offered' + 1
    BY <2>1 DEF PutFull, PutClosed
  <2> QED
    BY <2>2 DEF MInv, UpInv, Up, Owns, SameScope, PutFull, PutClosed, Idle, memory, running, loop,
       history, bounds
<1>6. PutInv'
  BY DEF MInv, PutInv, ControlInv, PutFull, PutClosed, Idle, memory, running, loop, history, bounds
<1>7. OpenInv'
  BY DEF MInv, OpenInv, ControlInv, Owns, Raw, StageContent, PutFull, PutClosed, Idle, memory, running,
     loop, history, bounds
<1>8. BudgetInv'
  BY DEF MInv, BudgetInv, ControlInv, Up, Charged, Entries, PutFull, PutClosed, Idle, memory, running,
     loop, history, bounds
<1>9. HoldInv'
  BY DEF MInv, HoldInv, ControlInv, Up, PutFull, PutClosed, Idle, memory, running, loop, history, bounds
<1>10. HeldIsHead'
  BY DEF MInv, HeldIsHead, ControlInv, Up, PutFull, PutClosed, Idle, memory, running, loop, history, bounds
<1>11. TenantInv'
  BY DEF MInv, TenantInv, ControlInv, Up, PutFull, PutClosed, Idle, memory, running, loop, history, bounds
<1>12. OneTenant'
  BY DEF MInv, OneTenant, ControlInv, Up, UpInv, Owns, PutFull, PutClosed, Idle, memory, running, loop,
     history, bounds
<1>13. AcceptedSurvives'
  BY DEF MInv, AcceptedSurvives, PutFull, PutClosed, Idle, memory, running, loop, history, bounds
<1>14. RefusalJustified'
  BY DEF MInv, RefusalJustified, ControlInv, Up, PutFull, PutClosed, Idle, memory, running, loop, history,
     bounds
<1>15. NoLostWakeup'
  BY DEF MInv, NoLostWakeup, ControlInv, Up, PutFull, PutClosed, Idle, memory, running, loop, history,
     bounds
<1> QED
  BY <1>1, <1>2, <1>3, <1>4, <1>5, <1>6, <1>7, <1>8, <1>9, <1>10, <1>11, <1>12, <1>13, <1>14,
     <1>15 DEF MInv

\* Next returns the head.
LEMMA NextReturnsMInv ==
  ASSUME MInv, NextReturns
  PROVE  MInv'
<1>1. TypeOK'
  BY DEF MInv, TypeOK, NextReturns, Idle, memory, running, loop, history, bounds
<1>2. ControlInv'
  BY DEF MInv, ControlInv, Up, NextReturns, Idle, memory, running, loop, history, bounds
<1>3. DirInv(disk, offered, damaged)'
  BY DEF MInv, NextReturns, Idle, memory, running, loop, history, bounds
<1>4. DirInv(durable, offered, damaged)'
  BY DEF MInv, NextReturns, Idle, memory, running, loop, history, bounds
<1>5. UpInv'
  BY DEF MInv, UpInv, ControlInv, Up, Owns, SameScope, NextReturns, Idle, memory, running,
     loop, history, bounds
<1>6. PutInv'
  BY DEF MInv, PutInv, ControlInv, NextReturns, Idle, memory, running, loop, history, bounds
<1>7. OpenInv'
  BY DEF MInv, OpenInv, ControlInv, Owns, Raw, StageContent, NextReturns, Idle, memory,
     running, loop, history, bounds
<1>8. BudgetInv'
  BY DEF MInv, BudgetInv, ControlInv, Up, Charged, Entries, NextReturns, Idle, memory, running,
     loop, history, bounds
<1>9. HoldInv'
  BY DEF MInv, HoldInv, ControlInv, Up, NextReturns, Idle, memory, running, loop, history,
     bounds
<1>10. HeldIsHead'
  BY DEF MInv, HeldIsHead, ControlInv, Up, NextReturns, Idle, memory, running, loop, history,
     bounds
<1>11. TenantInv'
  BY DEF MInv, TenantInv, ControlInv, Up, NextReturns, Idle, memory, running, loop, history,
     bounds
<1>12. OneTenant'
  BY DEF MInv, OneTenant, ControlInv, Up, UpInv, Owns, NextReturns, Idle, memory, running,
     loop, history, bounds
<1>13. AcceptedSurvives'
  BY DEF MInv, AcceptedSurvives, NextReturns, Idle, memory, running, loop, history, bounds
<1>14. RefusalJustified'
  BY DEF MInv, RefusalJustified, ControlInv, Up, NextReturns, Idle, memory, running, loop,
     history, bounds
<1>15. NoLostWakeup'
  BY DEF MInv, NoLostWakeup, ControlInv, Up, NextReturns, Idle, memory, running, loop, history,
     bounds
<1> QED
  BY <1>1, <1>2, <1>3, <1>4, <1>5, <1>6, <1>7, <1>8, <1>9, <1>10, <1>11, <1>12, <1>13, <1>14,
     <1>15 DEF MInv

\* Next waits for a record.
LEMMA NextWaitsMInv ==
  ASSUME MInv, NextWaits
  PROVE  MInv'
<1>1. TypeOK'
  BY DEF MInv, TypeOK, NextWaits, Idle, memory, running, loop, history, bounds
<1>2. ControlInv'
  BY DEF MInv, ControlInv, Up, NextWaits, Idle, memory, running, loop, history, bounds
<1>3. DirInv(disk, offered, damaged)'
  BY DEF MInv, NextWaits, Idle, memory, running, loop, history, bounds
<1>4. DirInv(durable, offered, damaged)'
  BY DEF MInv, NextWaits, Idle, memory, running, loop, history, bounds
<1>5. UpInv'
  BY DEF MInv, UpInv, ControlInv, Up, Owns, SameScope, NextWaits, Idle, memory, running, loop,
     history, bounds
<1>6. PutInv'
  BY DEF MInv, PutInv, ControlInv, NextWaits, Idle, memory, running, loop, history, bounds
<1>7. OpenInv'
  BY DEF MInv, OpenInv, ControlInv, Owns, Raw, StageContent, NextWaits, Idle, memory, running,
     loop, history, bounds
<1>8. BudgetInv'
  BY DEF MInv, BudgetInv, ControlInv, Up, Charged, Entries, NextWaits, Idle, memory, running,
     loop, history, bounds
<1>9. HoldInv'
  BY DEF MInv, HoldInv, ControlInv, Up, NextWaits, Idle, memory, running, loop, history, bounds
<1>10. HeldIsHead'
  BY DEF MInv, HeldIsHead, ControlInv, Up, NextWaits, Idle, memory, running, loop, history,
     bounds
<1>11. TenantInv'
  BY DEF MInv, TenantInv, ControlInv, Up, NextWaits, Idle, memory, running, loop, history,
     bounds
<1>12. OneTenant'
  BY DEF MInv, OneTenant, ControlInv, Up, UpInv, Owns, NextWaits, Idle, memory, running, loop,
     history, bounds
<1>13. AcceptedSurvives'
  BY DEF MInv, AcceptedSurvives, NextWaits, Idle, memory, running, loop, history, bounds
<1>14. RefusalJustified'
  BY DEF MInv, RefusalJustified, ControlInv, Up, NextWaits, Idle, memory, running, loop,
     history, bounds
<1>15. NoLostWakeup'
  BY DEF MInv, NoLostWakeup, ControlInv, Up, NextWaits, Idle, memory, running, loop, history,
     bounds
<1> QED
  BY <1>1, <1>2, <1>3, <1>4, <1>5, <1>6, <1>7, <1>8, <1>9, <1>10, <1>11, <1>12, <1>13, <1>14,
     <1>15 DEF MInv

\* Next is woken.
LEMMA NextWokenMInv ==
  ASSUME MInv, NextWoken
  PROVE  MInv'
<1>1. TypeOK'
  BY DEF MInv, TypeOK, NextWoken, Idle, memory, running, loop, history, bounds
<1>2. ControlInv'
  BY DEF MInv, ControlInv, Up, NextWoken, Idle, memory, running, loop, history, bounds
<1>3. DirInv(disk, offered, damaged)'
  BY DEF MInv, NextWoken, Idle, memory, running, loop, history, bounds
<1>4. DirInv(durable, offered, damaged)'
  BY DEF MInv, NextWoken, Idle, memory, running, loop, history, bounds
<1>5. UpInv'
  BY DEF MInv, UpInv, ControlInv, Up, Owns, SameScope, NextWoken, Idle, memory, running, loop,
     history, bounds
<1>6. PutInv'
  BY DEF MInv, PutInv, ControlInv, NextWoken, Idle, memory, running, loop, history, bounds
<1>7. OpenInv'
  BY DEF MInv, OpenInv, ControlInv, Owns, Raw, StageContent, NextWoken, Idle, memory, running,
     loop, history, bounds
<1>8. BudgetInv'
  BY DEF MInv, BudgetInv, ControlInv, Up, Charged, Entries, NextWoken, Idle, memory, running,
     loop, history, bounds
<1>9. HoldInv'
  BY DEF MInv, HoldInv, ControlInv, Up, NextWoken, Idle, memory, running, loop, history, bounds
<1>10. HeldIsHead'
  BY DEF MInv, HeldIsHead, ControlInv, Up, NextWoken, Idle, memory, running, loop, history,
     bounds
<1>11. TenantInv'
  BY DEF MInv, TenantInv, ControlInv, Up, NextWoken, Idle, memory, running, loop, history,
     bounds
<1>12. OneTenant'
  BY DEF MInv, OneTenant, ControlInv, Up, UpInv, Owns, NextWoken, Idle, memory, running, loop,
     history, bounds
<1>13. AcceptedSurvives'
  BY DEF MInv, AcceptedSurvives, NextWoken, Idle, memory, running, loop, history, bounds
<1>14. RefusalJustified'
  BY DEF MInv, RefusalJustified, ControlInv, Up, NextWoken, Idle, memory, running, loop,
     history, bounds
<1>15. NoLostWakeup'
  BY DEF MInv, NoLostWakeup, ControlInv, Up, NextWoken, Idle, memory, running, loop, history,
     bounds
<1> QED
  BY <1>1, <1>2, <1>3, <1>4, <1>5, <1>6, <1>7, <1>8, <1>9, <1>10, <1>11, <1>12, <1>13, <1>14,
     <1>15 DEF MInv

\* Next finds the spool closed.
LEMMA NextClosedMInv ==
  ASSUME MInv, NextClosed
  PROVE  MInv'
<1>1. TypeOK'
  BY DEF MInv, TypeOK, NextClosed, Pause, Idle, memory, running, loop, history, bounds
<1>2. ControlInv'
  BY DEF MInv, ControlInv, Up, NextClosed, Pause, Idle, memory, running, loop, history, bounds
<1>3. DirInv(disk, offered, damaged)'
  BY DEF MInv, NextClosed, Pause, Idle, memory, running, loop, history, bounds
<1>4. DirInv(durable, offered, damaged)'
  BY DEF MInv, NextClosed, Pause, Idle, memory, running, loop, history, bounds
<1>5. UpInv'
  BY DEF MInv, UpInv, ControlInv, Up, Owns, SameScope, NextClosed, Pause, Idle, memory,
     running, loop, history, bounds
<1>6. PutInv'
  BY DEF MInv, PutInv, ControlInv, NextClosed, Pause, Idle, memory, running, loop, history,
     bounds
<1>7. OpenInv'
  BY DEF MInv, OpenInv, ControlInv, Owns, Raw, StageContent, NextClosed, Pause, Idle, memory,
     running, loop, history, bounds
<1>8. BudgetInv'
  BY DEF MInv, BudgetInv, ControlInv, Up, Charged, Entries, NextClosed, Pause, Idle, memory,
     running, loop, history, bounds
<1>9. HoldInv'
  BY DEF MInv, HoldInv, ControlInv, Up, NextClosed, Pause, Idle, memory, running, loop,
     history, bounds
<1>10. HeldIsHead'
  BY DEF MInv, HeldIsHead, ControlInv, Up, NextClosed, Pause, Idle, memory, running, loop,
     history, bounds
<1>11. TenantInv'
  BY DEF MInv, TenantInv, ControlInv, Up, NextClosed, Pause, Idle, memory, running, loop,
     history, bounds
<1>12. OneTenant'
  BY DEF MInv, OneTenant, ControlInv, Up, UpInv, Owns, NextClosed, Pause, Idle, memory,
     running, loop, history, bounds
<1>13. AcceptedSurvives'
  BY DEF MInv, AcceptedSurvives, NextClosed, Pause, Idle, memory, running, loop, history, bounds
<1>14. RefusalJustified'
  BY DEF MInv, RefusalJustified, ControlInv, Up, NextClosed, Pause, Idle, memory, running,
     loop, history, bounds
<1>15. NoLostWakeup'
  BY DEF MInv, NoLostWakeup, ControlInv, Up, NextClosed, Pause, Idle, memory, running, loop,
     history, bounds
<1> QED
  BY <1>1, <1>2, <1>3, <1>4, <1>5, <1>6, <1>7, <1>8, <1>9, <1>10, <1>11, <1>12, <1>13, <1>14,
     <1>15 DEF MInv

\* The backend takes the batch.
LEMMA SendAcceptedMInv ==
  ASSUME MInv, SendAccepted
  PROVE  MInv'
<1>1. /\ op \in {"idle", "put"} /\ Up /\ held \in Stored(disk)
      /\ disk.recs[held].batch \in 1..offered /\ op # "ack"
  BY HeldStored DEF MInv, ControlInv, SendAccepted
<1>20. TypeOK'
  BY <1>1 DEF MInv, TypeOK, Sending, SendAccepted, Idle, memory, running, loop, history, bounds
<1>21. ControlInv'
  BY <1>1 DEF MInv, ControlInv, Up, SendAccepted, Idle, memory, running, loop, history, bounds
<1>22. DirInv(disk, offered, damaged)'
  BY <1>1 DEF MInv, SendAccepted, Idle, memory, running, loop, history, bounds
<1>23. DirInv(durable, offered, damaged)'
  BY <1>1 DEF MInv, SendAccepted, Idle, memory, running, loop, history, bounds
<1>24. UpInv'
  BY <1>1 DEF MInv, UpInv, ControlInv, Up, Owns, SameScope, SendAccepted, Idle, memory,
     running, loop, history, bounds
<1>25. PutInv'
  BY <1>1 DEF MInv, PutInv, ControlInv, SendAccepted, Idle, memory, running, loop, history,
     bounds
<1>26. OpenInv'
  BY <1>1 DEF MInv, OpenInv, ControlInv, Owns, Raw, StageContent, SendAccepted, Idle, memory,
     running, loop, history, bounds
<1>27. BudgetInv'
  BY <1>1 DEF MInv, BudgetInv, ControlInv, Up, Charged, Entries, SendAccepted, Idle, memory,
     running, loop, history, bounds
<1>28. HoldInv'
  BY <1>1 DEF MInv, HoldInv, ControlInv, Up, Sending, SendAccepted, Idle, memory, running,
     loop, history, bounds
<1>29. HeldIsHead'
  BY <1>1 DEF MInv, HeldIsHead, ControlInv, Up, SendAccepted, Idle, memory, running, loop,
     history, bounds
<1>30. TenantInv'
  BY <1>1 DEF MInv, TenantInv, ControlInv, Up, SendAccepted, Idle, memory, running, loop,
     history, bounds
<1>31. OneTenant'
  BY <1>1 DEF MInv, OneTenant, ControlInv, Up, UpInv, Owns, SendAccepted, Idle, memory,
     running, loop, history, bounds
<1>32. AcceptedSurvives'
  BY <1>1 DEF MInv, AcceptedSurvives, SendAccepted, Idle, memory, running, loop, history, bounds
<1>33. RefusalJustified'
  BY <1>1 DEF MInv, RefusalJustified, ControlInv, Up, SendAccepted, Idle, memory, running,
     loop, history, bounds
<1>34. NoLostWakeup'
  BY <1>1 DEF MInv, NoLostWakeup, ControlInv, Up, SendAccepted, Idle, memory, running, loop,
     history, bounds
<1> QED
  BY <1>20, <1>21, <1>22, <1>23, <1>24, <1>25, <1>26, <1>27, <1>28, <1>29, <1>30, <1>31, <1>32,
     <1>33, <1>34 DEF MInv

\* No attempt got an answer.
LEMMA SendExhaustedMInv ==
  ASSUME MInv, SendExhausted
  PROVE  MInv'
<1>1. /\ op \in {"idle", "put"} /\ Up /\ held \in Stored(disk)
      /\ disk.recs[held].batch \in 1..offered /\ op # "ack"
  BY HeldStored DEF MInv, ControlInv, SendExhausted
<1>20. TypeOK'
  BY <1>1 DEF MInv, TypeOK, Sending, SendExhausted, Idle, memory, running, loop, history, bounds
<1>21. ControlInv'
  BY <1>1 DEF MInv, ControlInv, Up, SendExhausted, Idle, memory, running, loop, history, bounds
<1>22. DirInv(disk, offered, damaged)'
  BY <1>1 DEF MInv, SendExhausted, Idle, memory, running, loop, history, bounds
<1>23. DirInv(durable, offered, damaged)'
  BY <1>1 DEF MInv, SendExhausted, Idle, memory, running, loop, history, bounds
<1>24. UpInv'
  BY <1>1 DEF MInv, UpInv, ControlInv, Up, Owns, SameScope, SendExhausted, Idle, memory,
     running, loop, history, bounds
<1>25. PutInv'
  BY <1>1 DEF MInv, PutInv, ControlInv, SendExhausted, Idle, memory, running, loop, history,
     bounds
<1>26. OpenInv'
  BY <1>1 DEF MInv, OpenInv, ControlInv, Owns, Raw, StageContent, SendExhausted, Idle, memory,
     running, loop, history, bounds
<1>27. BudgetInv'
  BY <1>1 DEF MInv, BudgetInv, ControlInv, Up, Charged, Entries, SendExhausted, Idle, memory,
     running, loop, history, bounds
<1>28. HoldInv'
  BY <1>1 DEF MInv, HoldInv, ControlInv, Up, Sending, SendExhausted, Idle, memory, running,
     loop, history, bounds
<1>29. HeldIsHead'
  BY <1>1 DEF MInv, HeldIsHead, ControlInv, Up, SendExhausted, Idle, memory, running, loop,
     history, bounds
<1>30. TenantInv'
  BY <1>1 DEF MInv, TenantInv, ControlInv, Up, SendExhausted, Idle, memory, running, loop,
     history, bounds
<1>31. OneTenant'
  BY <1>1 DEF MInv, OneTenant, ControlInv, Up, UpInv, Owns, SendExhausted, Idle, memory,
     running, loop, history, bounds
<1>32. AcceptedSurvives'
  BY <1>1 DEF MInv, AcceptedSurvives, SendExhausted, Idle, memory, running, loop, history,
     bounds
<1>33. RefusalJustified'
  BY <1>1 DEF MInv, RefusalJustified, ControlInv, Up, SendExhausted, Idle, memory, running,
     loop, history, bounds
<1>34. NoLostWakeup'
  BY <1>1 DEF MInv, NoLostWakeup, ControlInv, Up, SendExhausted, Idle, memory, running, loop,
     history, bounds
<1> QED
  BY <1>20, <1>21, <1>22, <1>23, <1>24, <1>25, <1>26, <1>27, <1>28, <1>29, <1>30, <1>31, <1>32,
     <1>33, <1>34 DEF MInv

\* The backend refuses the batch.
LEMMA SendRefusedMInv ==
  ASSUME MInv, SendRefused
  PROVE  MInv'
<1>1. /\ op \in {"idle", "put"} /\ Up /\ held \in Stored(disk)
      /\ disk.recs[held].batch \in 1..offered /\ op # "ack"
  BY HeldStored DEF MInv, ControlInv, SendRefused
<1>20. TypeOK'
  BY <1>1 DEF MInv, TypeOK, SendRefused, Pause, Idle, memory, running, loop, history, bounds
<1>21. ControlInv'
  BY <1>1 DEF MInv, ControlInv, Up, SendRefused, Pause, Idle, memory, running, loop, history,
     bounds
<1>22. DirInv(disk, offered, damaged)'
  BY <1>1 DEF MInv, SendRefused, Pause, Idle, memory, running, loop, history, bounds
<1>23. DirInv(durable, offered, damaged)'
  BY <1>1 DEF MInv, SendRefused, Pause, Idle, memory, running, loop, history, bounds
<1>24. UpInv'
  BY <1>1 DEF MInv, UpInv, ControlInv, Up, Owns, SameScope, SendRefused, Pause, Idle, memory,
     running, loop, history, bounds
<1>25. PutInv'
  BY <1>1 DEF MInv, PutInv, ControlInv, SendRefused, Pause, Idle, memory, running, loop,
     history, bounds
<1>26. OpenInv'
  BY <1>1 DEF MInv, OpenInv, ControlInv, Owns, Raw, StageContent, SendRefused, Pause, Idle,
     memory, running, loop, history, bounds
<1>27. BudgetInv'
  BY <1>1 DEF MInv, BudgetInv, ControlInv, Up, Charged, Entries, SendRefused, Pause, Idle,
     memory, running, loop, history, bounds
<1>28. HoldInv'
  BY <1>1 DEF MInv, HoldInv, ControlInv, Up, SendRefused, Pause, Idle, memory, running, loop,
     history, bounds
<1>29. HeldIsHead'
  BY <1>1 DEF MInv, HeldIsHead, ControlInv, Up, SendRefused, Pause, Idle, memory, running,
     loop, history, bounds
<1>30. TenantInv'
  BY <1>1 DEF MInv, TenantInv, ControlInv, Up, SendRefused, Pause, Idle, memory, running, loop,
     history, bounds
<1>31. OneTenant'
  BY <1>1 DEF MInv, OneTenant, ControlInv, Up, UpInv, Owns, SendRefused, Pause, Idle, memory,
     running, loop, history, bounds
<1>32. AcceptedSurvives'
  BY <1>1 DEF MInv, AcceptedSurvives, SendRefused, Pause, Idle, memory, running, loop, history,
     bounds
<1>33. RefusalJustified'
  BY <1>1 DEF MInv, RefusalJustified, ControlInv, Up, SendRefused, Pause, Idle, memory,
     running, loop, history, bounds
<1>34. NoLostWakeup'
  BY <1>1 DEF MInv, NoLostWakeup, ControlInv, Up, SendRefused, Pause, Idle, memory, running,
     loop, history, bounds
<1> QED
  BY <1>20, <1>21, <1>22, <1>23, <1>24, <1>25, <1>26, <1>27, <1>28, <1>29, <1>30, <1>31, <1>32,
     <1>33, <1>34 DEF MInv

\* Ack is refused.
LEMMA AckRefusedMInv ==
  ASSUME MInv, AckRefused
  PROVE  MInv'
<1>1. TypeOK'
  BY DEF MInv, TypeOK, AckRefused, Pause, Idle, memory, running, loop, history, bounds
<1>2. ControlInv'
  BY DEF MInv, ControlInv, Up, AckRefused, Pause, Idle, memory, running, loop, history, bounds
<1>3. DirInv(disk, offered, damaged)'
  BY DEF MInv, AckRefused, Pause, Idle, memory, running, loop, history, bounds
<1>4. DirInv(durable, offered, damaged)'
  BY DEF MInv, AckRefused, Pause, Idle, memory, running, loop, history, bounds
<1>5. UpInv'
  BY DEF MInv, UpInv, ControlInv, Up, Owns, SameScope, AckRefused, Pause, Idle, memory,
     running, loop, history, bounds
<1>6. PutInv'
  BY DEF MInv, PutInv, ControlInv, AckRefused, Pause, Idle, memory, running, loop, history,
     bounds
<1>7. OpenInv'
  BY DEF MInv, OpenInv, ControlInv, Owns, Raw, StageContent, AckRefused, Pause, Idle, memory,
     running, loop, history, bounds
<1>8. BudgetInv'
  BY DEF MInv, BudgetInv, ControlInv, Up, Charged, Entries, AckRefused, Pause, Idle, memory,
     running, loop, history, bounds
<1>9. HoldInv'
  BY DEF MInv, HoldInv, ControlInv, Up, AckRefused, Pause, Idle, memory, running, loop,
     history, bounds
<1>10. HeldIsHead'
  BY DEF MInv, HeldIsHead, ControlInv, Up, AckRefused, Pause, Idle, memory, running, loop,
     history, bounds
<1>11. TenantInv'
  BY DEF MInv, TenantInv, ControlInv, Up, AckRefused, Pause, Idle, memory, running, loop,
     history, bounds
<1>12. OneTenant'
  BY DEF MInv, OneTenant, ControlInv, Up, UpInv, Owns, AckRefused, Pause, Idle, memory,
     running, loop, history, bounds
<1>13. AcceptedSurvives'
  BY DEF MInv, AcceptedSurvives, AckRefused, Pause, Idle, memory, running, loop, history, bounds
<1>14. RefusalJustified'
  BY DEF MInv, RefusalJustified, ControlInv, Up, AckRefused, Pause, Idle, memory, running,
     loop, history, bounds
<1>15. NoLostWakeup'
  BY DEF MInv, NoLostWakeup, ControlInv, Up, AckRefused, Pause, Idle, memory, running, loop,
     history, bounds
<1> QED
  BY <1>1, <1>2, <1>3, <1>4, <1>5, <1>6, <1>7, <1>8, <1>9, <1>10, <1>11, <1>12, <1>13, <1>14,
     <1>15 DEF MInv

\* The directory fsync of a quarantine fails.
LEMMA QuarantineFailsMInv ==
  ASSUME MInv, QuarantineFails
  PROVE  MInv'
<1>1. TypeOK'
  BY DEF MInv, TypeOK, QuarantineFails, Pause, Goto, Idle, memory, running, loop, history,
     bounds
<1>2. ControlInv'
  BY DEF MInv, ControlInv, Up, QuarantineFails, Pause, Goto, Idle, memory, running, loop,
     history, bounds
<1>3. DirInv(disk, offered, damaged)'
  BY DEF MInv, QuarantineFails, Pause, Goto, Idle, memory, running, loop, history, bounds
<1>4. DirInv(durable, offered, damaged)'
  BY DEF MInv, QuarantineFails, Pause, Goto, Idle, memory, running, loop, history, bounds
<1>5. UpInv'
  BY DEF MInv, UpInv, ControlInv, Up, Owns, SameScope, QuarantineFails, Pause, Goto, Idle,
     memory, running, loop, history, bounds
<1>6. PutInv'
  BY DEF MInv, PutInv, ControlInv, QuarantineFails, Pause, Goto, Idle, memory, running, loop,
     history, bounds
<1>7. OpenInv'
  BY DEF MInv, OpenInv, ControlInv, Owns, Raw, StageContent, QuarantineFails, Pause, Goto,
     Idle, memory, running, loop, history, bounds
<1>8. BudgetInv'
  BY DEF MInv, BudgetInv, ControlInv, Up, Charged, Entries, QuarantineFails, Pause, Goto, Idle,
     memory, running, loop, history, bounds
<1>9. HoldInv'
  BY DEF MInv, HoldInv, ControlInv, Up, QuarantineFails, Pause, Goto, Idle, memory, running,
     loop, history, bounds
<1>10. HeldIsHead'
  BY DEF MInv, HeldIsHead, ControlInv, Up, QuarantineFails, Pause, Goto, Idle, memory, running,
     loop, history, bounds
<1>11. TenantInv'
  BY DEF MInv, TenantInv, ControlInv, Up, QuarantineFails, Pause, Goto, Idle, memory, running,
     loop, history, bounds
<1>12. OneTenant'
  BY DEF MInv, OneTenant, ControlInv, Up, UpInv, Owns, QuarantineFails, Pause, Goto, Idle,
     memory, running, loop, history, bounds
<1>13. AcceptedSurvives'
  BY DEF MInv, AcceptedSurvives, QuarantineFails, Pause, Goto, Idle, memory, running, loop,
     history, bounds
<1>14. RefusalJustified'
  BY DEF MInv, RefusalJustified, ControlInv, Up, QuarantineFails, Pause, Goto, Idle, memory,
     running, loop, history, bounds
<1>15. NoLostWakeup'
  BY DEF MInv, NoLostWakeup, ControlInv, Up, QuarantineFails, Pause, Goto, Idle, memory,
     running, loop, history, bounds
<1> QED
  BY <1>1, <1>2, <1>3, <1>4, <1>5, <1>6, <1>7, <1>8, <1>9, <1>10, <1>11, <1>12, <1>13, <1>14,
     <1>15 DEF MInv

\* The directory fsync of an acknowledgement fails.
LEMMA AckFailsMInv ==
  ASSUME MInv, AckFails
  PROVE  MInv'
<1>1. TypeOK'
  BY DEF MInv, TypeOK, AckFails, Pause, Goto, Idle, memory, running, loop, history, bounds
<1>2. ControlInv'
  BY DEF MInv, ControlInv, Up, AckFails, Pause, Goto, Idle, memory, running, loop, history,
     bounds
<1>3. DirInv(disk, offered, damaged)'
  BY DEF MInv, AckFails, Pause, Goto, Idle, memory, running, loop, history, bounds
<1>4. DirInv(durable, offered, damaged)'
  BY DEF MInv, AckFails, Pause, Goto, Idle, memory, running, loop, history, bounds
<1>5. UpInv'
  BY DEF MInv, UpInv, ControlInv, Up, Owns, SameScope, AckFails, Pause, Goto, Idle, memory,
     running, loop, history, bounds
<1>6. PutInv'
  BY DEF MInv, PutInv, ControlInv, AckFails, Pause, Goto, Idle, memory, running, loop, history,
     bounds
<1>7. OpenInv'
  BY DEF MInv, OpenInv, ControlInv, Owns, Raw, StageContent, AckFails, Pause, Goto, Idle,
     memory, running, loop, history, bounds
<1>8. BudgetInv'
  BY DEF MInv, BudgetInv, ControlInv, Up, Charged, Entries, AckFails, Pause, Goto, Idle,
     memory, running, loop, history, bounds
<1>9. HoldInv'
  BY DEF MInv, HoldInv, ControlInv, Up, AckFails, Pause, Goto, Idle, memory, running, loop,
     history, bounds
<1>10. HeldIsHead'
  BY DEF MInv, HeldIsHead, ControlInv, Up, AckFails, Pause, Goto, Idle, memory, running, loop,
     history, bounds
<1>11. TenantInv'
  BY DEF MInv, TenantInv, ControlInv, Up, AckFails, Pause, Goto, Idle, memory, running, loop,
     history, bounds
<1>12. OneTenant'
  BY DEF MInv, OneTenant, ControlInv, Up, UpInv, Owns, AckFails, Pause, Goto, Idle, memory,
     running, loop, history, bounds
<1>13. AcceptedSurvives'
  BY DEF MInv, AcceptedSurvives, AckFails, Pause, Goto, Idle, memory, running, loop, history,
     bounds
<1>14. RefusalJustified'
  BY DEF MInv, RefusalJustified, ControlInv, Up, AckFails, Pause, Goto, Idle, memory, running,
     loop, history, bounds
<1>15. NoLostWakeup'
  BY DEF MInv, NoLostWakeup, ControlInv, Up, AckFails, Pause, Goto, Idle, memory, running,
     loop, history, bounds
<1> QED
  BY <1>1, <1>2, <1>3, <1>4, <1>5, <1>6, <1>7, <1>8, <1>9, <1>10, <1>11, <1>12, <1>13, <1>14,
     <1>15 DEF MInv

\* An agent opens the spool.
LEMMA OpenBeginMInv ==
  ASSUME MInv, NEW o \in Openers, OpenBegin(o)
  PROVE  MInv'
<1>1. TypeOK'
  BY DEF MInv, TypeOK, OpenBegin, Goto, Idle, memory, running, loop, history, bounds
<1>2. ControlInv'
  BY DEF MInv, ControlInv, Up, OpenBegin, Goto, Idle, memory, running, loop, history, bounds
<1>3. DirInv(disk, offered, damaged)'
  BY DEF MInv, OpenBegin, Goto, Idle, memory, running, loop, history, bounds
<1>4. DirInv(durable, offered, damaged)'
  BY DEF MInv, OpenBegin, Goto, Idle, memory, running, loop, history, bounds
<1>5. UpInv'
  BY DEF MInv, UpInv, ControlInv, Up, Owns, SameScope, OpenBegin, Goto, Idle, memory, running,
     loop, history, bounds
<1>6. PutInv'
  BY DEF MInv, PutInv, ControlInv, OpenBegin, Goto, Idle, memory, running, loop, history, bounds
<1>7. OpenInv'
  BY DEF MInv, OpenInv, ControlInv, Owns, Raw, StageContent, OpenBegin, Goto, Idle, memory,
     running, loop, history, bounds
<1>8. BudgetInv'
  BY DEF MInv, BudgetInv, ControlInv, Up, Charged, Entries, OpenBegin, Goto, Idle, memory,
     running, loop, history, bounds
<1>9. HoldInv'
  BY DEF MInv, HoldInv, ControlInv, Up, OpenBegin, Goto, Idle, memory, running, loop, history,
     bounds
<1>10. HeldIsHead'
  BY DEF MInv, HeldIsHead, ControlInv, Up, OpenBegin, Goto, Idle, memory, running, loop,
     history, bounds
<1>11. TenantInv'
  BY DEF MInv, TenantInv, ControlInv, Up, OpenBegin, Goto, Idle, memory, running, loop,
     history, bounds
<1>12. OneTenant'
  BY DEF MInv, OneTenant, ControlInv, Up, UpInv, Owns, OpenBegin, Goto, Idle, memory, running,
     loop, history, bounds
<1>13. AcceptedSurvives'
  BY DEF MInv, AcceptedSurvives, OpenBegin, Goto, Idle, memory, running, loop, history, bounds
<1>14. RefusalJustified'
  BY DEF MInv, RefusalJustified, ControlInv, Up, OpenBegin, Goto, Idle, memory, running, loop,
     history, bounds
<1>15. NoLostWakeup'
  BY DEF MInv, NoLostWakeup, ControlInv, Up, OpenBegin, Goto, Idle, memory, running, loop,
     history, bounds
<1> QED
  BY <1>1, <1>2, <1>3, <1>4, <1>5, <1>6, <1>7, <1>8, <1>9, <1>10, <1>11, <1>12, <1>13, <1>14,
     <1>15 DEF MInv

\* The manifest is of this configuration.
LEMMA OpenMatchingMInv ==
  ASSUME MInv, OpenMatching
  PROVE  MInv'
<1>1. /\ Raw \in {disk.primary, disk.backup} /\ Raw \in Control /\ Valid(Raw)
      /\ Fresh(disk, Raw.next) /\ Raw.next <= offered + 1
  BY RawFacts DEF OpenMatching
<1>20. TypeOK'
  BY <1>1 DEF MInv, TypeOK, OpenMatching, OpenTo, AtControl, Idle, memory, running, loop,
     history, bounds
<1>21. ControlInv'
  BY <1>1 DEF MInv, ControlInv, Up, Stages, OpenMatching, OpenTo, AtControl, Idle, memory,
     running, loop, history, bounds
<1>22. DirInv(disk, offered, damaged)'
  BY <1>1 DEF MInv, OpenMatching, OpenTo, AtControl, Idle, memory, running, loop, history,
     bounds
<1>23. DirInv(durable, offered, damaged)'
  BY <1>1 DEF MInv, OpenMatching, OpenTo, AtControl, Idle, memory, running, loop, history,
     bounds
<1>24. UpInv'
  BY <1>1 DEF MInv, UpInv, ControlInv, Up, Owns, SameScope, OpenMatching, OpenTo, AtControl,
     Idle, memory, running, loop, history, bounds
<1>25. PutInv'
  BY <1>1 DEF MInv, PutInv, ControlInv, OpenMatching, OpenTo, AtControl, Idle, memory, running,
     loop, history, bounds
<1>26. OpenInv'
  BY <1>1 DEF MInv, OpenInv, ControlInv, Owns, Raw, StageContent, Matches, Migratable,
     Resumable, Upgraded, OpenMatching, OpenTo, AtControl, Idle, memory, running, loop,
     history, bounds
<1>27. BudgetInv'
  BY <1>1 DEF MInv, BudgetInv, ControlInv, Up, Charged, Entries, OpenMatching, OpenTo,
     AtControl, Idle, memory, running, loop, history, bounds
<1>28. HoldInv'
  BY <1>1 DEF MInv, HoldInv, ControlInv, Up, OpenMatching, OpenTo, AtControl, Idle, memory,
     running, loop, history, bounds
<1>29. HeldIsHead'
  BY <1>1 DEF MInv, HeldIsHead, ControlInv, Up, OpenMatching, OpenTo, AtControl, Idle, memory,
     running, loop, history, bounds
<1>30. TenantInv'
  BY <1>1 DEF MInv, TenantInv, ControlInv, Up, Settled, Matches, Migratable, Resumable, Stages,
     OpenMatching, OpenTo, AtControl, Idle, memory, running, loop, history, bounds
<1>31. OneTenant'
  BY <1>1 DEF MInv, OneTenant, ControlInv, Up, UpInv, Owns, OpenMatching, OpenTo, AtControl,
     Idle, memory, running, loop, history, bounds
<1>32. AcceptedSurvives'
  BY <1>1 DEF MInv, AcceptedSurvives, OpenMatching, OpenTo, AtControl, Idle, memory, running,
     loop, history, bounds
<1>33. RefusalJustified'
  BY <1>1 DEF MInv, RefusalJustified, ControlInv, Up, OpenMatching, OpenTo, AtControl, Idle,
     memory, running, loop, history, bounds
<1>34. NoLostWakeup'
  BY <1>1 DEF MInv, NoLostWakeup, ControlInv, Up, OpenMatching, OpenTo, AtControl, Idle,
     memory, running, loop, history, bounds
<1> QED
  BY <1>20, <1>21, <1>22, <1>23, <1>24, <1>25, <1>26, <1>27, <1>28, <1>29, <1>30, <1>31, <1>32,
     <1>33, <1>34 DEF MInv

\* A migration starts.
LEMMA OpenMigratesMInv ==
  ASSUME MInv, OpenMigrates
  PROVE  MInv'
<1>1. /\ Raw \in {disk.primary, disk.backup} /\ Raw \in Control /\ Valid(Raw)
      /\ Fresh(disk, Raw.next) /\ Raw.next <= offered + 1
  BY RawFacts DEF OpenMigrates
<1>20. TypeOK'
  BY <1>1 DEF MInv, TypeOK, OpenMigrates, MigrateTo, AtControl, Idle, memory, running, loop,
     history, bounds
<1>21. ControlInv'
  BY <1>1 DEF MInv, ControlInv, Up, Stages, OpenMigrates, MigrateTo, AtControl, Idle, memory,
     running, loop, history, bounds
<1>22. DirInv(disk, offered, damaged)'
  BY <1>1 DEF MInv, OpenMigrates, MigrateTo, AtControl, Idle, memory, running, loop, history,
     bounds
<1>23. DirInv(durable, offered, damaged)'
  BY <1>1 DEF MInv, OpenMigrates, MigrateTo, AtControl, Idle, memory, running, loop, history,
     bounds
<1>24. UpInv'
  BY <1>1 DEF MInv, UpInv, ControlInv, Up, Owns, SameScope, OpenMigrates, MigrateTo, AtControl,
     Idle, memory, running, loop, history, bounds
<1>25. PutInv'
  BY <1>1 DEF MInv, PutInv, ControlInv, OpenMigrates, MigrateTo, AtControl, Idle, memory,
     running, loop, history, bounds
<1>26. OpenInv'
  <2>1. disk.backup = Raw /\ Raw.ver = 1 /\ opener.v2 /\ disk.journal = NoFile
    BY DEF OpenMigrates, Migratable
  <2>2. disk.primary \in {Raw, Torn, NoFile}
    BY DEF Raw, Valid
  <2>3. /\ op' = "open" /\ step' = "stage" /\ target' = "journal" /\ manifest' = Raw
        /\ disk' = disk /\ opener' = opener
    BY DEF OpenMigrates, MigrateTo, AtControl
  <2> HIDE DEF Raw
  <2> QED
    BY <2>1, <2>2, <2>3 DEF OpenInv
<1>27. BudgetInv'
  BY <1>1 DEF MInv, BudgetInv, ControlInv, Up, Charged, Entries, OpenMigrates, MigrateTo,
     AtControl, Idle, memory, running, loop, history, bounds
<1>28. HoldInv'
  BY <1>1 DEF MInv, HoldInv, ControlInv, Up, OpenMigrates, MigrateTo, AtControl, Idle, memory,
     running, loop, history, bounds
<1>29. HeldIsHead'
  BY <1>1 DEF MInv, HeldIsHead, ControlInv, Up, OpenMigrates, MigrateTo, AtControl, Idle,
     memory, running, loop, history, bounds
<1>30. TenantInv'
  BY <1>1, CopyFacts DEF MInv, TenantInv, ControlInv, Up, Settled, Matches, Migratable,
     Resumable, Stages, OpenMigrates, MigrateTo, AtControl, Idle, memory, running, loop,
     history, bounds
<1>31. OneTenant'
  BY <1>1 DEF MInv, OneTenant, ControlInv, Up, UpInv, Owns, OpenMigrates, MigrateTo, AtControl,
     Idle, memory, running, loop, history, bounds
<1>32. AcceptedSurvives'
  BY <1>1 DEF MInv, AcceptedSurvives, OpenMigrates, MigrateTo, AtControl, Idle, memory,
     running, loop, history, bounds
<1>33. RefusalJustified'
  BY <1>1 DEF MInv, RefusalJustified, ControlInv, Up, OpenMigrates, MigrateTo, AtControl, Idle,
     memory, running, loop, history, bounds
<1>34. NoLostWakeup'
  BY <1>1 DEF MInv, NoLostWakeup, ControlInv, Up, OpenMigrates, MigrateTo, AtControl, Idle,
     memory, running, loop, history, bounds
<1> QED
  BY <1>20, <1>21, <1>22, <1>23, <1>24, <1>25, <1>26, <1>27, <1>28, <1>29, <1>30, <1>31, <1>32,
     <1>33, <1>34 DEF MInv

\* A migration is resumed.
LEMMA OpenResumesMInv ==
  ASSUME MInv, OpenResumes
  PROVE  MInv'
<1>1. /\ disk.journal \in Journal /\ disk.journal # NoFile /\ Upgraded(disk.journal) \in Control
  BY DirFacts, JournalFacts DEF MInv, TypeOK, OpenResumes
<1>20. TypeOK'
  BY <1>1 DEF MInv, TypeOK, OpenResumes, MigrateTo, AtControl, Idle, memory, running, loop,
     history, bounds
<1>21. ControlInv'
  BY <1>1 DEF MInv, ControlInv, Up, Stages, OpenResumes, MigrateTo, AtControl, Idle, memory,
     running, loop, history, bounds
<1>22. DirInv(disk, offered, damaged)'
  BY <1>1 DEF MInv, OpenResumes, MigrateTo, AtControl, Idle, memory, running, loop, history,
     bounds
<1>23. DirInv(durable, offered, damaged)'
  BY <1>1 DEF MInv, OpenResumes, MigrateTo, AtControl, Idle, memory, running, loop, history,
     bounds
<1>24. UpInv'
  BY <1>1 DEF MInv, UpInv, ControlInv, Up, Owns, SameScope, OpenResumes, MigrateTo, AtControl,
     Idle, memory, running, loop, history, bounds
<1>25. PutInv'
  BY <1>1 DEF MInv, PutInv, ControlInv, OpenResumes, MigrateTo, AtControl, Idle, memory,
     running, loop, history, bounds
<1>26. OpenInv'
  BY <1>1 DEF MInv, OpenInv, ControlInv, Owns, Raw, StageContent, Matches, Migratable,
     Resumable, Upgraded, OpenResumes, MigrateTo, AtControl, Idle, memory, running, loop,
     history, bounds
<1>27. BudgetInv'
  BY <1>1 DEF MInv, BudgetInv, ControlInv, Up, Charged, Entries, OpenResumes, MigrateTo,
     AtControl, Idle, memory, running, loop, history, bounds
<1>28. HoldInv'
  BY <1>1 DEF MInv, HoldInv, ControlInv, Up, OpenResumes, MigrateTo, AtControl, Idle, memory,
     running, loop, history, bounds
<1>29. HeldIsHead'
  BY <1>1 DEF MInv, HeldIsHead, ControlInv, Up, OpenResumes, MigrateTo, AtControl, Idle,
     memory, running, loop, history, bounds
<1>30. TenantInv'
  BY <1>1 DEF MInv, TenantInv, ControlInv, Up, Settled, Matches, Migratable, Resumable, Stages,
     OpenResumes, MigrateTo, AtControl, Idle, memory, running, loop, history, bounds
<1>31. OneTenant'
  BY <1>1 DEF MInv, OneTenant, ControlInv, Up, UpInv, Owns, OpenResumes, MigrateTo, AtControl,
     Idle, memory, running, loop, history, bounds
<1>32. AcceptedSurvives'
  BY <1>1 DEF MInv, AcceptedSurvives, OpenResumes, MigrateTo, AtControl, Idle, memory, running,
     loop, history, bounds
<1>33. RefusalJustified'
  BY <1>1 DEF MInv, RefusalJustified, ControlInv, Up, OpenResumes, MigrateTo, AtControl, Idle,
     memory, running, loop, history, bounds
<1>34. NoLostWakeup'
  BY <1>1 DEF MInv, NoLostWakeup, ControlInv, Up, OpenResumes, MigrateTo, AtControl, Idle,
     memory, running, loop, history, bounds
<1> QED
  BY <1>20, <1>21, <1>22, <1>23, <1>24, <1>25, <1>26, <1>27, <1>28, <1>29, <1>30, <1>31, <1>32,
     <1>33, <1>34 DEF MInv

\* openDisk refuses the directory.
LEMMA OpenRefusedMInv ==
  ASSUME MInv, OpenRefused
  PROVE  MInv'
<1>1. TypeOK'
  BY DEF MInv, TypeOK, OpenRefused, Goto, Scanned, Idle, memory, running, loop, history, bounds
<1>2. ControlInv'
  BY DEF MInv, ControlInv, Up, OpenRefused, Goto, Scanned, Idle, memory, running, loop,
     history, bounds
<1>3. DirInv(disk, offered, damaged)'
  BY DEF MInv, OpenRefused, Goto, Scanned, Idle, memory, running, loop, history, bounds
<1>4. DirInv(durable, offered, damaged)'
  BY DEF MInv, OpenRefused, Goto, Scanned, Idle, memory, running, loop, history, bounds
<1>5. UpInv'
  BY DEF MInv, UpInv, ControlInv, Up, Owns, SameScope, OpenRefused, Goto, Scanned, Idle,
     memory, running, loop, history, bounds
<1>6. PutInv'
  BY DEF MInv, PutInv, ControlInv, OpenRefused, Goto, Scanned, Idle, memory, running, loop,
     history, bounds
<1>7. OpenInv'
  BY DEF MInv, OpenInv, ControlInv, Owns, Raw, StageContent, OpenRefused, Goto, Scanned, Idle,
     memory, running, loop, history, bounds
<1>8. BudgetInv'
  BY DEF MInv, BudgetInv, ControlInv, Up, Charged, Entries, OpenRefused, Goto, Scanned, Idle,
     memory, running, loop, history, bounds
<1>9. HoldInv'
  BY DEF MInv, HoldInv, ControlInv, Up, OpenRefused, Goto, Scanned, Idle, memory, running,
     loop, history, bounds
<1>10. HeldIsHead'
  BY DEF MInv, HeldIsHead, ControlInv, Up, OpenRefused, Goto, Scanned, Idle, memory, running,
     loop, history, bounds
<1>11. TenantInv'
  BY DEF MInv, TenantInv, ControlInv, Up, OpenRefused, Goto, Scanned, Idle, memory, running,
     loop, history, bounds
<1>12. OneTenant'
  BY DEF MInv, OneTenant, ControlInv, Up, UpInv, Owns, OpenRefused, Goto, Scanned, Idle,
     memory, running, loop, history, bounds
<1>13. AcceptedSurvives'
  BY DEF MInv, AcceptedSurvives, OpenRefused, Goto, Scanned, Idle, memory, running, loop,
     history, bounds
<1>14. RefusalJustified'
  <2>1. Justified
    BY ControlRefusedJustified, StageRefusedJustified, ScanRefusedJustified DEF OpenRefused
  <2> QED
    BY <2>1, RefusedJustified DEF OpenRefused
<1>15. NoLostWakeup'
  BY DEF MInv, NoLostWakeup, ControlInv, Up, OpenRefused, Goto, Scanned, Idle, memory, running,
     loop, history, bounds
<1> QED
  BY <1>1, <1>2, <1>3, <1>4, <1>5, <1>6, <1>7, <1>8, <1>9, <1>10, <1>11, <1>12, <1>13, <1>14,
     <1>15 DEF MInv

\* The agent stops.
LEMMA CloseMInv ==
  ASSUME MInv, Close
  PROVE  MInv'
<1>1. TypeOK'
  BY NoManifestType DEF MInv, TypeOK, Close, RunEnds, Goto, Idle, memory, running, loop,
     history, bounds
<1>2. ControlInv'
  BY DEF MInv, ControlInv, Up, Close, RunEnds, Goto, Idle, memory, running, loop, history,
     bounds
<1>3. DirInv(disk, offered, damaged)'
  BY DEF MInv, Close, RunEnds, Goto, Idle, memory, running, loop, history, bounds
<1>4. DirInv(durable, offered, damaged)'
  BY DEF MInv, Close, RunEnds, Goto, Idle, memory, running, loop, history, bounds
<1>5. UpInv'
  BY DEF MInv, UpInv, ControlInv, Up, Owns, SameScope, Close, RunEnds, Goto, Idle, memory,
     running, loop, history, bounds
<1>6. PutInv'
  BY DEF MInv, PutInv, ControlInv, Close, RunEnds, Goto, Idle, memory, running, loop, history,
     bounds
<1>7. OpenInv'
  BY DEF MInv, OpenInv, ControlInv, Owns, Raw, StageContent, Close, RunEnds, Goto, Idle,
     memory, running, loop, history, bounds
<1>8. BudgetInv'
  BY DEF MInv, BudgetInv, ControlInv, Up, Charged, Entries, Close, RunEnds, Goto, Idle, memory,
     running, loop, history, bounds
<1>9. HoldInv'
  BY DEF MInv, HoldInv, ControlInv, Up, Close, RunEnds, Goto, Idle, memory, running, loop,
     history, bounds
<1>10. HeldIsHead'
  BY DEF MInv, HeldIsHead, ControlInv, Up, Close, RunEnds, Goto, Idle, memory, running, loop,
     history, bounds
<1>11. TenantInv'
  BY DEF MInv, TenantInv, ControlInv, Up, Close, RunEnds, Goto, Idle, memory, running, loop,
     history, bounds
<1>12. OneTenant'
  BY DEF MInv, OneTenant, ControlInv, Up, UpInv, Owns, Close, RunEnds, Goto, Idle, memory,
     running, loop, history, bounds
<1>13. AcceptedSurvives'
  BY DEF MInv, AcceptedSurvives, Close, RunEnds, Goto, Idle, memory, running, loop, history,
     bounds
<1>14. RefusalJustified'
  BY DEF MInv, RefusalJustified, ControlInv, Up, Close, RunEnds, Goto, Idle, memory, running,
     loop, history, bounds
<1>15. NoLostWakeup'
  BY DEF MInv, NoLostWakeup, ControlInv, Up, Close, RunEnds, Goto, Idle, memory, running, loop,
     history, bounds
<1> QED
  BY <1>1, <1>2, <1>3, <1>4, <1>5, <1>6, <1>7, <1>8, <1>9, <1>10, <1>11, <1>12, <1>13, <1>14,
     <1>15 DEF MInv

\* The backup is saved, the primary copy is next.
LEMMA SavePrimaryMInv ==
  ASSUME MInv, SavePrimary
  PROVE  MInv'
<1>1. disk \in Dirs /\ disk' \in Dirs /\ Alike(disk', disk)
  BY PendingSet DEF MInv, TypeOK, SavePrimary, Stage
<1>2. /\ disk'.primary = disk.primary /\ disk'.backup = disk.backup /\ disk'.journal = disk.journal
      /\ disk'.stage = disk.stage /\ disk'.recs = disk.recs /\ disk'.bad = disk.bad
      /\ Stored(disk') = Stored(disk) /\ Numbers(disk') = Numbers(disk)
      /\ RecordCosts(disk') = RecordCosts(disk) /\ BadCosts(disk') = BadCosts(disk)
      /\ EntriesOf(disk') = EntriesOf(disk)
  BY <1>1, AlikeAll
<1>3. /\ \A b : Holds(disk', b) <=> Holds(disk, b)
      /\ \A h : Settled(disk, h) => Settled(disk', h)
      /\ \A off, dmg : DirInv(disk, off, dmg) => DirInv(disk', off, dmg)
  BY <1>1, AlikeAll
<1>20. TypeOK'
  BY <1>1, <1>2, <1>3 DEF MInv, TypeOK, SavePrimary, Stage, Idle, memory, running, loop,
     history, bounds
<1>21. ControlInv'
  BY <1>1, <1>2, <1>3 DEF MInv, ControlInv, Up, SavePrimary, Stage, Idle, memory, running,
     loop, history, bounds
<1>22. DirInv(disk, offered, damaged)'
  BY <1>1, <1>2, <1>3 DEF MInv, SavePrimary, Stage, Idle, memory, running, loop, history, bounds
<1>23. DirInv(durable, offered, damaged)'
  BY <1>1, <1>2, <1>3 DEF MInv, SavePrimary, Stage, Idle, memory, running, loop, history, bounds
<1>24. UpInv'
  BY <1>1, <1>2, <1>3 DEF MInv, UpInv, ControlInv, Up, Owns, SameScope, Fresh, SavePrimary,
     Stage, Idle, memory, running, loop, history, bounds
<1>25. PutInv'
  BY <1>1, <1>2, <1>3 DEF MInv, PutInv, ControlInv, Fresh, SavePrimary, Stage, Idle, memory,
     running, loop, history, bounds
<1>26. OpenInv'
  BY <1>1, <1>2, <1>3 DEF MInv, OpenInv, ControlInv, Owns, Raw, StageContent, Fresh,
     SavePrimary, Stage, Idle, memory, running, loop, history, bounds
<1>27. BudgetInv'
  BY <1>1, <1>2, <1>3 DEF MInv, BudgetInv, ControlInv, Up, Charged, Entries, SavePrimary,
     Stage, Idle, memory, running, loop, history, bounds
<1>28. HoldInv'
  <2>1. /\ op' = op /\ op \in {"put", "open"} /\ names' = names /\ consumer' = consumer /\ held' = held
        /\ delivered' = delivered
    BY DEF SavePrimary, memory, loop, history
  <2> QED
    BY <1>2, <2>1 DEF MInv, HoldInv
<1>29. HeldIsHead'
  BY <1>1, <1>2, <1>3 DEF MInv, HeldIsHead, ControlInv, Up, SavePrimary, Stage, Idle, memory,
     running, loop, history, bounds
<1>30. TenantInv'
  BY <1>1, <1>2, <1>3 DEF MInv, TenantInv, ControlInv, Up, SavePrimary, Stage, Idle, memory,
     running, loop, history, bounds
<1>31. OneTenant'
  BY <1>1, <1>2, <1>3 DEF MInv, OneTenant, ControlInv, Up, UpInv, Owns, SavePrimary, Stage,
     Idle, memory, running, loop, history, bounds
<1>32. AcceptedSurvives'
  BY <1>1, <1>2, <1>3 DEF MInv, AcceptedSurvives, SavePrimary, Stage, Idle, memory, running,
     loop, history, bounds
<1>33. RefusalJustified'
  BY <1>1, <1>2, <1>3 DEF MInv, RefusalJustified, ControlInv, Up, SavePrimary, Stage, Idle,
     memory, running, loop, history, bounds
<1>34. NoLostWakeup'
  BY <1>1, <1>2, <1>3 DEF MInv, NoLostWakeup, ControlInv, Up, SavePrimary, Stage, Idle, memory,
     running, loop, history, bounds
<1> QED
  BY <1>20, <1>21, <1>22, <1>23, <1>24, <1>25, <1>26, <1>27, <1>28, <1>29, <1>30, <1>31, <1>32,
     <1>33, <1>34 DEF MInv

\* The manifest is saved, the record is next.
LEMMA PutRecordMInv ==
  ASSUME MInv, PutRecord
  PROVE  MInv'
<1>1. disk \in Dirs /\ disk' \in Dirs /\ Alike(disk', disk)
  BY PendingSet DEF MInv, TypeOK, PutRecord, Stage
<1>2. /\ disk'.primary = disk.primary /\ disk'.backup = disk.backup /\ disk'.journal = disk.journal
      /\ disk'.stage = disk.stage /\ disk'.recs = disk.recs /\ disk'.bad = disk.bad
      /\ Stored(disk') = Stored(disk) /\ Numbers(disk') = Numbers(disk)
      /\ RecordCosts(disk') = RecordCosts(disk) /\ BadCosts(disk') = BadCosts(disk)
      /\ EntriesOf(disk') = EntriesOf(disk)
  BY <1>1, AlikeAll
<1>3. /\ \A b : Holds(disk', b) <=> Holds(disk, b)
      /\ \A h : Settled(disk, h) => Settled(disk', h)
      /\ \A off, dmg : DirInv(disk, off, dmg) => DirInv(disk', off, dmg)
  BY <1>1, AlikeAll
<1>20. TypeOK'
  BY <1>1, <1>2, <1>3 DEF MInv, TypeOK, PutRecord, Stage, Idle, memory, running, loop, history,
     bounds
<1>21. ControlInv'
  BY <1>1, <1>2, <1>3 DEF MInv, ControlInv, Up, PutRecord, Stage, Idle, memory, running, loop,
     history, bounds
<1>22. DirInv(disk, offered, damaged)'
  BY <1>1, <1>2, <1>3 DEF MInv, PutRecord, Stage, Idle, memory, running, loop, history, bounds
<1>23. DirInv(durable, offered, damaged)'
  BY <1>1, <1>2, <1>3 DEF MInv, PutRecord, Stage, Idle, memory, running, loop, history, bounds
<1>24. UpInv'
  BY <1>1, <1>2, <1>3 DEF MInv, UpInv, ControlInv, Up, Owns, SameScope, Fresh, PutRecord,
     Stage, Idle, memory, running, loop, history, bounds
<1>25. PutInv'
  BY <1>1, <1>2, <1>3 DEF MInv, PutInv, ControlInv, Fresh, PutRecord, Stage, Idle, memory,
     running, loop, history, bounds
<1>26. OpenInv'
  BY <1>1, <1>2, <1>3 DEF MInv, OpenInv, ControlInv, Owns, Raw, StageContent, Fresh, PutRecord,
     Stage, Idle, memory, running, loop, history, bounds
<1>27. BudgetInv'
  BY <1>1, <1>2, <1>3 DEF MInv, BudgetInv, ControlInv, Up, Charged, Entries, PutRecord, Stage,
     Idle, memory, running, loop, history, bounds
<1>28. HoldInv'
  BY <1>1, <1>2, <1>3 DEF MInv, HoldInv, ControlInv, Up, PutRecord, Stage, Idle, memory,
     running, loop, history, bounds
<1>29. HeldIsHead'
  BY <1>1, <1>2, <1>3 DEF MInv, HeldIsHead, ControlInv, Up, PutRecord, Stage, Idle, memory,
     running, loop, history, bounds
<1>30. TenantInv'
  BY <1>1, <1>2, <1>3 DEF MInv, TenantInv, ControlInv, Up, PutRecord, Stage, Idle, memory,
     running, loop, history, bounds
<1>31. OneTenant'
  BY <1>1, <1>2, <1>3 DEF MInv, OneTenant, ControlInv, Up, UpInv, Owns, PutRecord, Stage, Idle,
     memory, running, loop, history, bounds
<1>32. AcceptedSurvives'
  BY <1>1, <1>2, <1>3 DEF MInv, AcceptedSurvives, PutRecord, Stage, Idle, memory, running,
     loop, history, bounds
<1>33. RefusalJustified'
  BY <1>1, <1>2, <1>3 DEF MInv, RefusalJustified, ControlInv, Up, PutRecord, Stage, Idle,
     memory, running, loop, history, bounds
<1>34. NoLostWakeup'
  BY <1>1, <1>2, <1>3 DEF MInv, NoLostWakeup, ControlInv, Up, PutRecord, Stage, Idle, memory,
     running, loop, history, bounds
<1> QED
  BY <1>20, <1>21, <1>22, <1>23, <1>24, <1>25, <1>26, <1>27, <1>28, <1>29, <1>30, <1>31, <1>32,
     <1>33, <1>34 DEF MInv

\* A file operation of Put fails.
LEMMA PutFailsMInv ==
  ASSUME MInv, PutFails
  PROVE  MInv'
<1>1. disk \in Dirs /\ disk' \in Dirs /\ Alike(disk', disk)
  BY PendingSet DEF MInv, TypeOK, PutFails
<1>2. /\ disk'.primary = disk.primary /\ disk'.backup = disk.backup /\ disk'.journal = disk.journal
      /\ disk'.stage = disk.stage /\ disk'.recs = disk.recs /\ disk'.bad = disk.bad
      /\ Stored(disk') = Stored(disk) /\ Numbers(disk') = Numbers(disk)
      /\ RecordCosts(disk') = RecordCosts(disk) /\ BadCosts(disk') = BadCosts(disk)
      /\ EntriesOf(disk') = EntriesOf(disk)
  BY <1>1, AlikeAll
<1>3. /\ \A b : Holds(disk', b) <=> Holds(disk, b)
      /\ \A h : Settled(disk, h) => Settled(disk', h)
      /\ \A off, dmg : DirInv(disk, off, dmg) => DirInv(disk', off, dmg)
  BY <1>1, AlikeAll
<1>20. TypeOK'
  BY <1>1, <1>2, <1>3 DEF MInv, TypeOK, PutFails, Goto, Idle, memory, running, loop, history,
     bounds
<1>21. ControlInv'
  BY <1>1, <1>2, <1>3 DEF MInv, ControlInv, Up, PutFails, Goto, Idle, memory, running, loop,
     history, bounds
<1>22. DirInv(disk, offered, damaged)'
  BY <1>1, <1>2, <1>3 DEF MInv, PutFails, Goto, Idle, memory, running, loop, history, bounds
<1>23. DirInv(durable, offered, damaged)'
  BY <1>1, <1>2, <1>3 DEF MInv, PutFails, Goto, Idle, memory, running, loop, history, bounds
<1>24. UpInv'
  BY <1>1, <1>2, <1>3 DEF MInv, UpInv, ControlInv, Up, Owns, SameScope, Fresh, PutFails, Goto,
     Idle, memory, running, loop, history, bounds
<1>25. PutInv'
  BY <1>1, <1>2, <1>3 DEF MInv, PutInv, ControlInv, Fresh, PutFails, Goto, Idle, memory,
     running, loop, history, bounds
<1>26. OpenInv'
  BY <1>1, <1>2, <1>3 DEF MInv, OpenInv, ControlInv, Owns, Raw, StageContent, Fresh, PutFails,
     Goto, Idle, memory, running, loop, history, bounds
<1>27. BudgetInv'
  BY <1>1, <1>2, <1>3 DEF MInv, BudgetInv, ControlInv, Up, Charged, Entries, PutFails, Goto,
     Idle, memory, running, loop, history, bounds
<1>28. HoldInv'
  BY <1>1, <1>2, <1>3 DEF MInv, HoldInv, ControlInv, Up, PutFails, Goto, Idle, memory, running,
     loop, history, bounds
<1>29. HeldIsHead'
  BY <1>1, <1>2, <1>3 DEF MInv, HeldIsHead, ControlInv, Up, PutFails, Goto, Idle, memory,
     running, loop, history, bounds
<1>30. TenantInv'
  BY <1>1, <1>2, <1>3 DEF MInv, TenantInv, ControlInv, Up, PutFails, Goto, Idle, memory,
     running, loop, history, bounds
<1>31. OneTenant'
  BY <1>1, <1>2, <1>3 DEF MInv, OneTenant, ControlInv, Up, UpInv, Owns, PutFails, Goto, Idle,
     memory, running, loop, history, bounds
<1>32. AcceptedSurvives'
  BY <1>1, <1>2, <1>3 DEF MInv, AcceptedSurvives, PutFails, Goto, Idle, memory, running, loop,
     history, bounds
<1>33. RefusalJustified'
  BY <1>1, <1>2, <1>3 DEF MInv, RefusalJustified, ControlInv, Up, PutFails, Goto, Idle, memory,
     running, loop, history, bounds
<1>34. NoLostWakeup'
  BY <1>1, <1>2, <1>3 DEF MInv, NoLostWakeup, ControlInv, Up, PutFails, Goto, Idle, memory,
     running, loop, history, bounds
<1> QED
  BY <1>20, <1>21, <1>22, <1>23, <1>24, <1>25, <1>26, <1>27, <1>28, <1>29, <1>30, <1>31, <1>32,
     <1>33, <1>34 DEF MInv

\* The scan removes .pending.
LEMMA OpenUnpendsMInv ==
  ASSUME MInv, OpenUnpends
  PROVE  MInv'
<1>1. disk \in Dirs /\ disk' \in Dirs /\ Alike(disk', disk)
  BY PendingSet DEF MInv, TypeOK, OpenUnpends
<1>2. /\ disk'.primary = disk.primary /\ disk'.backup = disk.backup /\ disk'.journal = disk.journal
      /\ disk'.stage = disk.stage /\ disk'.recs = disk.recs /\ disk'.bad = disk.bad
      /\ Stored(disk') = Stored(disk) /\ Numbers(disk') = Numbers(disk)
      /\ RecordCosts(disk') = RecordCosts(disk) /\ BadCosts(disk') = BadCosts(disk)
      /\ EntriesOf(disk') = EntriesOf(disk)
  BY <1>1, AlikeAll
<1>3. /\ \A b : Holds(disk', b) <=> Holds(disk, b)
      /\ \A h : Settled(disk, h) => Settled(disk', h)
      /\ \A off, dmg : DirInv(disk, off, dmg) => DirInv(disk', off, dmg)
  BY <1>1, AlikeAll
<1>20. TypeOK'
  BY <1>1, <1>2, <1>3 DEF MInv, TypeOK, OpenUnpends, OpenTo, Idle, memory, running, loop,
     history, bounds
<1>21. ControlInv'
  BY <1>1, <1>2, <1>3 DEF MInv, ControlInv, Up, OpenUnpends, OpenTo, Idle, memory, running,
     loop, history, bounds
<1>22. DirInv(disk, offered, damaged)'
  BY <1>1, <1>2, <1>3 DEF MInv, OpenUnpends, OpenTo, Idle, memory, running, loop, history,
     bounds
<1>23. DirInv(durable, offered, damaged)'
  BY <1>1, <1>2, <1>3 DEF MInv, OpenUnpends, OpenTo, Idle, memory, running, loop, history,
     bounds
<1>24. UpInv'
  BY <1>1, <1>2, <1>3 DEF MInv, UpInv, ControlInv, Up, Owns, SameScope, Fresh, OpenUnpends,
     OpenTo, Idle, memory, running, loop, history, bounds
<1>25. PutInv'
  BY <1>1, <1>2, <1>3 DEF MInv, PutInv, ControlInv, Fresh, OpenUnpends, OpenTo, Idle, memory,
     running, loop, history, bounds
<1>26. OpenInv'
  BY <1>1, <1>2, <1>3 DEF MInv, OpenInv, ControlInv, Owns, Raw, StageContent, Fresh,
     OpenUnpends, OpenTo, Idle, memory, running, loop, history, bounds
<1>27. BudgetInv'
  BY <1>1, <1>2, <1>3 DEF MInv, BudgetInv, ControlInv, Up, Charged, Entries, OpenUnpends,
     OpenTo, Idle, memory, running, loop, history, bounds
<1>28. HoldInv'
  BY <1>1, <1>2, <1>3 DEF MInv, HoldInv, ControlInv, Up, OpenUnpends, OpenTo, Idle, memory,
     running, loop, history, bounds
<1>29. HeldIsHead'
  BY <1>1, <1>2, <1>3 DEF MInv, HeldIsHead, ControlInv, Up, OpenUnpends, OpenTo, Idle, memory,
     running, loop, history, bounds
<1>30. TenantInv'
  BY <1>1, <1>2, <1>3 DEF MInv, TenantInv, ControlInv, Up, OpenUnpends, OpenTo, Idle, memory,
     running, loop, history, bounds
<1>31. OneTenant'
  BY <1>1, <1>2, <1>3 DEF MInv, OneTenant, ControlInv, Up, UpInv, Owns, OpenUnpends, OpenTo,
     Idle, memory, running, loop, history, bounds
<1>32. AcceptedSurvives'
  BY <1>1, <1>2, <1>3 DEF MInv, AcceptedSurvives, OpenUnpends, OpenTo, Idle, memory, running,
     loop, history, bounds
<1>33. RefusalJustified'
  BY <1>1, <1>2, <1>3 DEF MInv, RefusalJustified, ControlInv, Up, OpenUnpends, OpenTo, Idle,
     memory, running, loop, history, bounds
<1>34. NoLostWakeup'
  BY <1>1, <1>2, <1>3 DEF MInv, NoLostWakeup, ControlInv, Up, OpenUnpends, OpenTo, Idle,
     memory, running, loop, history, bounds
<1> QED
  BY <1>20, <1>21, <1>22, <1>23, <1>24, <1>25, <1>26, <1>27, <1>28, <1>29, <1>30, <1>31, <1>32,
     <1>33, <1>34 DEF MInv

\* A file operation of openDisk fails.
LEMMA OpenFailsMInv ==
  ASSUME MInv, OpenFails
  PROVE  MInv'
<1>1. disk \in Dirs /\ disk' \in Dirs /\ Alike(disk', disk)
  BY PendingSet DEF Alike, SameControl, SameRecords, MInv, TypeOK, OpenFails
<1>2. /\ disk'.primary = disk.primary /\ disk'.backup = disk.backup /\ disk'.journal = disk.journal
      /\ disk'.stage = disk.stage /\ disk'.recs = disk.recs /\ disk'.bad = disk.bad
      /\ Stored(disk') = Stored(disk) /\ Numbers(disk') = Numbers(disk)
      /\ RecordCosts(disk') = RecordCosts(disk) /\ BadCosts(disk') = BadCosts(disk)
      /\ EntriesOf(disk') = EntriesOf(disk)
  BY <1>1, AlikeAll
<1>3. /\ \A b : Holds(disk', b) <=> Holds(disk, b)
      /\ \A h : Settled(disk, h) => Settled(disk', h)
      /\ \A off, dmg : DirInv(disk, off, dmg) => DirInv(disk', off, dmg)
  BY <1>1, AlikeAll
<1>20. TypeOK'
  BY <1>1, <1>2, <1>3 DEF MInv, TypeOK, OpenFails, Goto, Idle, memory, running, loop, history,
     bounds
<1>21. ControlInv'
  BY <1>1, <1>2, <1>3 DEF MInv, ControlInv, Up, OpenFails, Goto, Idle, memory, running, loop,
     history, bounds
<1>22. DirInv(disk, offered, damaged)'
  BY <1>1, <1>2, <1>3 DEF MInv, OpenFails, Goto, Idle, memory, running, loop, history, bounds
<1>23. DirInv(durable, offered, damaged)'
  BY <1>1, <1>2, <1>3 DEF MInv, OpenFails, Goto, Idle, memory, running, loop, history, bounds
<1>24. UpInv'
  BY <1>1, <1>2, <1>3 DEF MInv, UpInv, ControlInv, Up, Owns, SameScope, Fresh, OpenFails, Goto,
     Idle, memory, running, loop, history, bounds
<1>25. PutInv'
  BY <1>1, <1>2, <1>3 DEF MInv, PutInv, ControlInv, Fresh, OpenFails, Goto, Idle, memory,
     running, loop, history, bounds
<1>26. OpenInv'
  BY <1>1, <1>2, <1>3 DEF MInv, OpenInv, ControlInv, Owns, Raw, StageContent, Fresh, OpenFails,
     Goto, Idle, memory, running, loop, history, bounds
<1>27. BudgetInv'
  BY <1>1, <1>2, <1>3 DEF MInv, BudgetInv, ControlInv, Up, Charged, Entries, OpenFails, Goto,
     Idle, memory, running, loop, history, bounds
<1>28. HoldInv'
  BY <1>1, <1>2, <1>3 DEF MInv, HoldInv, ControlInv, Up, OpenFails, Goto, Idle, memory,
     running, loop, history, bounds
<1>29. HeldIsHead'
  BY <1>1, <1>2, <1>3 DEF MInv, HeldIsHead, ControlInv, Up, OpenFails, Goto, Idle, memory,
     running, loop, history, bounds
<1>30. TenantInv'
  BY <1>1, <1>2, <1>3 DEF MInv, TenantInv, ControlInv, Up, OpenFails, Goto, Idle, memory,
     running, loop, history, bounds
<1>31. OneTenant'
  BY <1>1, <1>2, <1>3 DEF MInv, OneTenant, ControlInv, Up, UpInv, Owns, OpenFails, Goto, Idle,
     memory, running, loop, history, bounds
<1>32. AcceptedSurvives'
  BY <1>1, <1>2, <1>3 DEF MInv, AcceptedSurvives, OpenFails, Goto, Idle, memory, running, loop,
     history, bounds
<1>33. RefusalJustified'
  BY <1>1, <1>2, <1>3 DEF MInv, RefusalJustified, ControlInv, Up, OpenFails, Goto, Idle,
     memory, running, loop, history, bounds
<1>34. NoLostWakeup'
  BY <1>1, <1>2, <1>3 DEF MInv, NoLostWakeup, ControlInv, Up, OpenFails, Goto, Idle, memory,
     running, loop, history, bounds
<1> QED
  BY <1>20, <1>21, <1>22, <1>23, <1>24, <1>25, <1>26, <1>27, <1>28, <1>29, <1>30, <1>31, <1>32,
     <1>33, <1>34 DEF MInv

\* A new manifest is saved.
LEMMA OpenFreshMInv ==
  ASSUME MInv, OpenFresh
  PROVE  MInv'
<1>1. disk \in Dirs /\ disk' \in Dirs /\ Alike(disk', disk)
  BY PendingSet DEF MInv, TypeOK, OpenFresh, Stage
<1>2. /\ disk'.primary = disk.primary /\ disk'.backup = disk.backup /\ disk'.journal = disk.journal
      /\ disk'.stage = disk.stage /\ disk'.recs = disk.recs /\ disk'.bad = disk.bad
      /\ Stored(disk') = Stored(disk) /\ Numbers(disk') = Numbers(disk)
      /\ RecordCosts(disk') = RecordCosts(disk) /\ BadCosts(disk') = BadCosts(disk)
      /\ EntriesOf(disk') = EntriesOf(disk)
  BY <1>1, AlikeAll
<1>3. /\ \A b : Holds(disk', b) <=> Holds(disk, b)
      /\ \A h : Settled(disk, h) => Settled(disk', h)
      /\ \A off, dmg : DirInv(disk, off, dmg) => DirInv(disk', off, dmg)
  BY <1>1, AlikeAll
<1>4. /\ disk.primary = NoFile /\ disk.backup = NoFile /\ disk.journal = NoFile
      /\ disk.stage["journal"] = NoFile /\ Numbers(disk) = {}
  BY DEF OpenFresh, OnlyLock, EmptyDir, Stored, Numbers, Stages
<1>5. /\ manifest' \in Control /\ Owns(manifest)' /\ manifest'.next = 1
  BY OpenerFacts, BoundFacts DEF OpenFresh, Owns, Control, MInv, TypeOK
<1>6. tenants = {}
  BY <1>4 DEF MInv, TenantInv, Settled
<1>20. TypeOK'
  BY <1>1, <1>2, <1>3, <1>4, <1>5, <1>6 DEF MInv, TypeOK, OpenFresh, Stage, AtControl,
     OnlyLock, Idle, memory, running, loop, history, bounds
<1>21. ControlInv'
  BY <1>1, <1>2, <1>3, <1>4, <1>5, <1>6 DEF MInv, ControlInv, Up, OpenFresh, Stage, AtControl,
     OnlyLock, Idle, memory, running, loop, history, bounds
<1>22. DirInv(disk, offered, damaged)'
  BY <1>1, <1>2, <1>3, <1>4, <1>5, <1>6 DEF MInv, OpenFresh, Stage, AtControl, OnlyLock, Idle,
     memory, running, loop, history, bounds
<1>23. DirInv(durable, offered, damaged)'
  BY <1>1, <1>2, <1>3, <1>4, <1>5, <1>6 DEF MInv, OpenFresh, Stage, AtControl, OnlyLock, Idle,
     memory, running, loop, history, bounds
<1>24. UpInv'
  BY <1>1, <1>2, <1>3, <1>4, <1>5, <1>6 DEF MInv, UpInv, ControlInv, Up, Owns, SameScope,
     Fresh, OpenFresh, Stage, AtControl, OnlyLock, Idle, memory, running, loop, history, bounds
<1>25. PutInv'
  BY <1>1, <1>2, <1>3, <1>4, <1>5, <1>6 DEF MInv, PutInv, ControlInv, Fresh, OpenFresh, Stage,
     AtControl, OnlyLock, Idle, memory, running, loop, history, bounds
<1>26. OpenInv'
  <2>1. op' = "open" /\ step' = "rename" /\ target' = "backup"
    BY DEF OpenFresh, AtControl, Stage
  <2> QED
    BY <1>2, <1>4, <1>5, <2>1 DEF OpenInv
<1>27. BudgetInv'
  BY <1>1, <1>2, <1>3, <1>4, <1>5, <1>6 DEF MInv, BudgetInv, ControlInv, Up, Charged, Entries,
     OpenFresh, Stage, AtControl, OnlyLock, Idle, memory, running, loop, history, bounds
<1>28. HoldInv'
  BY <1>1, <1>2, <1>3, <1>4, <1>5, <1>6 DEF MInv, HoldInv, ControlInv, Up, OpenFresh, Stage,
     AtControl, OnlyLock, Idle, memory, running, loop, history, bounds
<1>29. HeldIsHead'
  BY <1>1, <1>2, <1>3, <1>4, <1>5, <1>6 DEF MInv, HeldIsHead, ControlInv, Up, OpenFresh, Stage,
     AtControl, OnlyLock, Idle, memory, running, loop, history, bounds
<1>30. TenantInv'
  BY <1>1, <1>2, <1>3, <1>4, <1>5, <1>6 DEF MInv, TenantInv, ControlInv, Up, OpenFresh, Stage,
     AtControl, OnlyLock, Idle, memory, running, loop, history, bounds
<1>31. OneTenant'
  BY <1>1, <1>2, <1>3, <1>4, <1>5, <1>6 DEF MInv, OneTenant, ControlInv, Up, UpInv, Owns,
     OpenFresh, Stage, AtControl, OnlyLock, Idle, memory, running, loop, history, bounds
<1>32. AcceptedSurvives'
  BY <1>1, <1>2, <1>3, <1>4, <1>5, <1>6 DEF MInv, AcceptedSurvives, OpenFresh, Stage,
     AtControl, OnlyLock, Idle, memory, running, loop, history, bounds
<1>33. RefusalJustified'
  BY <1>1, <1>2, <1>3, <1>4, <1>5, <1>6 DEF MInv, RefusalJustified, ControlInv, Up, OpenFresh,
     Stage, AtControl, OnlyLock, Idle, memory, running, loop, history, bounds
<1>34. NoLostWakeup'
  BY <1>1, <1>2, <1>3, <1>4, <1>5, <1>6 DEF MInv, NoLostWakeup, ControlInv, Up, OpenFresh,
     Stage, AtControl, OnlyLock, Idle, memory, running, loop, history, bounds
<1> QED
  BY <1>20, <1>21, <1>22, <1>23, <1>24, <1>25, <1>26, <1>27, <1>28, <1>29, <1>30, <1>31, <1>32,
     <1>33, <1>34 DEF MInv

\* Put takes a number.
LEMMA PutBeginMInv ==
  ASSUME MInv, PutBegin
  PROVE  MInv'
<1>1. disk \in Dirs /\ disk' \in Dirs /\ Alike(disk', disk)
  BY PendingSet DEF MInv, TypeOK, PutBegin, Stage
<1>2. /\ disk'.primary = disk.primary /\ disk'.backup = disk.backup /\ disk'.journal = disk.journal
      /\ disk'.stage = disk.stage /\ disk'.recs = disk.recs /\ disk'.bad = disk.bad
      /\ Stored(disk') = Stored(disk) /\ Numbers(disk') = Numbers(disk)
      /\ RecordCosts(disk') = RecordCosts(disk) /\ BadCosts(disk') = BadCosts(disk)
      /\ EntriesOf(disk') = EntriesOf(disk)
  BY <1>1, AlikeAll
<1>3. /\ \A b : Holds(disk', b) <=> Holds(disk, b)
      /\ \A h : Settled(disk, h) => Settled(disk', h)
      /\ \A off, dmg : DirInv(disk, off, dmg) => DirInv(disk', off, dmg)
  BY <1>1, AlikeAll
<1>4. /\ manifest \in Control /\ manifest.next \in Nat /\ manifest.next >= 1
      /\ offered \in Nat /\ MaxBatches \in Nat /\ offered < MaxBatches
      /\ manifest.next <= offered + 1 /\ op = "idle" /\ Up
  BY ControlFacts, BoundFacts DEF MInv, TypeOK, PutBegin, Idle, UpInv, Up
<1> DEFINE n == manifest.next + 1
<1>5. manifest' = [manifest EXCEPT !.next = n]
  BY DEF PutBegin
<1>6. n \in 1..(MaxBatches + 1) /\ n <= (offered + 1) + 1 /\ manifest.next \in Batches
  BY <1>4 DEF Batches
<1> HIDE DEF n
<1>7. /\ manifest' \in Control /\ manifest'.ver = manifest.ver /\ manifest'.scope = manifest.scope
      /\ manifest'.next = n
  BY <1>4, <1>5, <1>6 DEF Control
<1>8. /\ offered' = offered + 1 /\ offered' \in 0..MaxBatches /\ 1..offered \subseteq 1..offered'
      /\ cur' = offered + 1 /\ cur' \in Batches /\ seq' = manifest.next
      /\ op' = "put" /\ target' = "backup" /\ step' = "rename"
  BY <1>4 DEF PutBegin, Stage, Batches
<1>20. TypeOK'
  BY <1>1, <1>7, <1>8 DEF MInv, TypeOK, PutBegin, loop, bounds
<1>21. ControlInv'
  BY <1>1, <1>2, <1>3 DEF MInv, ControlInv, Up, PutBegin, Stage, Idle, memory, running, loop,
     history, bounds
<1>22. DirInv(disk, offered, damaged)'
  <2>1. DirInv(disk, offered, damaged) /\ damaged' = damaged
    BY DEF MInv, PutBegin
  <2>2. DirInv(disk, offered', damaged)
    BY <1>1, <1>4, <1>8, <2>1, MoreOffered
  <2> QED
    BY <1>3, <2>1, <2>2
<1>23. DirInv(durable, offered, damaged)'
  <2>1. DirInv(durable, offered, damaged) /\ damaged' = damaged /\ durable \in Dirs /\ durable' = durable
    BY DEF MInv, PutBegin, TypeOK
  <2>2. DirInv(durable, offered', damaged)
    BY <1>4, <1>8, <2>1, MoreOffered
  <2> QED
    BY <2>1, <2>2
<1>24. UpInv'
  <2>1. /\ Owns(manifest) /\ disk.journal = NoFile /\ disk.stage["journal"] = NoFile
        /\ \A m \in {disk.primary, disk.backup} : Valid(m) => SameScope(m)
        /\ \A s \in Numbers(disk) \cup names : s < manifest.next
    BY <1>4 DEF MInv, UpInv
  <2>2. Owns(manifest)'
    BY <1>7, <2>1 DEF Owns, PutBegin
  <2>3. \A m \in {disk.primary, disk.backup} : Valid(m) => SameScope(m)'
    BY <1>7, <2>1 DEF SameScope
  <2>4. \A s \in Numbers(disk) \cup names : s < n
    BY <1>1, <1>4, <2>1, RecordFacts, BoundFacts DEF n, MInv, TypeOK
  <2>5. manifest'.next <= offered' + 1
    BY <1>6, <1>7, <1>8
  <2>6. /\ disk'.journal = NoFile /\ disk'.stage["journal"] = NoFile
    BY <1>2, <2>1
  <2>7. \A m \in {disk'.primary, disk'.backup} : Valid(m) => SameScope(m)'
    BY <1>2, <2>3
  <2>8. \A s \in Numbers(disk') \cup names' : s < manifest'.next
    BY <1>2, <1>7, <2>4 DEF PutBegin
  <2> QED
    BY <2>2, <2>5, <2>6, <2>7, <2>8 DEF UpInv, SameScope
<1>25. PutInv'
  <2>1. \A s \in Numbers(disk) \cup names : s < manifest.next
    BY <1>4 DEF MInv, UpInv
  <2>2. manifest'.next = seq' + 1 /\ seq' \in Batches /\ cur' <= offered'
    BY <1>4, <1>6, <1>7, <1>8 DEF n
  <2>3. Fresh(disk', seq') /\ \A s \in names' : s < seq'
    BY <1>2, <1>8, <2>1 DEF Fresh, PutBegin
  <2> QED
    BY <1>8, <2>2, <2>3 DEF PutInv
<1>26. OpenInv'
  BY <1>1, <1>2, <1>3 DEF MInv, OpenInv, ControlInv, Owns, Raw, StageContent, Fresh, PutBegin,
     Stage, Idle, memory, running, loop, history, bounds
<1>27. BudgetInv'
  <2>1. Charged' = Charged /\ Entries' = Entries
    BY <1>2 DEF Charged, Entries, PutBegin
  <2>2. bytes' = bytes /\ count' = count /\ ~closed /\ count < MaxItems
        /\ bytes + Cost[cur'] <= MaxBytes
    BY DEF PutBegin, Fits
  <2>3. bytes = Charged /\ count = Entries /\ Charged <= MaxBytes
    BY <1>4, <2>2 DEF MInv, BudgetInv, Up
  <2> QED
    BY <1>8, <2>1, <2>2, <2>3 DEF BudgetInv, Up
<1>28. HoldInv'
  BY <1>1, <1>2, <1>3 DEF MInv, HoldInv, ControlInv, Up, PutBegin, Stage, Idle, memory,
     running, loop, history, bounds
<1>29. HeldIsHead'
  BY <1>1, <1>2, <1>3 DEF MInv, HeldIsHead, ControlInv, Up, PutBegin, Stage, Idle, memory,
     running, loop, history, bounds
<1>30. TenantInv'
  BY <1>3, <1>4, <1>7, <1>8 DEF MInv, TenantInv, Up, PutBegin
<1>31. OneTenant'
  BY <1>1, <1>2, <1>3 DEF MInv, OneTenant, ControlInv, Up, UpInv, Owns, PutBegin, Stage, Idle,
     memory, running, loop, history, bounds
<1>32. AcceptedSurvives'
  BY <1>1, <1>2, <1>3 DEF MInv, AcceptedSurvives, PutBegin, Stage, Idle, memory, running, loop,
     history, bounds
<1>33. RefusalJustified'
  BY <1>1, <1>2, <1>3 DEF MInv, RefusalJustified, ControlInv, Up, PutBegin, Stage, Idle,
     memory, running, loop, history, bounds
<1>34. NoLostWakeup'
  BY <1>1, <1>2, <1>3 DEF MInv, NoLostWakeup, ControlInv, Up, PutBegin, Stage, Idle, memory,
     running, loop, history, bounds
<1> QED
  BY <1>20, <1>21, <1>22, <1>23, <1>24, <1>25, <1>26, <1>27, <1>28, <1>29, <1>30, <1>31, <1>32,
     <1>33, <1>34 DEF MInv

\* Put returns the receipt.
LEMMA PutReturnMInv ==
  ASSUME MInv, PutReturn
  PROVE  MInv'
<1>1. /\ op = "put" /\ seq \in Batches /\ cur \in Batches /\ cur <= offered
      /\ manifest.next = seq + 1 /\ disk.recs[seq] = [batch |-> cur, ok |-> TRUE]
      /\ \A s \in names : s < seq
  BY DEF MInv, PutInv, PutReturn, TypeOK
<1>2. seq \in Stored(disk) /\ disk.recs[seq].batch = cur /\ Holds(disk, cur)
  <2>1. [batch |-> cur, ok |-> TRUE] \in Records
    BY <1>1 DEF Records
  <2> QED
    BY <1>1, <2>1, FileFacts DEF Stored, Holds
<1>3. seq \in Nat /\ seq < seq + 1 /\ cur \in 1..offered
  BY <1>1, BoundFacts DEF Batches, MInv, TypeOK
<1>4. Charged \in Nat /\ Entries \in Nat /\ Cost[cur] \in Nat /\ bytes \in Nat /\ count \in Nat
  BY ChargedType DEF MInv, TypeOK
<1>20. TypeOK'
  <2>1. count' \in Nat /\ bytes' \in Nat /\ names' \subseteq Batches /\ accepted' \subseteq 1..offered
    BY <1>1, <1>3, <1>4 DEF PutReturn, MInv, TypeOK
  <2> QED
    BY <2>1 DEF MInv, TypeOK, PutReturn, Goto, loop, bounds
<1>21. ControlInv'
  BY <1>1, <1>2, <1>3, <1>4 DEF MInv, ControlInv, Up, PutReturn, Goto, Idle, memory, running,
     loop, history, bounds
<1>22. DirInv(disk, offered, damaged)'
  BY <1>1, <1>2, <1>3, <1>4 DEF MInv, PutReturn, Goto, Idle, memory, running, loop, history,
     bounds
<1>23. DirInv(durable, offered, damaged)'
  BY <1>1, <1>2, <1>3, <1>4 DEF MInv, PutReturn, Goto, Idle, memory, running, loop, history,
     bounds
<1>24. UpInv'
  <2>1. \A s \in names' : s < manifest.next
    BY <1>1, <1>3, BoundFacts DEF PutReturn, MInv, TypeOK, UpInv, Up
  <2> QED
    BY <1>1, <2>1 DEF MInv, UpInv, Up, Owns, SameScope, PutReturn, Goto
<1>25. PutInv'
  BY <1>1, <1>2, <1>3, <1>4 DEF MInv, PutInv, ControlInv, PutReturn, Goto, Idle, memory,
     running, loop, history, bounds
<1>26. OpenInv'
  BY <1>1, <1>2, <1>3, <1>4 DEF MInv, OpenInv, ControlInv, Owns, Raw, StageContent, PutReturn,
     Goto, Idle, memory, running, loop, history, bounds
<1>27. BudgetInv'
  BY <1>1, <1>2, <1>3, <1>4 DEF MInv, BudgetInv, ControlInv, Up, Charged, Entries, PutReturn,
     Goto, Idle, memory, running, loop, history, bounds
<1>28. HoldInv'
  <2>1. /\ op' = "idle" /\ consumer' = consumer /\ held' = held /\ names' = names \cup {seq}
        /\ disk' = disk /\ delivered' = delivered
    BY DEF PutReturn, loop, Goto
  <2> QED
    BY <1>1, <1>2, <2>1 DEF MInv, HoldInv
<1>29. HeldIsHead'
  <2>1. consumer' = consumer /\ held' = held /\ names' = names \cup {seq} /\ names \in SUBSET Batches
    BY DEF PutReturn, loop, MInv, TypeOK
  <2>2. names # {} => Head(names') = Head(names)
    BY <1>1, <2>1, HeadStays
  <2> QED
    BY <2>1, <2>2 DEF MInv, HeldIsHead
<1>30. TenantInv'
  BY <1>1, <1>2, <1>3, <1>4 DEF MInv, TenantInv, ControlInv, Up, PutReturn, Goto, Idle, memory,
     running, loop, history, bounds
<1>31. OneTenant'
  BY <1>1, <1>2, <1>3, <1>4 DEF MInv, OneTenant, ControlInv, Up, UpInv, Owns, PutReturn, Goto,
     Idle, memory, running, loop, history, bounds
<1>32. AcceptedSurvives'
  BY <1>2 DEF MInv, AcceptedSurvives, PutReturn
<1>33. RefusalJustified'
  BY <1>1, <1>2, <1>3, <1>4 DEF MInv, RefusalJustified, ControlInv, Up, PutReturn, Goto, Idle,
     memory, running, loop, history, bounds
<1>34. NoLostWakeup'
  BY <1>1, <1>2, <1>3, <1>4 DEF MInv, NoLostWakeup, ControlInv, Up, PutReturn, Goto, Idle,
     memory, running, loop, history, bounds
<1> QED
  BY <1>20, <1>21, <1>22, <1>23, <1>24, <1>25, <1>26, <1>27, <1>28, <1>29, <1>30, <1>31, <1>32,
     <1>33, <1>34 DEF MInv

\* The quarantine is durable.
LEMMA QuarantineReturnMInv ==
  ASSUME MInv, QuarantineReturn
  PROVE  MInv'
<1>1. TypeOK'
  BY DEF MInv, TypeOK, QuarantineReturn, Goto, Idle, memory, running, loop, history, bounds
<1>2. ControlInv'
  BY DEF MInv, ControlInv, Up, QuarantineReturn, Goto, Idle, memory, running, loop, history,
     bounds
<1>3. DirInv(disk, offered, damaged)'
  BY DEF MInv, QuarantineReturn, Goto, Idle, memory, running, loop, history, bounds
<1>4. DirInv(durable, offered, damaged)'
  BY DEF MInv, QuarantineReturn, Goto, Idle, memory, running, loop, history, bounds
<1>5. UpInv'
  BY DEF MInv, UpInv, ControlInv, Up, Owns, SameScope, QuarantineReturn, Goto, Idle, memory,
     running, loop, history, bounds
<1>6. PutInv'
  BY DEF MInv, PutInv, ControlInv, QuarantineReturn, Goto, Idle, memory, running, loop,
     history, bounds
<1>7. OpenInv'
  BY DEF MInv, OpenInv, ControlInv, Owns, Raw, StageContent, QuarantineReturn, Goto, Idle,
     memory, running, loop, history, bounds
<1>8. BudgetInv'
  BY DEF MInv, BudgetInv, ControlInv, Up, Charged, Entries, QuarantineReturn, Goto, Idle,
     memory, running, loop, history, bounds
<1>9. HoldInv'
  BY DEF MInv, HoldInv, ControlInv, Up, QuarantineReturn, Goto, Idle, memory, running, loop,
     history, bounds
<1>10. HeldIsHead'
  BY DEF MInv, HeldIsHead, ControlInv, Up, QuarantineReturn, Goto, Idle, memory, running, loop,
     history, bounds
<1>11. TenantInv'
  BY DEF MInv, TenantInv, ControlInv, Up, QuarantineReturn, Goto, Idle, memory, running, loop,
     history, bounds
<1>12. OneTenant'
  BY DEF MInv, OneTenant, ControlInv, Up, UpInv, Owns, QuarantineReturn, Goto, Idle, memory,
     running, loop, history, bounds
<1>13. AcceptedSurvives'
  BY DEF MInv, AcceptedSurvives, QuarantineReturn, Goto, Idle, memory, running, loop, history,
     bounds
<1>14. RefusalJustified'
  BY DEF MInv, RefusalJustified, ControlInv, Up, QuarantineReturn, Goto, Idle, memory, running,
     loop, history, bounds
<1>15. NoLostWakeup'
  BY DEF MInv, NoLostWakeup, ControlInv, Up, QuarantineReturn, Goto, Idle, memory, running,
     loop, history, bounds
<1> QED
  BY <1>1, <1>2, <1>3, <1>4, <1>5, <1>6, <1>7, <1>8, <1>9, <1>10, <1>11, <1>12, <1>13, <1>14,
     <1>15 DEF MInv

\* The removal is durable.
LEMMA AckReturnMInv ==
  ASSUME MInv, AckReturn
  PROVE  MInv'
<1>1. Charged \in Nat /\ Entries \in Nat /\ Cost[cur] \in Nat
  BY ChargedType DEF MInv
<1>2. op = "ack" /\ bytes = Charged + Cost[cur] /\ count = Entries + 1 /\ ~closed
  BY DEF MInv, BudgetInv, ControlInv, Up, AckReturn
<1>3. bytes' = Charged /\ count' = Entries
  BY <1>1, <1>2 DEF AckReturn
<1>4. Charged' = Charged /\ Entries' = Entries
  BY DEF AckReturn, Charged, Entries
<1>20. TypeOK'
  BY <1>1, <1>3 DEF MInv, TypeOK, AckReturn, Goto, history, bounds
<1>21. ControlInv'
  BY <1>1, <1>2, <1>3 DEF MInv, ControlInv, Up, AckReturn, Goto, Idle, memory, running, loop,
     history, bounds
<1>22. DirInv(disk, offered, damaged)'
  BY <1>1, <1>2, <1>3 DEF MInv, AckReturn, Goto, Idle, memory, running, loop, history, bounds
<1>23. DirInv(durable, offered, damaged)'
  BY <1>1, <1>2, <1>3 DEF MInv, AckReturn, Goto, Idle, memory, running, loop, history, bounds
<1>24. UpInv'
  BY <1>1, <1>2, <1>3 DEF MInv, UpInv, ControlInv, Up, Owns, SameScope, AckReturn, Goto, Idle,
     memory, running, loop, history, bounds
<1>25. PutInv'
  BY <1>1, <1>2, <1>3 DEF MInv, PutInv, ControlInv, AckReturn, Goto, Idle, memory, running,
     loop, history, bounds
<1>26. OpenInv'
  BY <1>1, <1>2, <1>3 DEF MInv, OpenInv, ControlInv, Owns, Raw, StageContent, AckReturn, Goto,
     Idle, memory, running, loop, history, bounds
<1>27. BudgetInv'
  <2>1. op' = "idle" /\ Charged <= MaxBytes
    BY <1>2 DEF AckReturn, Goto, MInv, BudgetInv, Up
  <2> QED
    BY <1>3, <1>4, <2>1 DEF BudgetInv
<1>28. HoldInv'
  BY <1>1, <1>2, <1>3 DEF MInv, HoldInv, ControlInv, Up, AckReturn, Goto, Idle, memory,
     running, loop, history, bounds
<1>29. HeldIsHead'
  BY <1>1, <1>2, <1>3 DEF MInv, HeldIsHead, ControlInv, Up, AckReturn, Goto, Idle, memory,
     running, loop, history, bounds
<1>30. TenantInv'
  BY <1>1, <1>2, <1>3 DEF MInv, TenantInv, ControlInv, Up, AckReturn, Goto, Idle, memory,
     running, loop, history, bounds
<1>31. OneTenant'
  BY <1>1, <1>2, <1>3 DEF MInv, OneTenant, ControlInv, Up, UpInv, Owns, AckReturn, Goto, Idle,
     memory, running, loop, history, bounds
<1>32. AcceptedSurvives'
  BY <1>1, <1>2, <1>3 DEF MInv, AcceptedSurvives, AckReturn, Goto, Idle, memory, running, loop,
     history, bounds
<1>33. RefusalJustified'
  BY <1>1, <1>2, <1>3 DEF MInv, RefusalJustified, ControlInv, Up, AckReturn, Goto, Idle,
     memory, running, loop, history, bounds
<1>34. NoLostWakeup'
  BY <1>1, <1>2, <1>3 DEF MInv, NoLostWakeup, ControlInv, Up, AckReturn, Goto, Idle, memory,
     running, loop, history, bounds
<1> QED
  BY <1>20, <1>21, <1>22, <1>23, <1>24, <1>25, <1>26, <1>27, <1>28, <1>29, <1>30, <1>31, <1>32,
     <1>33, <1>34 DEF MInv

\* The first manifest is saved.
LEMMA OpenSavedMInv ==
  ASSUME MInv, OpenSaved
  PROVE  MInv'
<1>1. TypeOK'
  BY DEF MInv, TypeOK, OpenSaved, OpenTo, Idle, memory, running, loop, history, bounds
<1>2. ControlInv'
  BY DEF MInv, ControlInv, Up, OpenSaved, OpenTo, Idle, memory, running, loop, history, bounds
<1>3. DirInv(disk, offered, damaged)'
  BY DEF MInv, OpenSaved, OpenTo, Idle, memory, running, loop, history, bounds
<1>4. DirInv(durable, offered, damaged)'
  BY DEF MInv, OpenSaved, OpenTo, Idle, memory, running, loop, history, bounds
<1>5. UpInv'
  BY DEF MInv, UpInv, ControlInv, Up, Owns, SameScope, OpenSaved, OpenTo, Idle, memory,
     running, loop, history, bounds
<1>6. PutInv'
  BY DEF MInv, PutInv, ControlInv, OpenSaved, OpenTo, Idle, memory, running, loop, history,
     bounds
<1>7. OpenInv'
  BY DEF MInv, OpenInv, ControlInv, Owns, Raw, StageContent, OpenSaved, OpenTo, Idle, memory,
     running, loop, history, bounds
<1>8. BudgetInv'
  BY DEF MInv, BudgetInv, ControlInv, Up, Charged, Entries, OpenSaved, OpenTo, Idle, memory,
     running, loop, history, bounds
<1>9. HoldInv'
  BY DEF MInv, HoldInv, ControlInv, Up, OpenSaved, OpenTo, Idle, memory, running, loop,
     history, bounds
<1>10. HeldIsHead'
  BY DEF MInv, HeldIsHead, ControlInv, Up, OpenSaved, OpenTo, Idle, memory, running, loop,
     history, bounds
<1>11. TenantInv'
  BY DEF MInv, TenantInv, ControlInv, Up, OpenSaved, OpenTo, Idle, memory, running, loop,
     history, bounds
<1>12. OneTenant'
  BY DEF MInv, OneTenant, ControlInv, Up, UpInv, Owns, OpenSaved, OpenTo, Idle, memory,
     running, loop, history, bounds
<1>13. AcceptedSurvives'
  BY DEF MInv, AcceptedSurvives, OpenSaved, OpenTo, Idle, memory, running, loop, history, bounds
<1>14. RefusalJustified'
  BY DEF MInv, RefusalJustified, ControlInv, Up, OpenSaved, OpenTo, Idle, memory, running,
     loop, history, bounds
<1>15. NoLostWakeup'
  BY DEF MInv, NoLostWakeup, ControlInv, Up, OpenSaved, OpenTo, Idle, memory, running, loop,
     history, bounds
<1> QED
  BY <1>1, <1>2, <1>3, <1>4, <1>5, <1>6, <1>7, <1>8, <1>9, <1>10, <1>11, <1>12, <1>13, <1>14,
     <1>15 DEF MInv

\* The journal is committed.
LEMMA JournalSyncedMInv ==
  ASSUME MInv, JournalSynced
  PROVE  MInv'
<1>1. /\ op = "open" /\ opener.v2 /\ target = "journal" /\ disk.journal = StageContent
      /\ opener \in Openers /\ manifest \in Control /\ disk \in Dirs
  BY DEF MInv, OpenInv, JournalSynced, TypeOK
<1>2. disk.journal \in Journal /\ disk.journal # NoFile /\ disk.journal.new = opener.hash
  <2>1. disk.journal = [old |-> manifest.scope, new |-> opener.hash, next |-> manifest.next]
    BY <1>1 DEF StageContent
  <2>2. disk.journal \in Journal
    BY <1>1, <2>1, OpenerFacts DEF Journal, Control
  <2> QED
    BY <2>1, <2>2, FileFacts
<1>3. Upgraded(disk.journal) \in Control
  BY <1>2, JournalFacts
<1>20. TypeOK'
  BY <1>1, <1>2, <1>3 DEF MInv, TypeOK, JournalSynced, MigrateTo, Idle, memory, running, loop,
     history, bounds
<1>21. ControlInv'
  BY <1>1, <1>2, <1>3 DEF MInv, ControlInv, Up, Stages, JournalSynced, MigrateTo, Idle, memory,
     running, loop, history, bounds
<1>22. DirInv(disk, offered, damaged)'
  BY <1>1, <1>2, <1>3 DEF MInv, JournalSynced, MigrateTo, Idle, memory, running, loop, history,
     bounds
<1>23. DirInv(durable, offered, damaged)'
  BY <1>1, <1>2, <1>3 DEF MInv, JournalSynced, MigrateTo, Idle, memory, running, loop, history,
     bounds
<1>24. UpInv'
  BY <1>1, <1>2, <1>3 DEF MInv, UpInv, ControlInv, Up, Owns, SameScope, JournalSynced,
     MigrateTo, Idle, memory, running, loop, history, bounds
<1>25. PutInv'
  BY <1>1, <1>2, <1>3 DEF MInv, PutInv, ControlInv, JournalSynced, MigrateTo, Idle, memory,
     running, loop, history, bounds
<1>26. OpenInv'
  BY <1>1, <1>2, <1>3 DEF MInv, OpenInv, ControlInv, Owns, Raw, StageContent, JournalSynced,
     MigrateTo, Idle, memory, running, loop, history, bounds
<1>27. BudgetInv'
  BY <1>1, <1>2, <1>3 DEF MInv, BudgetInv, ControlInv, Up, Charged, Entries, JournalSynced,
     MigrateTo, Idle, memory, running, loop, history, bounds
<1>28. HoldInv'
  BY <1>1, <1>2, <1>3 DEF MInv, HoldInv, ControlInv, Up, JournalSynced, MigrateTo, Idle,
     memory, running, loop, history, bounds
<1>29. HeldIsHead'
  BY <1>1, <1>2, <1>3 DEF MInv, HeldIsHead, ControlInv, Up, JournalSynced, MigrateTo, Idle,
     memory, running, loop, history, bounds
<1>30. TenantInv'
  BY <1>1, <1>2, <1>3 DEF MInv, TenantInv, ControlInv, Up, JournalSynced, MigrateTo, Idle,
     memory, running, loop, history, bounds
<1>31. OneTenant'
  BY <1>1, <1>2, <1>3 DEF MInv, OneTenant, ControlInv, Up, UpInv, Owns, JournalSynced,
     MigrateTo, Idle, memory, running, loop, history, bounds
<1>32. AcceptedSurvives'
  BY <1>1, <1>2, <1>3 DEF MInv, AcceptedSurvives, JournalSynced, MigrateTo, Idle, memory,
     running, loop, history, bounds
<1>33. RefusalJustified'
  BY <1>1, <1>2, <1>3 DEF MInv, RefusalJustified, ControlInv, Up, JournalSynced, MigrateTo,
     Idle, memory, running, loop, history, bounds
<1>34. NoLostWakeup'
  BY <1>1, <1>2, <1>3 DEF MInv, NoLostWakeup, ControlInv, Up, JournalSynced, MigrateTo, Idle,
     memory, running, loop, history, bounds
<1> QED
  BY <1>20, <1>21, <1>22, <1>23, <1>24, <1>25, <1>26, <1>27, <1>28, <1>29, <1>30, <1>31, <1>32,
     <1>33, <1>34 DEF MInv

\* The backup is upgraded.
LEMMA BackupSyncedMInv ==
  ASSUME MInv, BackupSynced
  PROVE  MInv'
<1>1. TypeOK'
  BY DEF MInv, TypeOK, BackupSynced, MigrateTo, Idle, memory, running, loop, history, bounds
<1>2. ControlInv'
  BY DEF MInv, ControlInv, Up, Stages, BackupSynced, MigrateTo, Idle, memory, running, loop,
     history, bounds
<1>3. DirInv(disk, offered, damaged)'
  BY DEF MInv, BackupSynced, MigrateTo, Idle, memory, running, loop, history, bounds
<1>4. DirInv(durable, offered, damaged)'
  BY DEF MInv, BackupSynced, MigrateTo, Idle, memory, running, loop, history, bounds
<1>5. UpInv'
  BY DEF MInv, UpInv, ControlInv, Up, Owns, SameScope, BackupSynced, MigrateTo, Idle, memory,
     running, loop, history, bounds
<1>6. PutInv'
  BY DEF MInv, PutInv, ControlInv, BackupSynced, MigrateTo, Idle, memory, running, loop,
     history, bounds
<1>7. OpenInv'
  BY DEF MInv, OpenInv, ControlInv, Owns, Raw, StageContent, BackupSynced, MigrateTo, Idle,
     memory, running, loop, history, bounds
<1>8. BudgetInv'
  BY DEF MInv, BudgetInv, ControlInv, Up, Charged, Entries, BackupSynced, MigrateTo, Idle,
     memory, running, loop, history, bounds
<1>9. HoldInv'
  BY DEF MInv, HoldInv, ControlInv, Up, BackupSynced, MigrateTo, Idle, memory, running, loop,
     history, bounds
<1>10. HeldIsHead'
  BY DEF MInv, HeldIsHead, ControlInv, Up, BackupSynced, MigrateTo, Idle, memory, running,
     loop, history, bounds
<1>11. TenantInv'
  BY DEF MInv, TenantInv, ControlInv, Up, BackupSynced, MigrateTo, Idle, memory, running, loop,
     history, bounds
<1>12. OneTenant'
  BY DEF MInv, OneTenant, ControlInv, Up, UpInv, Owns, BackupSynced, MigrateTo, Idle, memory,
     running, loop, history, bounds
<1>13. AcceptedSurvives'
  BY DEF MInv, AcceptedSurvives, BackupSynced, MigrateTo, Idle, memory, running, loop, history,
     bounds
<1>14. RefusalJustified'
  BY DEF MInv, RefusalJustified, ControlInv, Up, BackupSynced, MigrateTo, Idle, memory,
     running, loop, history, bounds
<1>15. NoLostWakeup'
  BY DEF MInv, NoLostWakeup, ControlInv, Up, BackupSynced, MigrateTo, Idle, memory, running,
     loop, history, bounds
<1> QED
  BY <1>1, <1>2, <1>3, <1>4, <1>5, <1>6, <1>7, <1>8, <1>9, <1>10, <1>11, <1>12, <1>13, <1>14,
     <1>15 DEF MInv

\* The migration is over.
LEMMA MigrationDoneMInv ==
  ASSUME MInv, MigrationDone
  PROVE  MInv'
<1>1. TypeOK'
  BY DEF MInv, TypeOK, MigrationDone, OpenTo, Idle, memory, running, loop, history, bounds
<1>2. ControlInv'
  BY DEF MInv, ControlInv, Up, MigrationDone, OpenTo, Idle, memory, running, loop, history,
     bounds
<1>3. DirInv(disk, offered, damaged)'
  BY DEF MInv, MigrationDone, OpenTo, Idle, memory, running, loop, history, bounds
<1>4. DirInv(durable, offered, damaged)'
  BY DEF MInv, MigrationDone, OpenTo, Idle, memory, running, loop, history, bounds
<1>5. UpInv'
  BY DEF MInv, UpInv, ControlInv, Up, Owns, SameScope, MigrationDone, OpenTo, Idle, memory,
     running, loop, history, bounds
<1>6. PutInv'
  BY DEF MInv, PutInv, ControlInv, MigrationDone, OpenTo, Idle, memory, running, loop, history,
     bounds
<1>7. OpenInv'
  BY DEF MInv, OpenInv, ControlInv, Owns, Raw, StageContent, MigrationDone, OpenTo, Idle,
     memory, running, loop, history, bounds
<1>8. BudgetInv'
  BY DEF MInv, BudgetInv, ControlInv, Up, Charged, Entries, MigrationDone, OpenTo, Idle,
     memory, running, loop, history, bounds
<1>9. HoldInv'
  BY DEF MInv, HoldInv, ControlInv, Up, MigrationDone, OpenTo, Idle, memory, running, loop,
     history, bounds
<1>10. HeldIsHead'
  BY DEF MInv, HeldIsHead, ControlInv, Up, MigrationDone, OpenTo, Idle, memory, running, loop,
     history, bounds
<1>11. TenantInv'
  BY DEF MInv, TenantInv, ControlInv, Up, MigrationDone, OpenTo, Idle, memory, running, loop,
     history, bounds
<1>12. OneTenant'
  BY DEF MInv, OneTenant, ControlInv, Up, UpInv, Owns, MigrationDone, OpenTo, Idle, memory,
     running, loop, history, bounds
<1>13. AcceptedSurvives'
  BY DEF MInv, AcceptedSurvives, MigrationDone, OpenTo, Idle, memory, running, loop, history,
     bounds
<1>14. RefusalJustified'
  BY DEF MInv, RefusalJustified, ControlInv, Up, MigrationDone, OpenTo, Idle, memory, running,
     loop, history, bounds
<1>15. NoLostWakeup'
  BY DEF MInv, NoLostWakeup, ControlInv, Up, MigrationDone, OpenTo, Idle, memory, running,
     loop, history, bounds
<1> QED
  BY <1>1, <1>2, <1>3, <1>4, <1>5, <1>6, <1>7, <1>8, <1>9, <1>10, <1>11, <1>12, <1>13, <1>14,
     <1>15 DEF MInv

\* The spool is open.
LEMMA OpenReturnMInv ==
  ASSUME MInv, OpenReturn
  PROVE  MInv'
<1>1. /\ op = "open" /\ step = "scan" /\ Owns(manifest) /\ disk.journal = NoFile /\ manifest = Raw
      /\ manifest \in Control /\ disk \in Dirs /\ opener.v2 \in BOOLEAN
      /\ op' = "idle" /\ disk' = disk /\ durable' = disk /\ manifest' = manifest /\ opener' = opener
      /\ names' = Stored(disk) /\ closed' = closed /\ ~closed
  BY OpenerFacts DEF MInv, OpenInv, ControlInv, Up, OpenReturn, Scanned, TypeOK, Goto
<1>2. /\ Fresh(disk, manifest.next) /\ manifest.next <= offered + 1
      /\ manifest \in {disk.primary, disk.backup} /\ Valid(manifest)
  BY <1>1, RawFacts, FileFacts
<1>3. Stored(disk) \subseteq Batches /\ Stored(disk) \subseteq Numbers(disk)
  BY <1>1, RecordFacts DEF Numbers
<1>4. Charged \in Nat /\ Entries \in Nat
  BY ChargedType DEF MInv
<1>5. /\ Charged' = Charged /\ Entries' = Entries /\ bytes' = Charged /\ count' = Entries
      /\ Charged <= MaxBytes
  BY <1>4, BoundFacts DEF Charged, Entries, OpenReturn, OverBudget
<1>6. \A m \in {disk.primary, disk.backup} : Valid(m) => SameScope(m)
  BY <1>1, <1>2 DEF SameScope, MInv, DirInv, CopiesInv
<1>7. disk.stage["journal"] = NoFile
  BY DEF OpenReturn, Unexpected, Stages
<1>20. TypeOK'
  BY <1>1, <1>3, <1>4, <1>5 DEF MInv, TypeOK, OpenReturn, Goto, bounds
<1>21. ControlInv'
  BY <1>1, <1>2, <1>3 DEF MInv, ControlInv, Up, OpenReturn, Goto, Idle, memory, running, loop,
     history, bounds
<1>22. DirInv(disk, offered, damaged)'
  BY <1>1, <1>2, <1>3 DEF MInv, OpenReturn, Goto, Idle, memory, running, loop, history, bounds
<1>23. DirInv(durable, offered, damaged)'
  BY <1>1, <1>2, <1>3 DEF MInv, OpenReturn, Goto, Idle, memory, running, loop, history, bounds
<1>24. UpInv'
  BY <1>1, <1>2, <1>3, <1>6, <1>7 DEF MInv, UpInv, ControlInv, Up, Owns, SameScope, Fresh,
     OpenReturn, Goto, Idle, memory, running, loop, history, bounds
<1>25. PutInv'
  BY <1>1, <1>2, <1>3 DEF MInv, PutInv, ControlInv, OpenReturn, Goto, Idle, memory, running,
     loop, history, bounds
<1>26. OpenInv'
  BY <1>1, <1>2, <1>3 DEF MInv, OpenInv, ControlInv, Owns, Raw, StageContent, OpenReturn, Goto,
     Idle, memory, running, loop, history, bounds
<1>27. BudgetInv'
  BY <1>1, <1>5 DEF BudgetInv
<1>28. HoldInv'
  BY <1>1, <1>2, <1>3 DEF MInv, HoldInv, ControlInv, Up, OpenReturn, Goto, Idle, memory,
     running, loop, history, bounds
<1>29. HeldIsHead'
  BY <1>1, <1>2, <1>3 DEF MInv, HeldIsHead, ControlInv, Up, OpenReturn, Goto, Idle, memory,
     running, loop, history, bounds
<1>30. TenantInv'
  <2>1. ASSUME NEW h \in tenants'
        PROVE  manifest.ver = 2 /\ manifest.scope = h
    <3>1. CASE h \in tenants
      BY <1>1, <3>1 DEF MInv, TenantInv
    <3>2. CASE opener.v2 /\ h = opener.hash
      BY <1>1, <3>2 DEF Owns
    <3> QED
      BY <2>1, <3>1, <3>2 DEF OpenReturn
  <2>2. \A h \in tenants' : Settled(disk, h)
    BY <1>1, <1>2, <1>6, <2>1, FileFacts DEF Settled, SameScope
  <2> QED
    BY <1>1, <2>1, <2>2 DEF TenantInv
<1>31. OneTenant'
  <2>1. \A h \in tenants' : h = manifest.scope
    BY <1>1, <1>30 DEF TenantInv, Up
  <2>2. Cardinality(tenants') <= 1
    <3>1. tenants' \in SUBSET {manifest.scope}
      BY <2>1
    <3>2. IsFiniteSet({manifest.scope}) /\ Cardinality({manifest.scope}) = 1
      BY FS_Singleton
    <3> QED
      BY <3>1, <3>2, FS_Subset
  <2> QED
    BY <1>1, <2>2 DEF OneTenant, Owns
<1>32. AcceptedSurvives'
  BY <1>1, <1>2, <1>3 DEF MInv, AcceptedSurvives, OpenReturn, Goto, Idle, memory, running,
     loop, history, bounds
<1>33. RefusalJustified'
  BY <1>1, <1>2, <1>3 DEF MInv, RefusalJustified, ControlInv, Up, OpenReturn, Goto, Idle,
     memory, running, loop, history, bounds
<1>34. NoLostWakeup'
  BY <1>1, <1>2, <1>3 DEF MInv, NoLostWakeup, ControlInv, Up, OpenReturn, Goto, Idle, memory,
     running, loop, history, bounds
<1> QED
  BY <1>20, <1>21, <1>22, <1>23, <1>24, <1>25, <1>26, <1>27, <1>28, <1>29, <1>30, <1>31, <1>32,
     <1>33, <1>34 DEF MInv

\* The backup copy of the manifest is renamed into place.
LEMMA RenameBackupMInv ==
  ASSUME MInv, target = "backup", Rename
  PROVE  MInv'
<1> DEFINE e == [disk EXCEPT !.backup = manifest]
<1>1. disk \in Dirs /\ manifest \in Control /\ DirInv(disk, offered, damaged)
  BY DEF MInv, TypeOK
<1>2. /\ e \in Dirs /\ SameRecords(e, disk) /\ e.backup = manifest /\ e.primary = disk.primary
      /\ e.journal = disk.journal /\ e.stage = disk.stage
  BY <1>1, BackupSet
<1>3. disk' = [e EXCEPT !.pending = FALSE] /\ step' = "sync" /\ step = "rename" /\ op \in {"put", "open"}
  BY DEF Rename, Placed
<1> HIDE DEF e
<1>4. disk' \in Dirs /\ Alike(disk', e)
  BY <1>2, <1>3, PendingSet
<1>5. /\ disk'.backup = manifest /\ disk'.primary = disk.primary /\ disk'.journal = disk.journal
      /\ disk'.stage = disk.stage /\ SameRecords(disk', disk)
  BY <1>2, <1>4 DEF Alike, SameControl, SameRecords
<1>6. /\ disk'.recs = disk.recs /\ disk'.bad = disk.bad
      /\ Stored(disk') = Stored(disk) /\ Numbers(disk') = Numbers(disk)
      /\ RecordCosts(disk') = RecordCosts(disk) /\ BadCosts(disk') = BadCosts(disk)
      /\ EntriesOf(disk') = EntriesOf(disk)
      /\ \A b : Holds(disk', b) <=> Holds(disk, b)
      /\ \A n : Fresh(disk', n) <=> Fresh(disk, n)
      /\ CopiesInv(disk', offered) /\ StagesInv(disk') => DirInv(disk', offered, damaged)
  BY <1>1, <1>4, <1>5, ControlSet
<1>7. disk.journal = NoFile /\ disk.stage["journal"] = NoFile
  BY <1>3 DEF MInv, UpInv, Up, OpenInv
<1>8. Fresh(disk, manifest.next) /\ manifest.next <= offered + 1
  BY <1>3 DEF MInv, UpInv, Up, OpenInv, TypeOK, Fresh
<1>9. Valid(disk.primary) => SameScope(disk.primary)
  BY <1>3, FileFacts DEF MInv, UpInv, Up, OpenInv, SameScope, Valid
<1>10. CopiesInv(disk', offered)
  <2>1. \A m \in {disk'.primary, disk'.backup} : Valid(m) => Fresh(disk', m.next) /\ m.next <= offered + 1
    BY <1>1, <1>5, <1>6, <1>8 DEF DirInv, CopiesInv
  <2>2. disk'.journal = NoFile /\ (Valid(disk'.primary) /\ Valid(disk'.backup) =>
          disk'.primary.ver = disk'.backup.ver /\ disk'.primary.scope = disk'.backup.scope)
    BY <1>5, <1>7, <1>9 DEF SameScope
  <2> QED
    BY <2>1, <2>2 DEF CopiesInv
<1>11. StagesInv(disk')
  BY <1>1, <1>5, <1>7, FileFacts DEF DirInv, StagesInv
<1>12. DirInv(disk', offered, damaged)
  BY <1>6, <1>10, <1>11
<1>13. \A h \in tenants : Settled(disk', h)
  BY <1>1, <1>3, <1>5, <1>9, FileFacts DEF MInv, TenantInv, Settled, Up, SameScope
<1>20. TypeOK'
  BY <1>3, <1>4, <1>5, <1>6, <1>7, <1>12, <1>13 DEF MInv, TypeOK, Rename, Idle, memory,
     running, loop, history, bounds
<1>21. ControlInv'
  BY <1>3, <1>4, <1>5, <1>6, <1>7, <1>12, <1>13 DEF MInv, ControlInv, Up, Rename, Idle, memory,
     running, loop, history, bounds
<1>22. DirInv(disk, offered, damaged)'
  BY <1>3, <1>4, <1>5, <1>6, <1>7, <1>12, <1>13 DEF MInv, Rename, Idle, memory, running, loop,
     history, bounds
<1>23. DirInv(durable, offered, damaged)'
  BY <1>3, <1>4, <1>5, <1>6, <1>7, <1>12, <1>13 DEF MInv, Rename, Idle, memory, running, loop,
     history, bounds
<1>24. UpInv'
  BY <1>3, <1>4, <1>5, <1>6, <1>7, <1>12, <1>13 DEF MInv, UpInv, ControlInv, Up, Owns,
     SameScope, Fresh, Rename, Idle, memory, running, loop, history, bounds
<1>25. PutInv'
  BY <1>3, <1>4, <1>5, <1>6, <1>7, <1>12, <1>13 DEF MInv, PutInv, ControlInv, Fresh, Rename,
     Idle, memory, running, loop, history, bounds
<1>26. OpenInv'
  BY <1>3, <1>4, <1>5, <1>6, <1>7, <1>12, <1>13 DEF MInv, OpenInv, ControlInv, Owns, Raw,
     StageContent, Fresh, Rename, Idle, memory, running, loop, history, bounds
<1>27. BudgetInv'
  BY <1>3, <1>4, <1>5, <1>6, <1>7, <1>12, <1>13 DEF MInv, BudgetInv, ControlInv, Up, Charged,
     Entries, Rename, Idle, memory, running, loop, history, bounds
<1>28. HoldInv'
  BY <1>3, <1>4, <1>5, <1>6, <1>7, <1>12, <1>13 DEF MInv, HoldInv, ControlInv, Up, Rename,
     Idle, memory, running, loop, history, bounds
<1>29. HeldIsHead'
  BY <1>3, <1>4, <1>5, <1>6, <1>7, <1>12, <1>13 DEF MInv, HeldIsHead, ControlInv, Up, Rename,
     Idle, memory, running, loop, history, bounds
<1>30. TenantInv'
  BY <1>3, <1>4, <1>5, <1>6, <1>7, <1>12, <1>13 DEF MInv, TenantInv, ControlInv, Up, Rename,
     Idle, memory, running, loop, history, bounds
<1>31. OneTenant'
  BY <1>3, <1>4, <1>5, <1>6, <1>7, <1>12, <1>13 DEF MInv, OneTenant, ControlInv, Up, UpInv,
     Owns, Rename, Idle, memory, running, loop, history, bounds
<1>32. AcceptedSurvives'
  BY <1>3, <1>4, <1>5, <1>6, <1>7, <1>12, <1>13 DEF MInv, AcceptedSurvives, Rename, Idle,
     memory, running, loop, history, bounds
<1>33. RefusalJustified'
  BY <1>3, <1>4, <1>5, <1>6, <1>7, <1>12, <1>13 DEF MInv, RefusalJustified, ControlInv, Up,
     Rename, Idle, memory, running, loop, history, bounds
<1>34. NoLostWakeup'
  BY <1>3, <1>4, <1>5, <1>6, <1>7, <1>12, <1>13 DEF MInv, NoLostWakeup, ControlInv, Up, Rename,
     Idle, memory, running, loop, history, bounds
<1> QED
  BY <1>20, <1>21, <1>22, <1>23, <1>24, <1>25, <1>26, <1>27, <1>28, <1>29, <1>30, <1>31, <1>32,
     <1>33, <1>34 DEF MInv

\* The primary copy of the manifest is renamed into place.
LEMMA RenamePrimaryMInv ==
  ASSUME MInv, target = "primary", Rename
  PROVE  MInv'
<1> DEFINE e == [disk EXCEPT !.primary = manifest]
<1>1. disk \in Dirs /\ manifest \in Control /\ DirInv(disk, offered, damaged)
  BY DEF MInv, TypeOK
<1>2. /\ e \in Dirs /\ SameRecords(e, disk) /\ e.primary = manifest /\ e.backup = disk.backup
      /\ e.journal = disk.journal /\ e.stage = disk.stage
  BY <1>1, PrimarySet
<1>3. disk' = [e EXCEPT !.pending = FALSE] /\ step' = "sync" /\ step = "rename" /\ op \in {"put", "open"}
  BY DEF Rename, Placed
<1> HIDE DEF e
<1>4. disk' \in Dirs /\ Alike(disk', e)
  BY <1>2, <1>3, PendingSet
<1>5. /\ disk'.primary = manifest /\ disk'.backup = disk.backup /\ disk'.journal = disk.journal
      /\ disk'.stage = disk.stage /\ SameRecords(disk', disk)
  BY <1>2, <1>4 DEF Alike, SameControl, SameRecords
<1>6. /\ disk'.recs = disk.recs /\ disk'.bad = disk.bad
      /\ Stored(disk') = Stored(disk) /\ Numbers(disk') = Numbers(disk)
      /\ RecordCosts(disk') = RecordCosts(disk) /\ BadCosts(disk') = BadCosts(disk)
      /\ EntriesOf(disk') = EntriesOf(disk)
      /\ \A b : Holds(disk', b) <=> Holds(disk, b)
      /\ \A n : Fresh(disk', n) <=> Fresh(disk, n)
      /\ CopiesInv(disk', offered) /\ StagesInv(disk') => DirInv(disk', offered, damaged)
  BY <1>1, <1>4, <1>5, ControlSet
<1>7. disk.journal = NoFile /\ disk.stage["journal"] = NoFile
  BY <1>3 DEF MInv, UpInv, Up, OpenInv
<1>8. Fresh(disk, manifest.next) /\ manifest.next <= offered + 1
  BY <1>3 DEF MInv, UpInv, Up, OpenInv, TypeOK, Fresh
<1>9. Valid(disk.backup) => SameScope(disk.backup)
  BY <1>3, FileFacts DEF MInv, UpInv, Up, OpenInv, SameScope, Valid
<1>10. CopiesInv(disk', offered)
  <2>1. \A m \in {disk'.primary, disk'.backup} : Valid(m) => Fresh(disk', m.next) /\ m.next <= offered + 1
    BY <1>1, <1>5, <1>6, <1>8 DEF DirInv, CopiesInv
  <2>2. disk'.journal = NoFile /\ (Valid(disk'.primary) /\ Valid(disk'.backup) =>
          disk'.primary.ver = disk'.backup.ver /\ disk'.primary.scope = disk'.backup.scope)
    BY <1>5, <1>7, <1>9 DEF SameScope
  <2> QED
    BY <2>1, <2>2 DEF CopiesInv
<1>11. StagesInv(disk')
  BY <1>1, <1>5, <1>7, FileFacts DEF DirInv, StagesInv
<1>12. DirInv(disk', offered, damaged)
  BY <1>6, <1>10, <1>11
<1>13. \A h \in tenants : Settled(disk', h)
  BY <1>1, <1>3, <1>5, <1>9, FileFacts DEF MInv, TenantInv, Settled, Up, SameScope
<1>20. TypeOK'
  BY <1>3, <1>4, <1>5, <1>6, <1>7, <1>12, <1>13 DEF MInv, TypeOK, Rename, Idle, memory,
     running, loop, history, bounds
<1>21. ControlInv'
  BY <1>3, <1>4, <1>5, <1>6, <1>7, <1>12, <1>13 DEF MInv, ControlInv, Up, Rename, Idle, memory,
     running, loop, history, bounds
<1>22. DirInv(disk, offered, damaged)'
  BY <1>3, <1>4, <1>5, <1>6, <1>7, <1>12, <1>13 DEF MInv, Rename, Idle, memory, running, loop,
     history, bounds
<1>23. DirInv(durable, offered, damaged)'
  BY <1>3, <1>4, <1>5, <1>6, <1>7, <1>12, <1>13 DEF MInv, Rename, Idle, memory, running, loop,
     history, bounds
<1>24. UpInv'
  BY <1>3, <1>4, <1>5, <1>6, <1>7, <1>12, <1>13 DEF MInv, UpInv, ControlInv, Up, Owns,
     SameScope, Fresh, Rename, Idle, memory, running, loop, history, bounds
<1>25. PutInv'
  BY <1>3, <1>4, <1>5, <1>6, <1>7, <1>12, <1>13 DEF MInv, PutInv, ControlInv, Fresh, Rename,
     Idle, memory, running, loop, history, bounds
<1>26. OpenInv'
  BY <1>3, <1>4, <1>5, <1>6, <1>7, <1>12, <1>13 DEF MInv, OpenInv, ControlInv, Owns, Raw,
     StageContent, Fresh, Rename, Idle, memory, running, loop, history, bounds
<1>27. BudgetInv'
  BY <1>3, <1>4, <1>5, <1>6, <1>7, <1>12, <1>13 DEF MInv, BudgetInv, ControlInv, Up, Charged,
     Entries, Rename, Idle, memory, running, loop, history, bounds
<1>28. HoldInv'
  BY <1>3, <1>4, <1>5, <1>6, <1>7, <1>12, <1>13 DEF MInv, HoldInv, ControlInv, Up, Rename,
     Idle, memory, running, loop, history, bounds
<1>29. HeldIsHead'
  BY <1>3, <1>4, <1>5, <1>6, <1>7, <1>12, <1>13 DEF MInv, HeldIsHead, ControlInv, Up, Rename,
     Idle, memory, running, loop, history, bounds
<1>30. TenantInv'
  BY <1>3, <1>4, <1>5, <1>6, <1>7, <1>12, <1>13 DEF MInv, TenantInv, ControlInv, Up, Rename,
     Idle, memory, running, loop, history, bounds
<1>31. OneTenant'
  BY <1>3, <1>4, <1>5, <1>6, <1>7, <1>12, <1>13 DEF MInv, OneTenant, ControlInv, Up, UpInv,
     Owns, Rename, Idle, memory, running, loop, history, bounds
<1>32. AcceptedSurvives'
  BY <1>3, <1>4, <1>5, <1>6, <1>7, <1>12, <1>13 DEF MInv, AcceptedSurvives, Rename, Idle,
     memory, running, loop, history, bounds
<1>33. RefusalJustified'
  BY <1>3, <1>4, <1>5, <1>6, <1>7, <1>12, <1>13 DEF MInv, RefusalJustified, ControlInv, Up,
     Rename, Idle, memory, running, loop, history, bounds
<1>34. NoLostWakeup'
  BY <1>3, <1>4, <1>5, <1>6, <1>7, <1>12, <1>13 DEF MInv, NoLostWakeup, ControlInv, Up, Rename,
     Idle, memory, running, loop, history, bounds
<1> QED
  BY <1>20, <1>21, <1>22, <1>23, <1>24, <1>25, <1>26, <1>27, <1>28, <1>29, <1>30, <1>31, <1>32,
     <1>33, <1>34 DEF MInv

\* The record is renamed into place.
LEMMA RenameRecordMInv ==
  ASSUME MInv, target = "record", Rename
  PROVE  MInv'
<1> DEFINE c == [batch |-> cur, ok |-> TRUE]
           e == [disk EXCEPT !.recs[seq] = c]
<1>1. /\ disk \in Dirs /\ manifest \in Control /\ DirInv(disk, offered, damaged)
      /\ op = "put" /\ step = "rename" /\ step' = "sync" /\ offered \in Nat
  BY DEF MInv, TypeOK, Rename, ControlInv
<1>2. /\ manifest.next = seq + 1 /\ seq \in Batches /\ cur \in Batches /\ cur <= offered
      /\ disk.backup = manifest /\ disk.primary = manifest /\ Fresh(disk, seq)
  BY <1>1 DEF MInv, PutInv, TypeOK
<1>3. /\ EntriesOf(disk) < MaxItems /\ bytes = Charged /\ count = Entries
      /\ Charged + Cost[cur] <= MaxBytes /\ disk.journal = NoFile
  BY <1>1 DEF MInv, BudgetInv, UpInv, Up, ControlInv, Entries
<1>4. c \in Records /\ c.ok = TRUE /\ c.batch = cur /\ c.batch <= offered
  BY <1>2 DEF Records
<1>5. disk' = [e EXCEPT !.pending = FALSE]
  BY DEF Rename, Placed
<1> HIDE DEF c
<1>6. /\ e \in Dirs /\ SameControl(e, disk) /\ e.bad = disk.bad
      /\ e.recs = [disk.recs EXCEPT ![seq] = c]
  BY <1>1, <1>2, <1>4, RecordSet
<1> HIDE DEF e
<1>7. disk' \in Dirs /\ Alike(disk', e)
  BY <1>5, <1>6, PendingSet
<1>8. /\ SameControl(disk', disk) /\ disk'.bad = disk.bad
      /\ disk'.recs = [disk.recs EXCEPT ![seq] = c]
  BY <1>6, <1>7 DEF Alike, SameControl, SameRecords
<1>9. seq < disk.primary.next /\ seq < disk.backup.next
  BY <1>1, <1>2, FileFacts, BoundFacts
<1>9a. Room(disk, seq, c, offered)
  BY <1>3, <1>4, <1>9 DEF Room
<1>9b. Places(disk', disk, seq, c) /\ SameControl(disk', disk)
  BY <1>8 DEF Places
<1>10. /\ DirInv(disk', offered, damaged) /\ Stored(disk') = Stored(disk) \cup {seq}
       /\ Numbers(disk') = Numbers(disk) \cup {seq}
       /\ disk'.recs[seq] = c /\ \A t \in Stored(disk) : disk'.recs[t] = disk.recs[t]
       /\ RecordCosts(disk') = Cost[c.batch] + RecordCosts(disk)
       /\ BadCosts(disk') = BadCosts(disk) /\ EntriesOf(disk') = EntriesOf(disk) + 1
  BY <1>1, <1>2, <1>4, <1>7, <1>9a, <1>9b, RecordPlaced
<1>11. \A b : Holds(disk, b) => Holds(disk', b)
  BY <1>10 DEF Holds
<1>12. /\ disk'.primary = disk.primary /\ disk'.backup = disk.backup
       /\ disk'.journal = disk.journal /\ disk'.stage = disk.stage
  BY <1>8 DEF SameControl
<1>13. \A h : Settled(disk, h) => Settled(disk', h)
  BY <1>12 DEF Settled
<1>20. TypeOK'
  BY <1>1, <1>2, <1>7, <1>10, <1>11, <1>12, <1>13 DEF MInv, TypeOK, Rename, Idle, memory,
     running, loop, history, bounds
<1>21. ControlInv'
  BY <1>1, <1>2, <1>7, <1>10, <1>11, <1>12, <1>13 DEF MInv, ControlInv, Up, Rename, Idle,
     memory, running, loop, history, bounds
<1>22. DirInv(disk, offered, damaged)'
  BY <1>1, <1>2, <1>7, <1>10, <1>11, <1>12, <1>13 DEF MInv, Rename, Idle, memory, running,
     loop, history, bounds
<1>23. DirInv(durable, offered, damaged)'
  BY <1>1, <1>2, <1>7, <1>10, <1>11, <1>12, <1>13 DEF MInv, Rename, Idle, memory, running,
     loop, history, bounds
<1>24. UpInv'
  <2>1. \A s \in Numbers(disk') \cup names : s < manifest.next
    BY <1>1, <1>2, <1>10, BoundFacts DEF MInv, UpInv, Up
  <2> QED
    BY <1>1, <1>12, <2>1 DEF MInv, UpInv, Up, Owns, SameScope, Rename, memory, history
<1>25. PutInv'
  <2>1. /\ op' = op /\ target' = target /\ manifest' = manifest /\ seq' = seq /\ cur' = cur
        /\ names' = names /\ offered' = offered
    BY DEF Rename, memory, history
  <2> QED
    BY <1>1, <1>2, <1>10, <1>12, <2>1 DEF MInv, PutInv, c
<1>26. OpenInv'
  BY <1>1, <1>2, <1>7, <1>10, <1>11, <1>12, <1>13 DEF MInv, OpenInv, ControlInv, Owns, Raw,
     StageContent, Fresh, Rename, Idle, memory, running, loop, history, bounds
<1>27. BudgetInv'
  <2>1. RecordCosts(disk) \in Nat /\ BadCosts(disk) \in Nat /\ Cost[cur] \in Nat /\ Reserve \in Nat
    BY <1>1, <1>2, CostFacts, BoundFacts
  <2>2. /\ op' = op /\ target' = target /\ bytes' = bytes /\ count' = count /\ cur' = cur
        /\ opener' = opener /\ closed' = closed
    BY DEF Rename, memory
  <2>3. Charged' = Charged + Cost[cur] /\ Entries' = Entries + 1
    BY <1>4, <1>10, <2>1, <2>2 DEF Charged, Entries
  <2>4. count < MaxItems /\ bytes + Cost[cur] <= MaxBytes
    BY <1>1 DEF MInv, BudgetInv
  <2> QED
    BY <1>1, <1>3, <2>2, <2>3, <2>4 DEF BudgetInv
<1>28. HoldInv'
  <2>1. /\ op' = op /\ names' = names /\ consumer' = consumer /\ held' = held
        /\ delivered' = delivered
    BY DEF Rename, memory, loop, history
  <2>2. names \subseteq Stored(disk) => names \subseteq Stored(disk')
    BY <1>10
  <2>3. consumer = "acks" => disk'.recs[held] = disk.recs[held]
    BY <1>1, <1>10, HeldStored
  <2> QED
    BY <1>1, <2>1, <2>2, <2>3 DEF MInv, HoldInv
<1>29. HeldIsHead'
  BY <1>1, <1>2, <1>7, <1>10, <1>11, <1>12, <1>13 DEF MInv, HeldIsHead, ControlInv, Up, Rename,
     Idle, memory, running, loop, history, bounds
<1>30. TenantInv'
  BY <1>1, <1>2, <1>7, <1>10, <1>11, <1>12, <1>13 DEF MInv, TenantInv, ControlInv, Up, Rename,
     Idle, memory, running, loop, history, bounds
<1>31. OneTenant'
  BY <1>1, <1>2, <1>7, <1>10, <1>11, <1>12, <1>13 DEF MInv, OneTenant, ControlInv, Up, UpInv,
     Owns, Rename, Idle, memory, running, loop, history, bounds
<1>32. AcceptedSurvives'
  BY <1>1, <1>2, <1>7, <1>10, <1>11, <1>12, <1>13 DEF MInv, AcceptedSurvives, Rename, Idle,
     memory, running, loop, history, bounds
<1>33. RefusalJustified'
  BY <1>1, <1>2, <1>7, <1>10, <1>11, <1>12, <1>13 DEF MInv, RefusalJustified, ControlInv, Up,
     Rename, Idle, memory, running, loop, history, bounds
<1>34. NoLostWakeup'
  BY <1>1, <1>2, <1>7, <1>10, <1>11, <1>12, <1>13 DEF MInv, NoLostWakeup, ControlInv, Up,
     Rename, Idle, memory, running, loop, history, bounds
<1> QED
  BY <1>20, <1>21, <1>22, <1>23, <1>24, <1>25, <1>26, <1>27, <1>28, <1>29, <1>30, <1>31, <1>32,
     <1>33, <1>34 DEF MInv

\* Next renames the head aside.
LEMMA NextQuarantinesMInv ==
  ASSUME MInv, NextQuarantines
  PROVE  MInv'
<1>1. /\ disk \in Dirs /\ DirInv(disk, offered, damaged) /\ Head(names) \in Stored(disk)
      /\ ~disk.recs[Head(names)].ok /\ op = "idle"
  <2>1. names \in SUBSET Batches /\ names # {} /\ names \subseteq Stored(disk)
    BY DEF MInv, TypeOK, NextQuarantines, HoldInv, Idle
  <2> QED
    BY <2>1, HeadFacts DEF MInv, TypeOK, NextQuarantines, HeadFile, Idle
<1>2. disk' = Quarantine(disk, Head(names))
  BY DEF NextQuarantines
<1>3. disk' \in Dirs /\ SameControl(disk', disk)
  BY <1>1, <1>2, QuarantineFacts
<1>4. /\ DirInv(disk', offered, damaged) /\ Stored(disk') = Stored(disk) \ {Head(names)}
      /\ Numbers(disk') = Numbers(disk) /\ \A t \in Stored(disk') : disk'.recs[t] = disk.recs[t]
      /\ RecordCosts(disk') + BadCosts(disk') = RecordCosts(disk) + BadCosts(disk)
      /\ EntriesOf(disk') = EntriesOf(disk)
  BY <1>1, <1>2, RecordQuarantined
<1>5. /\ disk'.primary = disk.primary /\ disk'.backup = disk.backup
      /\ disk'.journal = disk.journal /\ disk'.stage = disk.stage
  BY <1>3 DEF SameControl
<1>6. \A h : Settled(disk, h) => Settled(disk', h)
  BY <1>5 DEF Settled
<1>7. \A b : Holds(disk, b) /\ b # disk.recs[Head(names)].batch => Holds(disk', b)
  BY <1>4 DEF Holds
<1>8. disk.recs[Head(names)].batch \in damaged
  BY <1>1 DEF DirInv, RecordsInv
<1>9. opener' = opener => Charged' = Charged /\ Entries' = Entries
  <2>1. /\ RecordCosts(disk) \in Nat /\ BadCosts(disk) \in Nat
        /\ RecordCosts(disk') \in Nat /\ BadCosts(disk') \in Nat /\ Reserve \in Nat
    BY <1>1, <1>3, CostFacts, BoundFacts
  <2> QED
    BY <1>4, <2>1 DEF Charged, Entries
<1>20. TypeOK'
  BY <1>1, <1>3, <1>4, <1>5, <1>6, <1>7, <1>8, <1>9 DEF MInv, TypeOK, NextQuarantines, Goto,
     Idle, memory, running, loop, history, bounds
<1>21. ControlInv'
  BY <1>1, <1>3, <1>4, <1>5, <1>6, <1>7, <1>8, <1>9 DEF MInv, ControlInv, Up, NextQuarantines,
     Goto, Idle, memory, running, loop, history, bounds
<1>22. DirInv(disk, offered, damaged)'
  BY <1>1, <1>3, <1>4, <1>5, <1>6, <1>7, <1>8, <1>9 DEF MInv, NextQuarantines, Goto, Idle,
     memory, running, loop, history, bounds
<1>23. DirInv(durable, offered, damaged)'
  BY <1>1, <1>3, <1>4, <1>5, <1>6, <1>7, <1>8, <1>9 DEF MInv, NextQuarantines, Goto, Idle,
     memory, running, loop, history, bounds
<1>24. UpInv'
  BY <1>1, <1>3, <1>4, <1>5, <1>6, <1>7, <1>8, <1>9 DEF MInv, UpInv, ControlInv, Up, Owns,
     SameScope, Fresh, NextQuarantines, Goto, Idle, memory, running, loop, history, bounds
<1>25. PutInv'
  BY <1>1, <1>3, <1>4, <1>5, <1>6, <1>7, <1>8, <1>9 DEF MInv, PutInv, ControlInv, Fresh,
     NextQuarantines, Goto, Idle, memory, running, loop, history, bounds
<1>26. OpenInv'
  BY <1>1, <1>3, <1>4, <1>5, <1>6, <1>7, <1>8, <1>9 DEF MInv, OpenInv, ControlInv, Owns, Raw,
     StageContent, Fresh, NextQuarantines, Goto, Idle, memory, running, loop, history, bounds
<1>27. BudgetInv'
  BY <1>1, <1>9 DEF MInv, BudgetInv, Up, NextQuarantines, Goto, memory
<1>28. HoldInv'
  BY <1>1, <1>3, <1>4, <1>5, <1>6, <1>7, <1>8, <1>9 DEF MInv, HoldInv, ControlInv, Up,
     NextQuarantines, Goto, Idle, memory, running, loop, history, bounds
<1>29. HeldIsHead'
  BY <1>1, <1>3, <1>4, <1>5, <1>6, <1>7, <1>8, <1>9 DEF MInv, HeldIsHead, ControlInv, Up,
     NextQuarantines, Goto, Idle, memory, running, loop, history, bounds
<1>30. TenantInv'
  BY <1>1, <1>3, <1>4, <1>5, <1>6, <1>7, <1>8, <1>9 DEF MInv, TenantInv, ControlInv, Up,
     NextQuarantines, Goto, Idle, memory, running, loop, history, bounds
<1>31. OneTenant'
  BY <1>1, <1>3, <1>4, <1>5, <1>6, <1>7, <1>8, <1>9 DEF MInv, OneTenant, ControlInv, Up, UpInv,
     Owns, NextQuarantines, Goto, Idle, memory, running, loop, history, bounds
<1>32. AcceptedSurvives'
  BY <1>1, <1>3, <1>4, <1>5, <1>6, <1>7, <1>8, <1>9 DEF MInv, AcceptedSurvives,
     NextQuarantines, Goto, Idle, memory, running, loop, history, bounds
<1>33. RefusalJustified'
  BY <1>1, <1>3, <1>4, <1>5, <1>6, <1>7, <1>8, <1>9 DEF MInv, RefusalJustified, ControlInv, Up,
     NextQuarantines, Goto, Idle, memory, running, loop, history, bounds
<1>34. NoLostWakeup'
  BY <1>1, <1>3, <1>4, <1>5, <1>6, <1>7, <1>8, <1>9 DEF MInv, NoLostWakeup, ControlInv, Up,
     NextQuarantines, Goto, Idle, memory, running, loop, history, bounds
<1> QED
  BY <1>20, <1>21, <1>22, <1>23, <1>24, <1>25, <1>26, <1>27, <1>28, <1>29, <1>30, <1>31, <1>32,
     <1>33, <1>34 DEF MInv

\* The scan renames an undecodable record aside.
LEMMA OpenQuarantinesMInv ==
  ASSUME MInv, NEW s \in Batches, OpenQuarantines(s)
  PROVE  MInv'
<1>1. /\ disk \in Dirs /\ DirInv(disk, offered, damaged) /\ s \in Stored(disk)
      /\ ~disk.recs[s].ok /\ op = "open" /\ step = "scan"
  BY DEF MInv, TypeOK, OpenQuarantines, Stored
<1>2. disk' = Quarantine(disk, s)
  BY DEF OpenQuarantines
<1>3. disk' \in Dirs /\ SameControl(disk', disk)
  BY <1>1, <1>2, QuarantineFacts
<1>4. /\ DirInv(disk', offered, damaged) /\ Stored(disk') = Stored(disk) \ {s}
      /\ Numbers(disk') = Numbers(disk) /\ \A t \in Stored(disk') : disk'.recs[t] = disk.recs[t]
      /\ RecordCosts(disk') + BadCosts(disk') = RecordCosts(disk) + BadCosts(disk)
      /\ EntriesOf(disk') = EntriesOf(disk)
  BY <1>1, <1>2, RecordQuarantined
<1>5. /\ disk'.primary = disk.primary /\ disk'.backup = disk.backup
      /\ disk'.journal = disk.journal /\ disk'.stage = disk.stage
  BY <1>3 DEF SameControl
<1>6. \A h : Settled(disk, h) => Settled(disk', h)
  BY <1>5 DEF Settled
<1>7. \A b : Holds(disk, b) /\ b # disk.recs[s].batch => Holds(disk', b)
  BY <1>4 DEF Holds
<1>8. disk.recs[s].batch \in damaged
  BY <1>1 DEF DirInv, RecordsInv
<1>9. opener' = opener => Charged' = Charged /\ Entries' = Entries
  <2>1. /\ RecordCosts(disk) \in Nat /\ BadCosts(disk) \in Nat
        /\ RecordCosts(disk') \in Nat /\ BadCosts(disk') \in Nat /\ Reserve \in Nat
    BY <1>1, <1>3, CostFacts, BoundFacts
  <2> QED
    BY <1>4, <2>1 DEF Charged, Entries
<1>20. TypeOK'
  BY <1>1, <1>3, <1>4, <1>5, <1>6, <1>7, <1>8, <1>9 DEF MInv, TypeOK, OpenQuarantines, OpenTo,
     Idle, memory, running, loop, history, bounds
<1>21. ControlInv'
  BY <1>1, <1>3, <1>4, <1>5, <1>6, <1>7, <1>8, <1>9 DEF MInv, ControlInv, Up, OpenQuarantines,
     OpenTo, Idle, memory, running, loop, history, bounds
<1>22. DirInv(disk, offered, damaged)'
  BY <1>1, <1>3, <1>4, <1>5, <1>6, <1>7, <1>8, <1>9 DEF MInv, OpenQuarantines, OpenTo, Idle,
     memory, running, loop, history, bounds
<1>23. DirInv(durable, offered, damaged)'
  BY <1>1, <1>3, <1>4, <1>5, <1>6, <1>7, <1>8, <1>9 DEF MInv, OpenQuarantines, OpenTo, Idle,
     memory, running, loop, history, bounds
<1>24. UpInv'
  BY <1>1, <1>3, <1>4, <1>5, <1>6, <1>7, <1>8, <1>9 DEF MInv, UpInv, ControlInv, Up, Owns,
     SameScope, Fresh, OpenQuarantines, OpenTo, Idle, memory, running, loop, history, bounds
<1>25. PutInv'
  BY <1>1, <1>3, <1>4, <1>5, <1>6, <1>7, <1>8, <1>9 DEF MInv, PutInv, ControlInv, Fresh,
     OpenQuarantines, OpenTo, Idle, memory, running, loop, history, bounds
<1>26. OpenInv'
  BY <1>1, <1>3, <1>4, <1>5, <1>6, <1>7, <1>8, <1>9 DEF MInv, OpenInv, ControlInv, Owns, Raw,
     StageContent, Fresh, OpenQuarantines, OpenTo, Idle, memory, running, loop, history, bounds
<1>27. BudgetInv'
  BY <1>1, <1>3, <1>4, <1>5, <1>6, <1>7, <1>8, <1>9 DEF MInv, BudgetInv, ControlInv, Up,
     Charged, Entries, OpenQuarantines, OpenTo, Idle, memory, running, loop, history, bounds
<1>28. HoldInv'
  BY <1>1, <1>3, <1>4, <1>5, <1>6, <1>7, <1>8, <1>9 DEF MInv, HoldInv, ControlInv, Up,
     OpenQuarantines, OpenTo, Idle, memory, running, loop, history, bounds
<1>29. HeldIsHead'
  BY <1>1, <1>3, <1>4, <1>5, <1>6, <1>7, <1>8, <1>9 DEF MInv, HeldIsHead, ControlInv, Up,
     OpenQuarantines, OpenTo, Idle, memory, running, loop, history, bounds
<1>30. TenantInv'
  BY <1>1, <1>3, <1>4, <1>5, <1>6, <1>7, <1>8, <1>9 DEF MInv, TenantInv, ControlInv, Up,
     OpenQuarantines, OpenTo, Idle, memory, running, loop, history, bounds
<1>31. OneTenant'
  BY <1>1, <1>3, <1>4, <1>5, <1>6, <1>7, <1>8, <1>9 DEF MInv, OneTenant, ControlInv, Up, UpInv,
     Owns, OpenQuarantines, OpenTo, Idle, memory, running, loop, history, bounds
<1>32. AcceptedSurvives'
  BY <1>1, <1>3, <1>4, <1>5, <1>6, <1>7, <1>8, <1>9 DEF MInv, AcceptedSurvives,
     OpenQuarantines, OpenTo, Idle, memory, running, loop, history, bounds
<1>33. RefusalJustified'
  BY <1>1, <1>3, <1>4, <1>5, <1>6, <1>7, <1>8, <1>9 DEF MInv, RefusalJustified, ControlInv, Up,
     OpenQuarantines, OpenTo, Idle, memory, running, loop, history, bounds
<1>34. NoLostWakeup'
  BY <1>1, <1>3, <1>4, <1>5, <1>6, <1>7, <1>8, <1>9 DEF MInv, NoLostWakeup, ControlInv, Up,
     OpenQuarantines, OpenTo, Idle, memory, running, loop, history, bounds
<1> QED
  BY <1>20, <1>21, <1>22, <1>23, <1>24, <1>25, <1>26, <1>27, <1>28, <1>29, <1>30, <1>31, <1>32,
     <1>33, <1>34 DEF MInv

\* Ack removes the head.
LEMMA AckRemovesMInv ==
  ASSUME MInv, AckRemoves
  PROVE  MInv'
<1>1. /\ disk \in Dirs /\ DirInv(disk, offered, damaged) /\ op = "idle" /\ consumer = "acks"
      /\ ~closed
  BY DEF MInv, TypeOK, AckRemoves, Idle, AckAllowed
<1>2. /\ held \in Stored(disk) /\ held \in Batches /\ held = Head(names) /\ names # {}
      /\ names \subseteq Stored(disk)
  BY <1>1, HeldStored DEF MInv, HoldInv
<1>3. disk' = [disk EXCEPT !.recs[held] = NoFile]
  BY DEF AckRemoves
<1>4. /\ disk' \in Dirs /\ SameControl(disk', disk) /\ disk'.bad = disk.bad
      /\ disk'.recs = [disk.recs EXCEPT ![held] = NoFile]
  BY <1>1, <1>2, <1>3, RecordSet
<1>5. /\ DirInv(disk', offered, damaged) /\ Stored(disk') = Stored(disk) \ {held}
      /\ Numbers(disk') \subseteq Numbers(disk)
      /\ \A t \in Stored(disk') : disk'.recs[t] = disk.recs[t]
      /\ RecordCosts(disk) = Cost[disk.recs[held].batch] + RecordCosts(disk')
      /\ BadCosts(disk') = BadCosts(disk) /\ EntriesOf(disk) = EntriesOf(disk') + 1
  BY <1>1, <1>2, <1>4, RecordRemoved
<1>6. /\ disk'.primary = disk.primary /\ disk'.backup = disk.backup
      /\ disk'.journal = disk.journal /\ disk'.stage = disk.stage
  BY <1>4 DEF SameControl
<1>7. \A h : Settled(disk, h) => Settled(disk', h)
  BY <1>6 DEF Settled
<1>8. \A b : Holds(disk, b) /\ b # disk.recs[held].batch => Holds(disk', b)
  BY <1>5 DEF Holds
<1>9. disk.recs[held].batch \in delivered
  BY <1>1 DEF MInv, HoldInv
<1>10. disk.recs[held].batch \in Batches
  BY <1>1, <1>2, RecordFacts
<1>20. TypeOK'
  BY <1>1, <1>2, <1>4, <1>5, <1>6, <1>7, <1>8, <1>9, <1>10 DEF MInv, TypeOK, AckRemoves, Goto,
     Idle, memory, running, loop, history, bounds
<1>21. ControlInv'
  BY <1>1, <1>2, <1>4, <1>5, <1>6, <1>7, <1>8, <1>9, <1>10 DEF MInv, ControlInv, Up,
     AckRemoves, Goto, Idle, memory, running, loop, history, bounds
<1>22. DirInv(disk, offered, damaged)'
  BY <1>1, <1>2, <1>4, <1>5, <1>6, <1>7, <1>8, <1>9, <1>10 DEF MInv, AckRemoves, Goto, Idle,
     memory, running, loop, history, bounds
<1>23. DirInv(durable, offered, damaged)'
  BY <1>1, <1>2, <1>4, <1>5, <1>6, <1>7, <1>8, <1>9, <1>10 DEF MInv, AckRemoves, Goto, Idle,
     memory, running, loop, history, bounds
<1>24. UpInv'
  BY <1>1, <1>2, <1>4, <1>5, <1>6, <1>7, <1>8, <1>9, <1>10 DEF MInv, UpInv, ControlInv, Up,
     Owns, SameScope, Fresh, AckRemoves, Goto, Idle, memory, running, loop, history, bounds
<1>25. PutInv'
  BY <1>1, <1>2, <1>4, <1>5, <1>6, <1>7, <1>8, <1>9, <1>10 DEF MInv, PutInv, ControlInv, Fresh,
     AckRemoves, Goto, Idle, memory, running, loop, history, bounds
<1>26. OpenInv'
  BY <1>1, <1>2, <1>4, <1>5, <1>6, <1>7, <1>8, <1>9, <1>10 DEF MInv, OpenInv, ControlInv, Owns,
     Raw, StageContent, Fresh, AckRemoves, Goto, Idle, memory, running, loop, history, bounds
<1>27. BudgetInv'
  <2>1. /\ RecordCosts(disk') \in Nat /\ BadCosts(disk') \in Nat /\ EntriesOf(disk') \in Nat
        /\ Reserve \in Nat /\ Cost[disk.recs[held].batch] \in Nat /\ MaxBytes \in Nat
    BY <1>4, <1>10, CostFacts, BoundFacts
  <2>2. /\ op' = "ack" /\ bytes' = bytes /\ count' = count /\ cur' = disk.recs[held].batch
        /\ opener' = opener
    BY DEF AckRemoves, Goto, memory
  <2>3. bytes = Charged /\ count = Entries /\ Charged <= MaxBytes
    BY <1>1 DEF MInv, BudgetInv, Up
  <2>4. Charged = Charged' + Cost[cur'] /\ Entries = Entries' + 1 /\ Charged' <= Charged
        /\ Charged' \in Nat
    BY <1>5, <2>1, <2>2 DEF Charged, Entries
  <2>5. Charged' <= MaxBytes
    BY <2>1, <2>3, <2>4
  <2> QED
    BY <2>2, <2>3, <2>4, <2>5 DEF BudgetInv
<1>28. HoldInv'
  BY <1>1, <1>2, <1>4, <1>5, <1>6, <1>7, <1>8, <1>9, <1>10 DEF MInv, HoldInv, ControlInv, Up,
     AckRemoves, Goto, Idle, memory, running, loop, history, bounds
<1>29. HeldIsHead'
  BY <1>1, <1>2, <1>4, <1>5, <1>6, <1>7, <1>8, <1>9, <1>10 DEF MInv, HeldIsHead, ControlInv,
     Up, AckRemoves, Goto, Idle, memory, running, loop, history, bounds
<1>30. TenantInv'
  BY <1>1, <1>2, <1>4, <1>5, <1>6, <1>7, <1>8, <1>9, <1>10 DEF MInv, TenantInv, ControlInv, Up,
     AckRemoves, Goto, Idle, memory, running, loop, history, bounds
<1>31. OneTenant'
  BY <1>1, <1>2, <1>4, <1>5, <1>6, <1>7, <1>8, <1>9, <1>10 DEF MInv, OneTenant, ControlInv, Up,
     UpInv, Owns, AckRemoves, Goto, Idle, memory, running, loop, history, bounds
<1>32. AcceptedSurvives'
  BY <1>1, <1>2, <1>4, <1>5, <1>6, <1>7, <1>8, <1>9, <1>10 DEF MInv, AcceptedSurvives,
     AckRemoves, Goto, Idle, memory, running, loop, history, bounds
<1>33. RefusalJustified'
  BY <1>1, <1>2, <1>4, <1>5, <1>6, <1>7, <1>8, <1>9, <1>10 DEF MInv, RefusalJustified,
     ControlInv, Up, AckRemoves, Goto, Idle, memory, running, loop, history, bounds
<1>34. NoLostWakeup'
  BY <1>1, <1>2, <1>4, <1>5, <1>6, <1>7, <1>8, <1>9, <1>10 DEF MInv, NoLostWakeup, ControlInv,
     Up, AckRemoves, Goto, Idle, memory, running, loop, history, bounds
<1> QED
  BY <1>20, <1>21, <1>22, <1>23, <1>24, <1>25, <1>26, <1>27, <1>28, <1>29, <1>30, <1>31, <1>32,
     <1>33, <1>34 DEF MInv

\* A stage is created.
LEMMA StageCreatedMInv ==
  ASSUME MInv, StageCreated
  PROVE  MInv'
<1>1. /\ disk \in Dirs /\ manifest \in Control /\ opener \in Openers /\ op = "open"
      /\ step \in {"stage", "stagewrite"} /\ target \in Stages /\ opener.v2 /\ DirInv(disk, offered, damaged)
  BY DEF MInv, TypeOK, StageCreated, ControlInv, OpenInv
<1>2. StageContent \in Control \cup Journal /\ (target = "journal" => StageContent \in Journal)
  BY <1>1, StageContentType
<1>3. disk' = [disk EXCEPT !.stage[target] = Torn]
  BY DEF StageCreated
<1>4. /\ disk' \in Dirs /\ SameRecords(disk', disk) /\ disk'.primary = disk.primary
      /\ disk'.backup = disk.backup /\ disk'.journal = disk.journal
      /\ disk'.stage = [disk.stage EXCEPT ![target] = Torn]
  BY <1>1, <1>2, <1>3, StageSet
<1>5. /\ disk'.recs = disk.recs /\ disk'.bad = disk.bad
      /\ Stored(disk') = Stored(disk) /\ Numbers(disk') = Numbers(disk)
      /\ RecordCosts(disk') = RecordCosts(disk) /\ BadCosts(disk') = BadCosts(disk)
      /\ EntriesOf(disk') = EntriesOf(disk)
      /\ \A b : Holds(disk', b) <=> Holds(disk, b)
      /\ \A n : Fresh(disk', n) <=> Fresh(disk, n)
      /\ CopiesInv(disk', offered) /\ StagesInv(disk') => DirInv(disk', offered, damaged)
  BY <1>1, <1>4, ControlSet
<1>6. CopiesInv(disk', offered)
  BY <1>1, <1>4, <1>5 DEF DirInv, CopiesInv
<1>7. /\ disk'.stage[target] = Torn /\ \A t \in Stages : t # target => disk'.stage[t] = disk.stage[t]
  BY <1>1, <1>4, DirFacts
<1>8. /\ target = "journal" => disk.journal = NoFile /\ disk.backup = manifest /\ manifest.ver = 1
                                 /\ disk.primary \in {manifest, Torn, NoFile}
      /\ target # "journal" => disk.journal # NoFile /\ manifest = Upgraded(disk.journal)
  BY <1>1 DEF MInv, OpenInv
<1>9. StagesInv(disk')
  <2>1. disk'.stage["journal"] \in {disk.stage["journal"], Torn}
    BY <1>7 DEF Stages
  <2>2. disk'.journal # NoFile => disk'.stage["journal"] = NoFile
    BY <1>1, <1>4, <1>7, <1>8 DEF DirInv, StagesInv, Stages
  <2>3. \A t \in {"backup", "primary"} : disk'.stage[t] \in {disk.stage[t], Torn}
    BY <1>7 DEF Stages
  <2>4. disk'.journal = NoFile => \A t \in {"backup", "primary"} : disk'.stage[t] = disk.stage[t]
    BY <1>4, <1>7, <1>8 DEF Stages
  <2> QED
    BY <1>1, <1>4, <2>1, <2>2, <2>3, <2>4, FileFacts DEF DirInv, StagesInv
<1>10. DirInv(disk', offered, damaged)
  BY <1>5, <1>6, <1>9
<1>11. tenants = {}
  BY <1>1 DEF MInv, TenantInv
<1>20. TypeOK'
  BY <1>1, <1>4, <1>5, <1>7, <1>8, <1>10, <1>11 DEF MInv, TypeOK, StageCreated, OpenTo, Idle,
     memory, running, loop, history, bounds
<1>21. ControlInv'
  BY <1>1, <1>4, <1>5, <1>7, <1>8, <1>10, <1>11 DEF MInv, ControlInv, Up, StageCreated, OpenTo,
     Idle, memory, running, loop, history, bounds
<1>22. DirInv(disk, offered, damaged)'
  BY <1>1, <1>4, <1>5, <1>7, <1>8, <1>10, <1>11 DEF MInv, StageCreated, OpenTo, Idle, memory,
     running, loop, history, bounds
<1>23. DirInv(durable, offered, damaged)'
  BY <1>1, <1>4, <1>5, <1>7, <1>8, <1>10, <1>11 DEF MInv, StageCreated, OpenTo, Idle, memory,
     running, loop, history, bounds
<1>24. UpInv'
  BY <1>1, <1>4, <1>5, <1>7, <1>8, <1>10, <1>11 DEF MInv, UpInv, ControlInv, Up, Owns,
     SameScope, Fresh, StageCreated, OpenTo, Idle, memory, running, loop, history, bounds
<1>25. PutInv'
  BY <1>1, <1>4, <1>5, <1>7, <1>8, <1>10, <1>11 DEF MInv, PutInv, ControlInv, Fresh,
     StageCreated, OpenTo, Idle, memory, running, loop, history, bounds
<1>26. OpenInv'
  BY <1>1, <1>4, <1>5, <1>7, <1>8, <1>10, <1>11 DEF MInv, OpenInv, ControlInv, Owns, Raw,
     StageContent, Fresh, StageCreated, OpenTo, Idle, memory, running, loop, history, bounds
<1>27. BudgetInv'
  BY <1>1, <1>4, <1>5, <1>7, <1>8, <1>10, <1>11 DEF MInv, BudgetInv, ControlInv, Up, Charged,
     Entries, StageCreated, OpenTo, Idle, memory, running, loop, history, bounds
<1>28. HoldInv'
  BY <1>1, <1>4, <1>5, <1>7, <1>8, <1>10, <1>11 DEF MInv, HoldInv, ControlInv, Up,
     StageCreated, OpenTo, Idle, memory, running, loop, history, bounds
<1>29. HeldIsHead'
  BY <1>1, <1>4, <1>5, <1>7, <1>8, <1>10, <1>11 DEF MInv, HeldIsHead, ControlInv, Up,
     StageCreated, OpenTo, Idle, memory, running, loop, history, bounds
<1>30. TenantInv'
  BY <1>1, <1>4, <1>5, <1>7, <1>8, <1>10, <1>11 DEF MInv, TenantInv, ControlInv, Up,
     StageCreated, OpenTo, Idle, memory, running, loop, history, bounds
<1>31. OneTenant'
  BY <1>1, <1>4, <1>5, <1>7, <1>8, <1>10, <1>11 DEF MInv, OneTenant, ControlInv, Up, UpInv,
     Owns, StageCreated, OpenTo, Idle, memory, running, loop, history, bounds
<1>32. AcceptedSurvives'
  BY <1>1, <1>4, <1>5, <1>7, <1>8, <1>10, <1>11 DEF MInv, AcceptedSurvives, StageCreated,
     OpenTo, Idle, memory, running, loop, history, bounds
<1>33. RefusalJustified'
  BY <1>1, <1>4, <1>5, <1>7, <1>8, <1>10, <1>11 DEF MInv, RefusalJustified, ControlInv, Up,
     StageCreated, OpenTo, Idle, memory, running, loop, history, bounds
<1>34. NoLostWakeup'
  BY <1>1, <1>4, <1>5, <1>7, <1>8, <1>10, <1>11 DEF MInv, NoLostWakeup, ControlInv, Up,
     StageCreated, OpenTo, Idle, memory, running, loop, history, bounds
<1> QED
  BY <1>20, <1>21, <1>22, <1>23, <1>24, <1>25, <1>26, <1>27, <1>28, <1>29, <1>30, <1>31, <1>32,
     <1>33, <1>34 DEF MInv

\* A stage is written.
LEMMA StageWrittenMInv ==
  ASSUME MInv, StageWritten
  PROVE  MInv'
<1>1. /\ disk \in Dirs /\ manifest \in Control /\ opener \in Openers /\ op = "open"
      /\ step \in {"stage", "stagewrite"} /\ target \in Stages /\ opener.v2 /\ DirInv(disk, offered, damaged)
  BY DEF MInv, TypeOK, StageWritten, ControlInv, OpenInv
<1>2. StageContent \in Control \cup Journal /\ (target = "journal" => StageContent \in Journal)
  BY <1>1, StageContentType
<1>3. disk' = [disk EXCEPT !.stage[target] = StageContent]
  BY DEF StageWritten
<1>4. /\ disk' \in Dirs /\ SameRecords(disk', disk) /\ disk'.primary = disk.primary
      /\ disk'.backup = disk.backup /\ disk'.journal = disk.journal
      /\ disk'.stage = [disk.stage EXCEPT ![target] = StageContent]
  BY <1>1, <1>2, <1>3, StageSet
<1>5. /\ disk'.recs = disk.recs /\ disk'.bad = disk.bad
      /\ Stored(disk') = Stored(disk) /\ Numbers(disk') = Numbers(disk)
      /\ RecordCosts(disk') = RecordCosts(disk) /\ BadCosts(disk') = BadCosts(disk)
      /\ EntriesOf(disk') = EntriesOf(disk)
      /\ \A b : Holds(disk', b) <=> Holds(disk, b)
      /\ \A n : Fresh(disk', n) <=> Fresh(disk, n)
      /\ CopiesInv(disk', offered) /\ StagesInv(disk') => DirInv(disk', offered, damaged)
  BY <1>1, <1>4, ControlSet
<1>6. CopiesInv(disk', offered)
  BY <1>1, <1>4, <1>5 DEF DirInv, CopiesInv
<1>7. /\ disk'.stage[target] = StageContent /\ \A t \in Stages : t # target => disk'.stage[t] = disk.stage[t]
  BY <1>1, <1>4, DirFacts
<1>8. /\ target = "journal" => disk.journal = NoFile /\ disk.backup = manifest /\ manifest.ver = 1
                                 /\ disk.primary \in {manifest, Torn, NoFile}
      /\ target # "journal" => disk.journal # NoFile /\ manifest = Upgraded(disk.journal)
  BY <1>1 DEF MInv, OpenInv
<1>9. StagesInv(disk')
  <2>1. CASE target = "journal"
    <3>1. StageContent \in Journal /\ Before(StageContent) = manifest
      BY <1>1, <1>2, <1>8, <2>1, StageContentBefore
    <3>2. /\ disk'.stage["journal"] = StageContent /\ disk'.journal = NoFile
          /\ \A t \in {"backup", "primary"} : disk'.stage[t] = disk.stage[t]
      BY <1>4, <1>7, <1>8, <2>1 DEF Stages
    <3> HIDE DEF StageContent
    <3> QED
      BY <1>1, <1>4, <1>8, <2>1, <3>1, <3>2 DEF DirInv, StagesInv
  <2>2. CASE target # "journal"
    <3>1. StageContent = Upgraded(disk.journal) /\ disk.journal # NoFile
      BY <1>8, <2>2 DEF StageContent
    <3>2. /\ disk'.stage["journal"] = disk.stage["journal"]
          /\ \A t \in {"backup", "primary"} : disk'.stage[t] \in {disk.stage[t], Upgraded(disk.journal)}
      BY <1>7, <2>2, <3>1 DEF Stages
    <3> QED
      BY <1>1, <1>4, <3>1, <3>2, FileFacts DEF DirInv, StagesInv
  <2> QED
    BY <2>1, <2>2
<1>10. DirInv(disk', offered, damaged)
  BY <1>5, <1>6, <1>9
<1>11. tenants = {}
  BY <1>1 DEF MInv, TenantInv
<1>20. TypeOK'
  BY <1>1, <1>4, <1>5, <1>7, <1>8, <1>10, <1>11 DEF MInv, TypeOK, StageWritten, OpenTo, Idle,
     memory, running, loop, history, bounds
<1>21. ControlInv'
  BY <1>1, <1>4, <1>5, <1>7, <1>8, <1>10, <1>11 DEF MInv, ControlInv, Up, StageWritten, OpenTo,
     Idle, memory, running, loop, history, bounds
<1>22. DirInv(disk, offered, damaged)'
  BY <1>1, <1>4, <1>5, <1>7, <1>8, <1>10, <1>11 DEF MInv, StageWritten, OpenTo, Idle, memory,
     running, loop, history, bounds
<1>23. DirInv(durable, offered, damaged)'
  BY <1>1, <1>4, <1>5, <1>7, <1>8, <1>10, <1>11 DEF MInv, StageWritten, OpenTo, Idle, memory,
     running, loop, history, bounds
<1>24. UpInv'
  BY <1>1, <1>4, <1>5, <1>7, <1>8, <1>10, <1>11 DEF MInv, UpInv, ControlInv, Up, Owns,
     SameScope, Fresh, StageWritten, OpenTo, Idle, memory, running, loop, history, bounds
<1>25. PutInv'
  BY <1>1, <1>4, <1>5, <1>7, <1>8, <1>10, <1>11 DEF MInv, PutInv, ControlInv, Fresh,
     StageWritten, OpenTo, Idle, memory, running, loop, history, bounds
<1>26. OpenInv'
  BY <1>1, <1>4, <1>5, <1>7, <1>8, <1>10, <1>11 DEF MInv, OpenInv, ControlInv, Owns, Raw,
     StageContent, Fresh, StageWritten, OpenTo, Idle, memory, running, loop, history, bounds
<1>27. BudgetInv'
  BY <1>1, <1>4, <1>5, <1>7, <1>8, <1>10, <1>11 DEF MInv, BudgetInv, ControlInv, Up, Charged,
     Entries, StageWritten, OpenTo, Idle, memory, running, loop, history, bounds
<1>28. HoldInv'
  BY <1>1, <1>4, <1>5, <1>7, <1>8, <1>10, <1>11 DEF MInv, HoldInv, ControlInv, Up,
     StageWritten, OpenTo, Idle, memory, running, loop, history, bounds
<1>29. HeldIsHead'
  BY <1>1, <1>4, <1>5, <1>7, <1>8, <1>10, <1>11 DEF MInv, HeldIsHead, ControlInv, Up,
     StageWritten, OpenTo, Idle, memory, running, loop, history, bounds
<1>30. TenantInv'
  BY <1>1, <1>4, <1>5, <1>7, <1>8, <1>10, <1>11 DEF MInv, TenantInv, ControlInv, Up,
     StageWritten, OpenTo, Idle, memory, running, loop, history, bounds
<1>31. OneTenant'
  BY <1>1, <1>4, <1>5, <1>7, <1>8, <1>10, <1>11 DEF MInv, OneTenant, ControlInv, Up, UpInv,
     Owns, StageWritten, OpenTo, Idle, memory, running, loop, history, bounds
<1>32. AcceptedSurvives'
  BY <1>1, <1>4, <1>5, <1>7, <1>8, <1>10, <1>11 DEF MInv, AcceptedSurvives, StageWritten,
     OpenTo, Idle, memory, running, loop, history, bounds
<1>33. RefusalJustified'
  BY <1>1, <1>4, <1>5, <1>7, <1>8, <1>10, <1>11 DEF MInv, RefusalJustified, ControlInv, Up,
     StageWritten, OpenTo, Idle, memory, running, loop, history, bounds
<1>34. NoLostWakeup'
  BY <1>1, <1>4, <1>5, <1>7, <1>8, <1>10, <1>11 DEF MInv, NoLostWakeup, ControlInv, Up,
     StageWritten, OpenTo, Idle, memory, running, loop, history, bounds
<1> QED
  BY <1>20, <1>21, <1>22, <1>23, <1>24, <1>25, <1>26, <1>27, <1>28, <1>29, <1>30, <1>31, <1>32,
     <1>33, <1>34 DEF MInv

\* The journal is renamed into place.
LEMMA StageRenamedJournalMInv ==
  ASSUME MInv, target = "journal", StageRenamed
  PROVE  MInv'
<1> DEFINE c == StageContent
<1>1. /\ disk \in Dirs /\ manifest \in Control /\ opener \in Openers /\ op = "open"
      /\ step = "stage" /\ opener.v2 /\ DirInv(disk, offered, damaged)
  BY DEF MInv, TypeOK, StageRenamed, OpenInv
<1>2. c \in Journal
  BY <1>1, StageContentType DEF Stages, StageContent
<1>3. /\ disk' = [disk EXCEPT !.stage["journal"] = NoFile, !.journal = c]
      /\ op' = "open" /\ step' = "stagesync" /\ target' = "journal"
  BY <1>1 DEF StageRenamed, OpenTo, Dirs
<1> HIDE DEF c
<1>4. /\ disk' \in Dirs /\ SameRecords(disk', disk) /\ disk'.journal = c
      /\ disk'.primary = disk.primary /\ disk'.backup = disk.backup
      /\ disk'.stage = [disk.stage EXCEPT !["journal"] = NoFile]
  BY <1>1, <1>2, <1>3 DEF Dirs, SameRecords, Stages
<1>5. /\ disk'.recs = disk.recs /\ disk'.bad = disk.bad
      /\ Stored(disk') = Stored(disk) /\ Numbers(disk') = Numbers(disk)
      /\ RecordCosts(disk') = RecordCosts(disk) /\ BadCosts(disk') = BadCosts(disk)
      /\ EntriesOf(disk') = EntriesOf(disk)
      /\ \A b : Holds(disk', b) <=> Holds(disk, b)
      /\ \A n : Fresh(disk', n) <=> Fresh(disk, n)
      /\ CopiesInv(disk', offered) /\ StagesInv(disk') => DirInv(disk', offered, damaged)
  BY <1>1, <1>4, ControlSet
<1>6. /\ disk'.stage["journal"] = NoFile /\ \A u \in Stages : u # "journal" => disk'.stage[u] = disk.stage[u]
  BY <1>1, <1>4, DirFacts DEF Stages
<1>7. /\ disk.journal = NoFile /\ disk.backup = manifest /\ manifest.ver = 1
      /\ disk.primary \in {manifest, Torn, NoFile}
  BY <1>1 DEF MInv, OpenInv
<1>8. c \in Journal /\ c # NoFile /\ Before(c) = manifest /\ c.next = manifest.next
  BY <1>1, <1>2, <1>7, StageContentBefore, FileFacts DEF c
<1>9. CopiesInv(disk', offered)
  <2>1. Fresh(disk, manifest.next) /\ manifest.next <= offered + 1
    BY <1>1, <1>7, FileFacts DEF DirInv, CopiesInv
  <2>2. \A m \in {disk.primary, disk.backup} : Valid(m) => Fresh(disk, m.next) /\ m.next <= offered + 1
    BY <1>1 DEF DirInv, CopiesInv
  <2> QED
    BY <1>4, <1>5, <1>7, <1>8, <2>1, <2>2 DEF CopiesInv
<1>10. StagesInv(disk')
  <2>1. \A u \in {"backup", "primary"} : disk'.stage[u] = NoFile
    BY <1>1, <1>6, <1>7 DEF DirInv, StagesInv, Stages
  <2> QED
    BY <1>4, <1>6, <1>8, <2>1, FileFacts DEF StagesInv
<1>11. DirInv(disk', offered, damaged)
  BY <1>5, <1>9, <1>10
<1>12. tenants = {}
  BY <1>1 DEF MInv, TenantInv
<1>20. TypeOK'
  BY <1>1, <1>3, <1>4, <1>5, <1>6, <1>7, <1>11, <1>12 DEF MInv, TypeOK, StageRenamed, OpenTo,
     Idle, memory, running, loop, history, bounds
<1>21. ControlInv'
  BY <1>1, <1>3, <1>4, <1>5, <1>6, <1>7, <1>11, <1>12 DEF MInv, ControlInv, Up, StageRenamed,
     OpenTo, Idle, memory, running, loop, history, bounds
<1>22. DirInv(disk, offered, damaged)'
  BY <1>1, <1>3, <1>4, <1>5, <1>6, <1>7, <1>11, <1>12 DEF MInv, StageRenamed, OpenTo, Idle,
     memory, running, loop, history, bounds
<1>23. DirInv(durable, offered, damaged)'
  BY <1>1, <1>3, <1>4, <1>5, <1>6, <1>7, <1>11, <1>12 DEF MInv, StageRenamed, OpenTo, Idle,
     memory, running, loop, history, bounds
<1>24. UpInv'
  BY <1>1, <1>3, <1>4, <1>5, <1>6, <1>7, <1>11, <1>12 DEF MInv, UpInv, ControlInv, Up, Owns,
     SameScope, Fresh, StageRenamed, OpenTo, Idle, memory, running, loop, history, bounds
<1>25. PutInv'
  BY <1>1, <1>3, <1>4, <1>5, <1>6, <1>7, <1>11, <1>12 DEF MInv, PutInv, ControlInv, Fresh,
     StageRenamed, OpenTo, Idle, memory, running, loop, history, bounds
<1>26. OpenInv'
  <2>1. manifest' = manifest /\ opener' = opener /\ StageContent' = StageContent
    BY <1>3 DEF StageRenamed, OpenTo, memory, StageContent
  <2> QED
    BY <1>1, <1>3, <1>4, <1>6, <1>7, <2>1 DEF OpenInv, c
<1>27. BudgetInv'
  BY <1>1, <1>3, <1>4, <1>5, <1>6, <1>7, <1>11, <1>12 DEF MInv, BudgetInv, ControlInv, Up,
     Charged, Entries, StageRenamed, OpenTo, Idle, memory, running, loop, history, bounds
<1>28. HoldInv'
  BY <1>1, <1>3, <1>4, <1>5, <1>6, <1>7, <1>11, <1>12 DEF MInv, HoldInv, ControlInv, Up,
     StageRenamed, OpenTo, Idle, memory, running, loop, history, bounds
<1>29. HeldIsHead'
  BY <1>1, <1>3, <1>4, <1>5, <1>6, <1>7, <1>11, <1>12 DEF MInv, HeldIsHead, ControlInv, Up,
     StageRenamed, OpenTo, Idle, memory, running, loop, history, bounds
<1>30. TenantInv'
  BY <1>1, <1>3, <1>4, <1>5, <1>6, <1>7, <1>11, <1>12 DEF MInv, TenantInv, ControlInv, Up,
     StageRenamed, OpenTo, Idle, memory, running, loop, history, bounds
<1>31. OneTenant'
  BY <1>1, <1>3, <1>4, <1>5, <1>6, <1>7, <1>11, <1>12 DEF MInv, OneTenant, ControlInv, Up,
     UpInv, Owns, StageRenamed, OpenTo, Idle, memory, running, loop, history, bounds
<1>32. AcceptedSurvives'
  BY <1>1, <1>3, <1>4, <1>5, <1>6, <1>7, <1>11, <1>12 DEF MInv, AcceptedSurvives, StageRenamed,
     OpenTo, Idle, memory, running, loop, history, bounds
<1>33. RefusalJustified'
  BY <1>1, <1>3, <1>4, <1>5, <1>6, <1>7, <1>11, <1>12 DEF MInv, RefusalJustified, ControlInv,
     Up, StageRenamed, OpenTo, Idle, memory, running, loop, history, bounds
<1>34. NoLostWakeup'
  BY <1>1, <1>3, <1>4, <1>5, <1>6, <1>7, <1>11, <1>12 DEF MInv, NoLostWakeup, ControlInv, Up,
     StageRenamed, OpenTo, Idle, memory, running, loop, history, bounds
<1> QED
  BY <1>20, <1>21, <1>22, <1>23, <1>24, <1>25, <1>26, <1>27, <1>28, <1>29, <1>30, <1>31, <1>32,
     <1>33, <1>34 DEF MInv

\* The upgraded backup is renamed into place.
LEMMA StageRenamedBackupMInv ==
  ASSUME MInv, target = "backup", StageRenamed
  PROVE  MInv'
<1> DEFINE c == StageContent
<1>1. /\ disk \in Dirs /\ manifest \in Control /\ opener \in Openers /\ op = "open"
      /\ step = "stage" /\ opener.v2 /\ DirInv(disk, offered, damaged)
  BY DEF MInv, TypeOK, StageRenamed, OpenInv
<1>2. c \in Control
  BY <1>1, StageContentType DEF Stages, StageContent
<1>3. /\ disk' = [disk EXCEPT !.stage["backup"] = NoFile, !.backup = c]
      /\ op' = "open" /\ step' = "stagesync" /\ target' = "backup"
  BY <1>1 DEF StageRenamed, OpenTo, Dirs
<1> HIDE DEF c
<1>4. /\ disk' \in Dirs /\ SameRecords(disk', disk) /\ disk'.backup = c
      /\ disk'.primary = disk.primary /\ disk'.journal = disk.journal
      /\ disk'.stage = [disk.stage EXCEPT !["backup"] = NoFile]
  BY <1>1, <1>2, <1>3 DEF Dirs, SameRecords, Stages
<1>5. /\ disk'.recs = disk.recs /\ disk'.bad = disk.bad
      /\ Stored(disk') = Stored(disk) /\ Numbers(disk') = Numbers(disk)
      /\ RecordCosts(disk') = RecordCosts(disk) /\ BadCosts(disk') = BadCosts(disk)
      /\ EntriesOf(disk') = EntriesOf(disk)
      /\ \A b : Holds(disk', b) <=> Holds(disk, b)
      /\ \A n : Fresh(disk', n) <=> Fresh(disk, n)
      /\ CopiesInv(disk', offered) /\ StagesInv(disk') => DirInv(disk', offered, damaged)
  BY <1>1, <1>4, ControlSet
<1>6. /\ disk'.stage["backup"] = NoFile /\ \A u \in Stages : u # "backup" => disk'.stage[u] = disk.stage[u]
  BY <1>1, <1>4, DirFacts DEF Stages
<1>7. /\ disk.journal # NoFile /\ disk.journal.new = opener.hash
      /\ manifest = Upgraded(disk.journal) /\ c = manifest
  BY <1>1 DEF MInv, OpenInv, c, StageContent
<1>8. disk.journal \in Journal
  BY <1>1, <1>7, DirFacts
<1>9. CopiesInv(disk', offered)
  <2>1. manifest.next = disk.journal.next /\ Fresh(disk, disk.journal.next) /\ disk.journal.next <= offered + 1
    BY <1>1, <1>7, <1>8, JournalFacts DEF DirInv, CopiesInv
  <2>2. Valid(disk.primary) => Fresh(disk, disk.primary.next) /\ disk.primary.next <= offered + 1
    BY <1>1 DEF DirInv, CopiesInv
  <2>3. disk.primary \in {Before(disk.journal), Upgraded(disk.journal), Torn, NoFile}
    BY <1>1, <1>7 DEF DirInv, CopiesInv
  <2> QED
    BY <1>4, <1>5, <1>7, <2>1, <2>2, <2>3 DEF CopiesInv
<1>10. StagesInv(disk')
  <2>1. disk'.stage["journal"] = NoFile
    BY <1>1, <1>6, <1>7 DEF DirInv, StagesInv, Stages
  <2>2. \A u \in {"backup", "primary"} : disk'.stage[u] \in {Upgraded(disk.journal), NoFile, Torn}
    BY <1>1, <1>6, <1>7 DEF DirInv, StagesInv, Stages
  <2> QED
    BY <1>4, <1>7, <2>1, <2>2, FileFacts DEF StagesInv
<1>11. DirInv(disk', offered, damaged)
  BY <1>5, <1>9, <1>10
<1>12. tenants = {}
  BY <1>1 DEF MInv, TenantInv
<1>20. TypeOK'
  BY <1>1, <1>3, <1>4, <1>5, <1>6, <1>7, <1>11, <1>12 DEF MInv, TypeOK, StageRenamed, OpenTo,
     Idle, memory, running, loop, history, bounds
<1>21. ControlInv'
  BY <1>1, <1>3, <1>4, <1>5, <1>6, <1>7, <1>11, <1>12 DEF MInv, ControlInv, Up, StageRenamed,
     OpenTo, Idle, memory, running, loop, history, bounds
<1>22. DirInv(disk, offered, damaged)'
  BY <1>1, <1>3, <1>4, <1>5, <1>6, <1>7, <1>11, <1>12 DEF MInv, StageRenamed, OpenTo, Idle,
     memory, running, loop, history, bounds
<1>23. DirInv(durable, offered, damaged)'
  BY <1>1, <1>3, <1>4, <1>5, <1>6, <1>7, <1>11, <1>12 DEF MInv, StageRenamed, OpenTo, Idle,
     memory, running, loop, history, bounds
<1>24. UpInv'
  BY <1>1, <1>3, <1>4, <1>5, <1>6, <1>7, <1>11, <1>12 DEF MInv, UpInv, ControlInv, Up, Owns,
     SameScope, Fresh, StageRenamed, OpenTo, Idle, memory, running, loop, history, bounds
<1>25. PutInv'
  BY <1>1, <1>3, <1>4, <1>5, <1>6, <1>7, <1>11, <1>12 DEF MInv, PutInv, ControlInv, Fresh,
     StageRenamed, OpenTo, Idle, memory, running, loop, history, bounds
<1>26. OpenInv'
  <2>1. manifest' = manifest /\ opener' = opener /\ StageContent' = StageContent
    BY <1>3 DEF StageRenamed, OpenTo, memory, StageContent
  <2>2. disk'.stage["backup"] = NoFile
    BY <1>6
  <2> QED
    BY <1>1, <1>3, <1>4, <1>6, <1>7, <2>1, <2>2 DEF OpenInv
<1>27. BudgetInv'
  BY <1>1, <1>3, <1>4, <1>5, <1>6, <1>7, <1>11, <1>12 DEF MInv, BudgetInv, ControlInv, Up,
     Charged, Entries, StageRenamed, OpenTo, Idle, memory, running, loop, history, bounds
<1>28. HoldInv'
  BY <1>1, <1>3, <1>4, <1>5, <1>6, <1>7, <1>11, <1>12 DEF MInv, HoldInv, ControlInv, Up,
     StageRenamed, OpenTo, Idle, memory, running, loop, history, bounds
<1>29. HeldIsHead'
  BY <1>1, <1>3, <1>4, <1>5, <1>6, <1>7, <1>11, <1>12 DEF MInv, HeldIsHead, ControlInv, Up,
     StageRenamed, OpenTo, Idle, memory, running, loop, history, bounds
<1>30. TenantInv'
  BY <1>1, <1>3, <1>4, <1>5, <1>6, <1>7, <1>11, <1>12 DEF MInv, TenantInv, ControlInv, Up,
     StageRenamed, OpenTo, Idle, memory, running, loop, history, bounds
<1>31. OneTenant'
  BY <1>1, <1>3, <1>4, <1>5, <1>6, <1>7, <1>11, <1>12 DEF MInv, OneTenant, ControlInv, Up,
     UpInv, Owns, StageRenamed, OpenTo, Idle, memory, running, loop, history, bounds
<1>32. AcceptedSurvives'
  BY <1>1, <1>3, <1>4, <1>5, <1>6, <1>7, <1>11, <1>12 DEF MInv, AcceptedSurvives, StageRenamed,
     OpenTo, Idle, memory, running, loop, history, bounds
<1>33. RefusalJustified'
  BY <1>1, <1>3, <1>4, <1>5, <1>6, <1>7, <1>11, <1>12 DEF MInv, RefusalJustified, ControlInv,
     Up, StageRenamed, OpenTo, Idle, memory, running, loop, history, bounds
<1>34. NoLostWakeup'
  BY <1>1, <1>3, <1>4, <1>5, <1>6, <1>7, <1>11, <1>12 DEF MInv, NoLostWakeup, ControlInv, Up,
     StageRenamed, OpenTo, Idle, memory, running, loop, history, bounds
<1> QED
  BY <1>20, <1>21, <1>22, <1>23, <1>24, <1>25, <1>26, <1>27, <1>28, <1>29, <1>30, <1>31, <1>32,
     <1>33, <1>34 DEF MInv

\* The upgraded primary copy is renamed into place.
LEMMA StageRenamedPrimaryMInv ==
  ASSUME MInv, target = "primary", StageRenamed
  PROVE  MInv'
<1> DEFINE c == StageContent
<1>1. /\ disk \in Dirs /\ manifest \in Control /\ opener \in Openers /\ op = "open"
      /\ step = "stage" /\ opener.v2 /\ DirInv(disk, offered, damaged)
  BY DEF MInv, TypeOK, StageRenamed, OpenInv
<1>2. c \in Control
  BY <1>1, StageContentType DEF Stages, StageContent
<1>3. /\ disk' = [disk EXCEPT !.stage["primary"] = NoFile, !.primary = c]
      /\ op' = "open" /\ step' = "stagesync" /\ target' = "primary"
  BY <1>1 DEF StageRenamed, OpenTo, Dirs
<1> HIDE DEF c
<1>4. /\ disk' \in Dirs /\ SameRecords(disk', disk) /\ disk'.primary = c
      /\ disk'.backup = disk.backup /\ disk'.journal = disk.journal
      /\ disk'.stage = [disk.stage EXCEPT !["primary"] = NoFile]
  BY <1>1, <1>2, <1>3 DEF Dirs, SameRecords, Stages
<1>5. /\ disk'.recs = disk.recs /\ disk'.bad = disk.bad
      /\ Stored(disk') = Stored(disk) /\ Numbers(disk') = Numbers(disk)
      /\ RecordCosts(disk') = RecordCosts(disk) /\ BadCosts(disk') = BadCosts(disk)
      /\ EntriesOf(disk') = EntriesOf(disk)
      /\ \A b : Holds(disk', b) <=> Holds(disk, b)
      /\ \A n : Fresh(disk', n) <=> Fresh(disk, n)
      /\ CopiesInv(disk', offered) /\ StagesInv(disk') => DirInv(disk', offered, damaged)
  BY <1>1, <1>4, ControlSet
<1>6. /\ disk'.stage["primary"] = NoFile /\ \A u \in Stages : u # "primary" => disk'.stage[u] = disk.stage[u]
  BY <1>1, <1>4, DirFacts DEF Stages
<1>7. /\ disk.journal # NoFile /\ disk.journal.new = opener.hash
      /\ manifest = Upgraded(disk.journal) /\ c = manifest
  BY <1>1 DEF MInv, OpenInv, c, StageContent
<1>8. disk.journal \in Journal
  BY <1>1, <1>7, DirFacts
<1>9. CopiesInv(disk', offered)
  <2>1. manifest.next = disk.journal.next /\ Fresh(disk, disk.journal.next) /\ disk.journal.next <= offered + 1
    BY <1>1, <1>7, <1>8, JournalFacts DEF DirInv, CopiesInv
  <2>2. Valid(disk.backup) => Fresh(disk, disk.backup.next) /\ disk.backup.next <= offered + 1
    BY <1>1 DEF DirInv, CopiesInv
  <2>3. disk.backup \in {Before(disk.journal), Upgraded(disk.journal), Torn, NoFile}
    BY <1>1, <1>7 DEF DirInv, CopiesInv
  <2> QED
    BY <1>4, <1>5, <1>7, <2>1, <2>2, <2>3 DEF CopiesInv
<1>10. StagesInv(disk')
  <2>1. disk'.stage["journal"] = NoFile
    BY <1>1, <1>6, <1>7 DEF DirInv, StagesInv, Stages
  <2>2. \A u \in {"backup", "primary"} : disk'.stage[u] \in {Upgraded(disk.journal), NoFile, Torn}
    BY <1>1, <1>6, <1>7 DEF DirInv, StagesInv, Stages
  <2> QED
    BY <1>4, <1>7, <2>1, <2>2, FileFacts DEF StagesInv
<1>11. DirInv(disk', offered, damaged)
  BY <1>5, <1>9, <1>10
<1>12. tenants = {}
  BY <1>1 DEF MInv, TenantInv
<1>20. TypeOK'
  BY <1>1, <1>3, <1>4, <1>5, <1>6, <1>7, <1>11, <1>12 DEF MInv, TypeOK, StageRenamed, OpenTo,
     Idle, memory, running, loop, history, bounds
<1>21. ControlInv'
  BY <1>1, <1>3, <1>4, <1>5, <1>6, <1>7, <1>11, <1>12 DEF MInv, ControlInv, Up, StageRenamed,
     OpenTo, Idle, memory, running, loop, history, bounds
<1>22. DirInv(disk, offered, damaged)'
  BY <1>1, <1>3, <1>4, <1>5, <1>6, <1>7, <1>11, <1>12 DEF MInv, StageRenamed, OpenTo, Idle,
     memory, running, loop, history, bounds
<1>23. DirInv(durable, offered, damaged)'
  BY <1>1, <1>3, <1>4, <1>5, <1>6, <1>7, <1>11, <1>12 DEF MInv, StageRenamed, OpenTo, Idle,
     memory, running, loop, history, bounds
<1>24. UpInv'
  BY <1>1, <1>3, <1>4, <1>5, <1>6, <1>7, <1>11, <1>12 DEF MInv, UpInv, ControlInv, Up, Owns,
     SameScope, Fresh, StageRenamed, OpenTo, Idle, memory, running, loop, history, bounds
<1>25. PutInv'
  BY <1>1, <1>3, <1>4, <1>5, <1>6, <1>7, <1>11, <1>12 DEF MInv, PutInv, ControlInv, Fresh,
     StageRenamed, OpenTo, Idle, memory, running, loop, history, bounds
<1>26. OpenInv'
  <2>1. manifest' = manifest /\ opener' = opener /\ StageContent' = StageContent
    BY <1>3 DEF StageRenamed, OpenTo, memory, StageContent
  <2>2. disk'.stage["backup"] = NoFile /\ disk.backup = manifest
    BY <1>1, <1>6 DEF MInv, OpenInv, Stages
  <2> QED
    BY <1>1, <1>3, <1>4, <1>6, <1>7, <2>1, <2>2 DEF OpenInv
<1>27. BudgetInv'
  BY <1>1, <1>3, <1>4, <1>5, <1>6, <1>7, <1>11, <1>12 DEF MInv, BudgetInv, ControlInv, Up,
     Charged, Entries, StageRenamed, OpenTo, Idle, memory, running, loop, history, bounds
<1>28. HoldInv'
  BY <1>1, <1>3, <1>4, <1>5, <1>6, <1>7, <1>11, <1>12 DEF MInv, HoldInv, ControlInv, Up,
     StageRenamed, OpenTo, Idle, memory, running, loop, history, bounds
<1>29. HeldIsHead'
  BY <1>1, <1>3, <1>4, <1>5, <1>6, <1>7, <1>11, <1>12 DEF MInv, HeldIsHead, ControlInv, Up,
     StageRenamed, OpenTo, Idle, memory, running, loop, history, bounds
<1>30. TenantInv'
  BY <1>1, <1>3, <1>4, <1>5, <1>6, <1>7, <1>11, <1>12 DEF MInv, TenantInv, ControlInv, Up,
     StageRenamed, OpenTo, Idle, memory, running, loop, history, bounds
<1>31. OneTenant'
  BY <1>1, <1>3, <1>4, <1>5, <1>6, <1>7, <1>11, <1>12 DEF MInv, OneTenant, ControlInv, Up,
     UpInv, Owns, StageRenamed, OpenTo, Idle, memory, running, loop, history, bounds
<1>32. AcceptedSurvives'
  BY <1>1, <1>3, <1>4, <1>5, <1>6, <1>7, <1>11, <1>12 DEF MInv, AcceptedSurvives, StageRenamed,
     OpenTo, Idle, memory, running, loop, history, bounds
<1>33. RefusalJustified'
  BY <1>1, <1>3, <1>4, <1>5, <1>6, <1>7, <1>11, <1>12 DEF MInv, RefusalJustified, ControlInv,
     Up, StageRenamed, OpenTo, Idle, memory, running, loop, history, bounds
<1>34. NoLostWakeup'
  BY <1>1, <1>3, <1>4, <1>5, <1>6, <1>7, <1>11, <1>12 DEF MInv, NoLostWakeup, ControlInv, Up,
     StageRenamed, OpenTo, Idle, memory, running, loop, history, bounds
<1> QED
  BY <1>20, <1>21, <1>22, <1>23, <1>24, <1>25, <1>26, <1>27, <1>28, <1>29, <1>30, <1>31, <1>32,
     <1>33, <1>34 DEF MInv

\* Both copies are upgraded and the journal is removed.
LEMMA PrimarySyncedMInv ==
  ASSUME MInv, PrimarySynced
  PROVE  MInv'
<1>1. /\ disk \in Dirs /\ manifest \in Control /\ opener \in Openers /\ op = "open" /\ opener.v2
      /\ DirInv(disk, offered, damaged) /\ disk.journal # NoFile /\ disk.journal.new = opener.hash
      /\ manifest = Upgraded(disk.journal) /\ disk.primary = manifest /\ disk.backup = manifest
      /\ disk.stage["backup"] = NoFile /\ disk.stage["primary"] = NoFile
      /\ disk' = [disk EXCEPT !.journal = NoFile] /\ durable' = disk
  BY DEF MInv, TypeOK, PrimarySynced, OpenInv
<1>2. /\ disk' \in Dirs /\ SameRecords(disk', disk) /\ disk'.primary = disk.primary
      /\ disk'.backup = disk.backup /\ disk'.journal = NoFile /\ disk'.stage = disk.stage
  BY <1>1, JournalGone
<1>3. /\ disk'.recs = disk.recs /\ disk'.bad = disk.bad
      /\ Stored(disk') = Stored(disk) /\ Numbers(disk') = Numbers(disk)
      /\ RecordCosts(disk') = RecordCosts(disk) /\ BadCosts(disk') = BadCosts(disk)
      /\ EntriesOf(disk') = EntriesOf(disk)
      /\ \A b : Holds(disk', b) <=> Holds(disk, b)
      /\ \A n : Fresh(disk', n) <=> Fresh(disk, n)
      /\ CopiesInv(disk', offered) /\ StagesInv(disk') => DirInv(disk', offered, damaged)
  BY <1>1, <1>2, ControlSet
<1>4. disk.stage["journal"] = NoFile
  BY <1>1 DEF DirInv, StagesInv
<1>5. CopiesInv(disk', offered) /\ StagesInv(disk')
  BY <1>1, <1>2, <1>3, <1>4, FileFacts DEF DirInv, CopiesInv, StagesInv
<1>6. DirInv(disk', offered, damaged)
  BY <1>3, <1>5
<1>7. tenants = {}
  BY <1>1 DEF MInv, TenantInv, PrimarySynced
<1>8. manifest.ver = 2 /\ manifest.scope = opener.hash
  <2>1. disk.journal \in Journal
    BY <1>1, DirFacts
  <2> QED
    BY <1>1, <2>1, JournalFacts
<1>20. TypeOK'
  BY <1>1, <1>2, <1>3, <1>6, <1>7, <1>8 DEF MInv, TypeOK, PrimarySynced, OpenTo, Idle, memory,
     running, loop, history, bounds
<1>21. ControlInv'
  BY <1>1, <1>2, <1>3, <1>6, <1>7, <1>8 DEF MInv, ControlInv, Up, PrimarySynced, OpenTo, Idle,
     memory, running, loop, history, bounds
<1>22. DirInv(disk, offered, damaged)'
  BY <1>1, <1>2, <1>3, <1>6, <1>7, <1>8 DEF MInv, PrimarySynced, OpenTo, Idle, memory, running,
     loop, history, bounds
<1>23. DirInv(durable, offered, damaged)'
  BY <1>1, <1>2, <1>3, <1>6, <1>7, <1>8 DEF MInv, PrimarySynced, OpenTo, Idle, memory, running,
     loop, history, bounds
<1>24. UpInv'
  BY <1>1, <1>2, <1>3, <1>6, <1>7, <1>8 DEF MInv, UpInv, ControlInv, Up, Owns, SameScope,
     Fresh, PrimarySynced, OpenTo, Idle, memory, running, loop, history, bounds
<1>25. PutInv'
  BY <1>1, <1>2, <1>3, <1>6, <1>7, <1>8 DEF MInv, PutInv, ControlInv, Fresh, PrimarySynced,
     OpenTo, Idle, memory, running, loop, history, bounds
<1>26. OpenInv'
  BY <1>1, <1>2, <1>3, <1>6, <1>7, <1>8 DEF MInv, OpenInv, ControlInv, Owns, Raw, StageContent,
     Fresh, PrimarySynced, OpenTo, Idle, memory, running, loop, history, bounds
<1>27. BudgetInv'
  BY <1>1, <1>2, <1>3, <1>6, <1>7, <1>8 DEF MInv, BudgetInv, ControlInv, Up, Charged, Entries,
     PrimarySynced, OpenTo, Idle, memory, running, loop, history, bounds
<1>28. HoldInv'
  BY <1>1, <1>2, <1>3, <1>6, <1>7, <1>8 DEF MInv, HoldInv, ControlInv, Up, PrimarySynced,
     OpenTo, Idle, memory, running, loop, history, bounds
<1>29. HeldIsHead'
  BY <1>1, <1>2, <1>3, <1>6, <1>7, <1>8 DEF MInv, HeldIsHead, ControlInv, Up, PrimarySynced,
     OpenTo, Idle, memory, running, loop, history, bounds
<1>30. TenantInv'
  BY <1>1, <1>2, <1>3, <1>6, <1>7, <1>8 DEF MInv, TenantInv, ControlInv, Up, PrimarySynced,
     OpenTo, Idle, memory, running, loop, history, bounds
<1>31. OneTenant'
  BY <1>1, <1>2, <1>3, <1>6, <1>7, <1>8 DEF MInv, OneTenant, ControlInv, Up, UpInv, Owns,
     PrimarySynced, OpenTo, Idle, memory, running, loop, history, bounds
<1>32. AcceptedSurvives'
  BY <1>1, <1>2, <1>3, <1>6, <1>7, <1>8 DEF MInv, AcceptedSurvives, PrimarySynced, OpenTo,
     Idle, memory, running, loop, history, bounds
<1>33. RefusalJustified'
  BY <1>1, <1>2, <1>3, <1>6, <1>7, <1>8 DEF MInv, RefusalJustified, ControlInv, Up,
     PrimarySynced, OpenTo, Idle, memory, running, loop, history, bounds
<1>34. NoLostWakeup'
  BY <1>1, <1>2, <1>3, <1>6, <1>7, <1>8 DEF MInv, NoLostWakeup, ControlInv, Up, PrimarySynced,
     OpenTo, Idle, memory, running, loop, history, bounds
<1> QED
  BY <1>20, <1>21, <1>22, <1>23, <1>24, <1>25, <1>26, <1>27, <1>28, <1>29, <1>30, <1>31, <1>32,
     <1>33, <1>34 DEF MInv

\* The process is killed, or the machine loses power.
LEMMA CrashMInv ==
  ASSUME MInv, Crash
  PROVE  MInv'
<1>1. TypeOK'
  BY NoManifestType DEF MInv, TypeOK, Crash, RunEnds, Goto, Idle, memory, running, loop,
     history, bounds
<1>2. ControlInv'
  BY DEF MInv, ControlInv, Up, Crash, RunEnds, Goto, Idle, memory, running, loop, history,
     bounds
<1>3. DirInv(disk, offered, damaged)'
  BY DEF MInv, Crash, RunEnds, Goto, Idle, memory, running, loop, history, bounds
<1>4. DirInv(durable, offered, damaged)'
  BY DEF MInv, Crash, RunEnds, Goto, Idle, memory, running, loop, history, bounds
<1>5. UpInv'
  BY DEF MInv, UpInv, ControlInv, Up, Owns, SameScope, Crash, RunEnds, Goto, Idle, memory,
     running, loop, history, bounds
<1>6. PutInv'
  BY DEF MInv, PutInv, ControlInv, Crash, RunEnds, Goto, Idle, memory, running, loop, history,
     bounds
<1>7. OpenInv'
  BY DEF MInv, OpenInv, ControlInv, Owns, Raw, StageContent, Crash, RunEnds, Goto, Idle,
     memory, running, loop, history, bounds
<1>8. BudgetInv'
  BY DEF MInv, BudgetInv, ControlInv, Up, Charged, Entries, Crash, RunEnds, Goto, Idle, memory,
     running, loop, history, bounds
<1>9. HoldInv'
  BY DEF MInv, HoldInv, ControlInv, Up, Crash, RunEnds, Goto, Idle, memory, running, loop,
     history, bounds
<1>10. HeldIsHead'
  BY DEF MInv, HeldIsHead, ControlInv, Up, Crash, RunEnds, Goto, Idle, memory, running, loop,
     history, bounds
<1>11. TenantInv'
  BY DEF MInv, TenantInv, ControlInv, Up, Crash, RunEnds, Goto, Idle, memory, running, loop,
     history, bounds
<1>12. OneTenant'
  BY DEF MInv, OneTenant, ControlInv, Up, UpInv, Owns, Crash, RunEnds, Goto, Idle, memory,
     running, loop, history, bounds
<1>13. AcceptedSurvives'
  BY DEF MInv, AcceptedSurvives, Crash, RunEnds, Goto, Idle, memory, running, loop, history,
     bounds
<1>14. RefusalJustified'
  BY DEF MInv, RefusalJustified, ControlInv, Up, Crash, RunEnds, Goto, Idle, memory, running,
     loop, history, bounds
<1>15. NoLostWakeup'
  BY DEF MInv, NoLostWakeup, ControlInv, Up, Crash, RunEnds, Goto, Idle, memory, running, loop,
     history, bounds
<1> QED
  BY <1>1, <1>2, <1>3, <1>4, <1>5, <1>6, <1>7, <1>8, <1>9, <1>10, <1>11, <1>12, <1>13, <1>14,
     <1>15 DEF MInv

\* A record file becomes unreadable.
LEMMA DamageMInv ==
  ASSUME MInv, NEW s \in Batches, Damage(s)
  PROVE  MInv'
<1>1. /\ disk \in Dirs /\ durable \in Dirs /\ op \in {"idle", "down"}
      /\ DirInv(disk, offered, damaged) /\ DirInv(durable, offered, damaged)
      /\ s \in Stored(disk) /\ s \in Stored(durable) /\ disk.recs[s] = durable.recs[s]
      /\ damaged' = damaged \cup {disk.recs[s].batch}
      /\ disk' = [disk EXCEPT !.recs[s].ok = FALSE] /\ durable' = [durable EXCEPT !.recs[s].ok = FALSE]
  BY DEF MInv, TypeOK, Damage, Stored
<1>2. /\ disk' \in Dirs /\ SameControl(disk', disk) /\ DirInv(disk', offered, damaged')
      /\ Stored(disk') = Stored(disk) /\ Numbers(disk') = Numbers(disk)
      /\ \A t \in Stored(disk) : disk'.recs[t].batch = disk.recs[t].batch
      /\ RecordCosts(disk') = RecordCosts(disk) /\ BadCosts(disk') = BadCosts(disk)
      /\ EntriesOf(disk') = EntriesOf(disk)
  BY <1>1, RecordDamaged
<1>3. /\ durable' \in Dirs /\ SameControl(durable', durable) /\ DirInv(durable', offered, damaged')
      /\ Stored(durable') = Stored(durable)
      /\ \A t \in Stored(durable) : durable'.recs[t].batch = durable.recs[t].batch
  BY <1>1, RecordDamaged
<1>4. /\ disk'.primary = disk.primary /\ disk'.backup = disk.backup
      /\ disk'.journal = disk.journal /\ disk'.stage = disk.stage
      /\ \A h : Settled(disk, h) => Settled(disk', h)
  BY <1>2 DEF SameControl, Settled
<1>5. \A h : Settled(durable, h) => Settled(durable', h)
  BY <1>3 DEF SameControl, Settled
<1>6. \A b : Holds(disk, b) => Holds(disk', b)
  BY <1>2 DEF Holds
<1>7. \A b : Holds(durable, b) => Holds(durable', b)
  BY <1>3 DEF Holds
<1>8. disk.recs[s].batch \in 1..offered
  <2>1. disk.recs[s].batch \in Batches /\ disk.recs[s].batch <= offered
    BY <1>1, RecordFacts DEF DirInv, RecordsInv
  <2> QED
    BY <2>1, BoundFacts DEF Batches, MInv, TypeOK
<1>20. TypeOK'
  BY <1>1, <1>2, <1>3, <1>4, <1>5, <1>6, <1>7, <1>8 DEF MInv, TypeOK, Damage, Idle, memory,
     running, loop, history, bounds
<1>21. ControlInv'
  BY <1>1, <1>2, <1>3, <1>4, <1>5, <1>6, <1>7, <1>8 DEF MInv, ControlInv, Up, Damage, Idle,
     memory, running, loop, history, bounds
<1>22. DirInv(disk, offered, damaged)'
  BY <1>1, <1>2, <1>3, <1>4, <1>5, <1>6, <1>7, <1>8 DEF MInv, Damage, Idle, memory, running,
     loop, history, bounds
<1>23. DirInv(durable, offered, damaged)'
  BY <1>1, <1>2, <1>3, <1>4, <1>5, <1>6, <1>7, <1>8 DEF MInv, Damage, Idle, memory, running,
     loop, history, bounds
<1>24. UpInv'
  BY <1>1, <1>2, <1>3, <1>4, <1>5, <1>6, <1>7, <1>8 DEF MInv, UpInv, ControlInv, Up, Owns,
     SameScope, Fresh, Damage, Idle, memory, running, loop, history, bounds
<1>25. PutInv'
  BY <1>1, <1>2, <1>3, <1>4, <1>5, <1>6, <1>7, <1>8 DEF MInv, PutInv, ControlInv, Fresh,
     Damage, Idle, memory, running, loop, history, bounds
<1>26. OpenInv'
  BY <1>1, <1>2, <1>3, <1>4, <1>5, <1>6, <1>7, <1>8 DEF MInv, OpenInv, ControlInv, Owns, Raw,
     StageContent, Fresh, Damage, Idle, memory, running, loop, history, bounds
<1>27. BudgetInv'
  BY <1>1, <1>2, <1>3, <1>4, <1>5, <1>6, <1>7, <1>8 DEF MInv, BudgetInv, ControlInv, Up,
     Charged, Entries, Damage, Idle, memory, running, loop, history, bounds
<1>28. HoldInv'
  <2>1. /\ op' = op /\ names' = names /\ consumer' = consumer /\ held' = held
        /\ delivered' = delivered /\ op \notin {"ack", "quarantine"}
    BY <1>1 DEF Damage, memory, running, loop
  <2>2. consumer = "acks" => disk'.recs[held].batch = disk.recs[held].batch
    BY <1>1, <1>2, HeldStored
  <2> QED
    BY <1>2, <2>1, <2>2 DEF MInv, HoldInv
<1>29. HeldIsHead'
  BY <1>1, <1>2, <1>3, <1>4, <1>5, <1>6, <1>7, <1>8 DEF MInv, HeldIsHead, ControlInv, Up,
     Damage, Idle, memory, running, loop, history, bounds
<1>30. TenantInv'
  BY <1>1, <1>2, <1>3, <1>4, <1>5, <1>6, <1>7, <1>8 DEF MInv, TenantInv, ControlInv, Up,
     Damage, Idle, memory, running, loop, history, bounds
<1>31. OneTenant'
  BY <1>1, <1>2, <1>3, <1>4, <1>5, <1>6, <1>7, <1>8 DEF MInv, OneTenant, ControlInv, Up, UpInv,
     Owns, Damage, Idle, memory, running, loop, history, bounds
<1>32. AcceptedSurvives'
  BY <1>1, <1>2, <1>3, <1>4, <1>5, <1>6, <1>7, <1>8 DEF MInv, AcceptedSurvives, Damage, Idle,
     memory, running, loop, history, bounds
<1>33. RefusalJustified'
  BY <1>1, <1>2, <1>3, <1>4, <1>5, <1>6, <1>7, <1>8 DEF MInv, RefusalJustified, ControlInv, Up,
     Damage, Idle, memory, running, loop, history, bounds
<1>34. NoLostWakeup'
  BY <1>1, <1>2, <1>3, <1>4, <1>5, <1>6, <1>7, <1>8 DEF MInv, NoLostWakeup, ControlInv, Up,
     Damage, Idle, memory, running, loop, history, bounds
<1> QED
  BY <1>20, <1>21, <1>22, <1>23, <1>24, <1>25, <1>26, <1>27, <1>28, <1>29, <1>30, <1>31, <1>32,
     <1>33, <1>34 DEF MInv

\* A copy of the manifest becomes unreadable.
LEMMA DamageManifestMInv ==
  ASSUME MInv, DamageManifest
  PROVE  MInv'
<1>1. /\ disk \in Dirs /\ durable \in Dirs /\ op \in {"idle", "down"}
      /\ DirInv(disk, offered, damaged) /\ DirInv(durable, offered, damaged)
  BY DEF MInv, TypeOK, DamageManifest
<1>2. /\ disk' \in Dirs /\ SameRecords(disk', disk) /\ Torns(disk', disk) /\ DirInv(disk', offered, damaged)
      /\ durable' \in Dirs /\ SameRecords(durable', durable) /\ Torns(durable', durable)
      /\ DirInv(durable', offered, damaged)
  <2>1. CASE /\ disk' = [disk EXCEPT !.primary = Torn] /\ durable' = [durable EXCEPT !.primary = Torn]
    BY <1>1, <2>1, CopyTorn
  <2>2. CASE /\ disk' = [disk EXCEPT !.backup = Torn] /\ durable' = [durable EXCEPT !.backup = Torn]
    BY <1>1, <2>2, CopyTorn
  <2> QED
    BY <2>1, <2>2 DEF DamageManifest
<1>3. /\ disk'.recs = disk.recs /\ disk'.bad = disk.bad
      /\ Stored(disk') = Stored(disk) /\ Numbers(disk') = Numbers(disk)
      /\ RecordCosts(disk') = RecordCosts(disk) /\ BadCosts(disk') = BadCosts(disk)
      /\ EntriesOf(disk') = EntriesOf(disk)
      /\ \A b : Holds(disk', b) <=> Holds(disk, b)
      /\ \A n : Fresh(disk', n) <=> Fresh(disk, n)
      /\ CopiesInv(disk', offered) /\ StagesInv(disk') => DirInv(disk', offered, damaged)
  BY <1>1, <1>2, ControlSet
<1>4. \A b : Holds(durable', b) <=> Holds(durable, b)
  BY <1>1, <1>2, ControlSet
<1>5. /\ disk'.primary \in {disk.primary, Torn} /\ disk'.backup \in {disk.backup, Torn}
      /\ disk'.journal = disk.journal /\ disk'.stage = disk.stage
  BY <1>2 DEF Torns
<1>6. \A h : Settled(disk, h) => Settled(disk', h)
  BY <1>2, FileFacts DEF Torns, Settled, Valid
<1>7. \A h : Settled(durable, h) => Settled(durable', h)
  BY <1>2, FileFacts DEF Torns, Settled, Valid
<1>8. ~Valid(Torn)
  BY DEF Valid
<1>20. TypeOK'
  BY <1>1, <1>2, <1>3, <1>4, <1>5, <1>6, <1>7, <1>8 DEF MInv, TypeOK, DamageManifest, Idle,
     memory, running, loop, history, bounds
<1>21. ControlInv'
  BY <1>1, <1>2, <1>3, <1>4, <1>5, <1>6, <1>7, <1>8 DEF MInv, ControlInv, Up, DamageManifest,
     Idle, memory, running, loop, history, bounds
<1>22. DirInv(disk, offered, damaged)'
  BY <1>1, <1>2, <1>3, <1>4, <1>5, <1>6, <1>7, <1>8 DEF MInv, DamageManifest, Idle, memory,
     running, loop, history, bounds
<1>23. DirInv(durable, offered, damaged)'
  BY <1>1, <1>2, <1>3, <1>4, <1>5, <1>6, <1>7, <1>8 DEF MInv, DamageManifest, Idle, memory,
     running, loop, history, bounds
<1>24. UpInv'
  BY <1>1, <1>2, <1>3, <1>4, <1>5, <1>6, <1>7, <1>8 DEF MInv, UpInv, ControlInv, Up, Owns,
     SameScope, Fresh, DamageManifest, Idle, memory, running, loop, history, bounds
<1>25. PutInv'
  BY <1>1, <1>2, <1>3, <1>4, <1>5, <1>6, <1>7, <1>8 DEF MInv, PutInv, ControlInv, Fresh,
     DamageManifest, Idle, memory, running, loop, history, bounds
<1>26. OpenInv'
  BY <1>1, <1>2, <1>3, <1>4, <1>5, <1>6, <1>7, <1>8 DEF MInv, OpenInv, ControlInv, Owns, Raw,
     StageContent, Fresh, DamageManifest, Idle, memory, running, loop, history, bounds
<1>27. BudgetInv'
  <2>1. Charged' = Charged /\ Entries' = Entries
    BY <1>3 DEF Charged, Entries, DamageManifest, running
  <2> QED
    BY <1>1, <2>1 DEF MInv, BudgetInv, Up, DamageManifest, memory, running
<1>28. HoldInv'
  BY <1>1, <1>2, <1>3, <1>4, <1>5, <1>6, <1>7, <1>8 DEF MInv, HoldInv, ControlInv, Up,
     DamageManifest, Idle, memory, running, loop, history, bounds
<1>29. HeldIsHead'
  BY <1>1, <1>2, <1>3, <1>4, <1>5, <1>6, <1>7, <1>8 DEF MInv, HeldIsHead, ControlInv, Up,
     DamageManifest, Idle, memory, running, loop, history, bounds
<1>30. TenantInv'
  BY <1>1, <1>2, <1>3, <1>4, <1>5, <1>6, <1>7, <1>8 DEF MInv, TenantInv, ControlInv, Up,
     DamageManifest, Idle, memory, running, loop, history, bounds
<1>31. OneTenant'
  BY <1>1, <1>2, <1>3, <1>4, <1>5, <1>6, <1>7, <1>8 DEF MInv, OneTenant, ControlInv, Up, UpInv,
     Owns, DamageManifest, Idle, memory, running, loop, history, bounds
<1>32. AcceptedSurvives'
  BY <1>1, <1>2, <1>3, <1>4, <1>5, <1>6, <1>7, <1>8 DEF MInv, AcceptedSurvives, DamageManifest,
     Idle, memory, running, loop, history, bounds
<1>33. RefusalJustified'
  BY <1>1, <1>2, <1>3, <1>4, <1>5, <1>6, <1>7, <1>8 DEF MInv, RefusalJustified, ControlInv, Up,
     DamageManifest, Idle, memory, running, loop, history, bounds
<1>34. NoLostWakeup'
  BY <1>1, <1>2, <1>3, <1>4, <1>5, <1>6, <1>7, <1>8 DEF MInv, NoLostWakeup, ControlInv, Up,
     DamageManifest, Idle, memory, running, loop, history, bounds
<1> QED
  BY <1>20, <1>21, <1>22, <1>23, <1>24, <1>25, <1>26, <1>27, <1>28, <1>29, <1>30, <1>31, <1>32,
     <1>33, <1>34 DEF MInv

-----------------------------------------------------------------------------
(* The specification.                                                       *)

\* The directory is empty at first.
LEMMA InitMInv == Init => MInv
<1> SUFFICES ASSUME Init PROVE MInv
  OBVIOUS
<1>1. /\ EmptyDir \in Dirs /\ EmptyDir.primary = NoFile /\ EmptyDir.backup = NoFile
      /\ EmptyDir.journal = NoFile /\ EmptyDir.bad = {} /\ \A t \in Stages : EmptyDir.stage[t] = NoFile
      /\ \A s \in Batches : EmptyDir.recs[s] = NoFile
  BY DEF EmptyDir, Dirs
<1>2. Stored(EmptyDir) = {} /\ Numbers(EmptyDir) = {}
  BY <1>1 DEF Stored, Numbers
<1>3. EntriesOf(EmptyDir) = 0
  BY <1>1, <1>2, FS_EmptySet DEF EntriesOf
<1>4. DirInv(EmptyDir, 0, {})
  <2>1. CopiesInv(EmptyDir, 0)
    BY <1>1 DEF CopiesInv, Valid
  <2>2. StagesInv(EmptyDir)
    BY <1>1, FileFacts DEF StagesInv, Stages
  <2>3. RecordsInv(EmptyDir, 0, {})
    BY <1>1, <1>2, <1>3, BoundFacts DEF RecordsInv
  <2> QED
    BY <2>1, <2>2, <2>3 DEF DirInv
<1>5. TypeOK
  <2>1. manifest \in Control
    BY NoManifestType DEF Init
  <2>2. cur \in Batches /\ offered \in 0..MaxBatches
    BY BoundFacts DEF Init, Batches
  <2>3. accepted \cup delivered \cup damaged \subseteq 1..offered
    BY DEF Init
  <2>4. /\ disk \in Dirs /\ durable \in Dirs /\ names \subseteq Batches /\ bytes \in Nat /\ count \in Nat
        /\ closed \in BOOLEAN /\ wake \in BOOLEAN /\ blocked \in BOOLEAN /\ scraping \in BOOLEAN
        /\ opener \in Openers
    BY <1>1 DEF Init
  <2>5. /\ op \in {"down", "open", "refused", "idle", "put", "ack", "quarantine"}
        /\ consumer \in {"stopped", "check", "wait", "holds", "acks"}
    BY DEF Init
  <2> QED
    BY <2>1, <2>2, <2>3, <2>4, <2>5 DEF TypeOK
<1>6. OneTenant
  BY FS_EmptySet DEF Init, OneTenant
<1> QED
  BY <1>4, <1>5, <1>6 DEF Init, MInv, ControlInv, Up, UpInv, PutInv, OpenInv, BudgetInv,
     HoldInv,
     HeldIsHead, TenantInv, AcceptedSurvives, RefusalJustified, NoLostWakeup

\* A step that changes nothing.
LEMMA StutterMInv ==
  ASSUME MInv, UNCHANGED vars
  PROVE  MInv'
<1>1. /\ TypeOK' /\ ControlInv' /\ DirInv(disk, offered, damaged)' /\ DirInv(durable, offered, damaged)'
      /\ UpInv' /\ PutInv' /\ BudgetInv' /\ HoldInv' /\ HeldIsHead'
  BY DEF MInv, vars, memory, running, loop, history, TypeOK, ControlInv, UpInv, PutInv,
     BudgetInv,
     HoldInv, HeldIsHead, Up, Owns, SameScope, Charged, Entries
<1>2. OpenInv' /\ TenantInv' /\ OneTenant' /\ AcceptedSurvives' /\ NoLostWakeup'
  BY DEF MInv, vars, memory, running, loop, history, OpenInv, TenantInv, OneTenant,
     AcceptedSurvives, NoLostWakeup, Up, Owns, Raw, StageContent
<1>3. RefusalJustified'
  BY RefusedJustified DEF MInv, vars, running, RefusalJustified, Justified
<1> QED
  BY <1>1, <1>2, <1>3 DEF MInv

\* Every step preserves MInv.
LEMMA NextMInv == MInv /\ [Next]_vars => MInv'
<1> SUFFICES ASSUME MInv, [Next]_vars PROVE MInv'
  OBVIOUS
<1>1. CASE Rename
  <2>1. target \in {"backup", "primary", "record"}
    BY <1>1 DEF MInv, ControlInv, Rename
  <2> QED
    BY <1>1, <2>1, RenameBackupMInv, RenamePrimaryMInv, RenameRecordMInv
<1>2. CASE SavePrimary \/ Scrape
  BY <1>2, SavePrimaryMInv, ScrapeMInv, PutBeginMInv, PutRefusedMInv, PutRecordMInv,
     PutReturnMInv, PutFailsMInv DEF Scrape, Put
<1>3. CASE NextItem
  BY <1>3, NextReturnsMInv, NextQuarantinesMInv, QuarantineReturnMInv, QuarantineFailsMInv,
     NextWaitsMInv, NextWokenMInv, NextClosedMInv DEF NextItem
<1>4. CASE Deliver \/ Ack
  BY <1>4, SendAcceptedMInv, SendExhaustedMInv, SendRefusedMInv, AckRemovesMInv, AckReturnMInv,
     AckFailsMInv, AckRefusedMInv DEF Deliver, Ack
<1>5. CASE Close \/ OpenDisk
  BY <1>5, CloseMInv, OpenBeginMInv, OpenFreshMInv, OpenSavedMInv, OpenMatchingMInv,
     OpenUnpendsMInv, OpenQuarantinesMInv, OpenReturnMInv, OpenRefusedMInv, OpenFailsMInv
     DEF OpenDisk
<1>6. CASE StageRenamed
  <2>1. target \in {"journal", "backup", "primary"}
    BY <1>6 DEF MInv, ControlInv, StageRenamed, Stages
  <2> QED
    BY <1>6, <2>1, StageRenamedJournalMInv, StageRenamedBackupMInv, StageRenamedPrimaryMInv
<1>7. CASE Migrate /\ ~StageRenamed
  BY <1>7, OpenMigratesMInv, OpenResumesMInv, StageCreatedMInv, StageWrittenMInv,
     JournalSyncedMInv, BackupSyncedMInv, PrimarySyncedMInv, MigrationDoneMInv DEF Migrate
<1>8. CASE Environment
  BY <1>8, CrashMInv, DamageMInv, DamageManifestMInv DEF Environment
<1>9. CASE UNCHANGED vars
  BY <1>9, StutterMInv
<1> QED
  BY <1>1, <1>2, <1>3, <1>4, <1>5, <1>6, <1>7, <1>8, <1>9 DEF Next

\* MInv holds in every reachable state of the Metrics spool.
THEOREM Invariance == Spec => []MInv
  BY InitMInv, NextMInv, PTL DEF Spec

\* The variables have their types; q.count and q.bytes, which Ack decrements,
\* are never negative.
THEOREM TypeCorrect == Spec => []TypeOK
<1>1. MInv => TypeOK
  BY DEF MInv
<1> QED
  BY <1>1, Invariance, PTL

\* What Put accepted stays in the directory until it is delivered or damaged.
THEOREM Durability == Spec => []AcceptedSurvives
<1>1. MInv => AcceptedSurvives
  BY DEF MInv
<1> QED
  BY <1>1, Invariance, PTL

\* No readable copy of the manifest is behind a record.
THEOREM NumbersNotReused == Spec => []ReceiptsFresh
<1>1. MInv => ReceiptsFresh
  BY DEF MInv, ReceiptsFresh, DirInv, CopiesInv, Fresh
<1> QED
  BY <1>1, Invariance, PTL

\* What is being sent stays the head of the queue.
THEOREM FirstInFirstOut == Spec => []HeldIsHead
<1>1. MInv => HeldIsHead
  BY DEF MInv
<1> QED
  BY <1>1, Invariance, PTL

\* A directory never changes its v2 scope, and serves no agent of another one.
THEOREM SingleTenant == Spec => []OneTenant
<1>1. MInv => OneTenant
  BY DEF MInv
<1> QED
  BY <1>1, Invariance, PTL

\* openDisk refuses only for what an interrupted write or damage left.
THEOREM Refusals == Spec => []RefusalJustified
<1>1. MInv => RefusalJustified
  BY DEF MInv
<1> QED
  BY <1>1, Invariance, PTL

\* Next does not sleep while there is a record.
THEOREM Wakeups == Spec => []NoLostWakeup
<1>1. MInv => NoLostWakeup
  BY DEF MInv
<1> QED
  BY <1>1, Invariance, PTL

\* The budget is kept, across crashes and whatever is quarantined.
THEOREM Budget == Spec => []WithinBudget
<1>1. MInv => WithinBudget
  BY DEF MInv, WithinBudget, BudgetInv, Up, DirInv, RecordsInv, Entries
<1> QED
  BY <1>1, Invariance, PTL
============================================================================
