------------------------- MODULE LogsPipeline_proofs -------------------------
(***************************************************************************)
(* Proofs about LogsPipeline: for any set of sources, any number of lines, *)
(* any spool capacity and any number of stops and failing writes, PInv is  *)
(* inductive, and every step is one of the promise (AtLeastOnce) and one   *)
(* of the queue that LogSpool implements (DurableQueue).                   *)
(***************************************************************************)
EXTENDS LogsPipeline, TLAPS

-----------------------------------------------------------------------------
(* Records, lines and checkpoints.                                          *)

\* A record is a line of a source.
LEMMA RecordLemma ==
  ASSUME NEW r \in Records
  PROVE  /\ r[1] \in Sources /\ r[2] \in 1..Lines /\ r = <<r[1], r[2]>>
         /\ r[2] \in Nat
BY PipelineAssumption DEF Records

\* Two records of one source are the same when their lines are.
LEMMA SameRecord ==
  ASSUME NEW q \in Records, NEW r \in Records, q[1] = r[1], q[2] = r[2]
  PROVE  q = r
BY RecordLemma

\* The checkpoint a source is about to write passes one line, and names it when
\* it is a record.
LEMMA PassedLemma ==
  ASSUME TypeOK, NEW s \in Sources, Left(s)
  PROVE  /\ Line(s)[1] = s /\ Line(s)[2] = checkpoint[s].offset + 1
         /\ checkpoint[s].offset \in 0..Lines
         /\ Line(s)[2] \in 1..Lines
         /\ Passed(s) \in [offset : 0..Lines, id : 0..Lines]
         /\ Passed(s).offset = checkpoint[s].offset + 1
         /\ NamesItsLine(Passed(s))
         /\ Passed(s).id = IF Line(s) \in Records THEN Line(s)[2] ELSE 0
         /\ \A r \in Records : r[1] = s /\ r[2] = checkpoint[s].offset + 1 => r = Line(s)
<1>1. checkpoint[s].offset \in 0..Lines /\ checkpoint[s].offset + 1 \in 1..Lines
  BY PipelineAssumption DEF TypeOK, Left
<1>2. Line(s)[1] = s /\ Line(s)[2] = checkpoint[s].offset + 1
  BY DEF Line
<1>3. \A r \in Records : r[1] = s /\ r[2] = checkpoint[s].offset + 1 => r = Line(s)
  BY RecordLemma DEF Line
<1>4. QED
  BY <1>1, <1>2, <1>3, PipelineAssumption DEF Passed, NamesItsLine

\* Activating the line that a checkpoint names changes that record only, and
\* leaves no record of that name waiting.
LEMMA ActivatedLemma ==
  ASSUME TypeOK, NEW s \in Sources, Activated(s, checkpoint[s].id)
  PROVE  /\ spool' \in [Records -> {"none", "unready", "ready"}]
         /\ Held' = Held
         /\ \A r \in Records :
               /\ spool'[r] = spool[r] \/ (r[1] = s /\ r[2] = checkpoint[s].id /\ spool'[r] = "ready"
                                           /\ r \in Held)
               /\ r[1] = s /\ r[2] = checkpoint[s].id => spool'[r] # "unready"
<1> DEFINE n == checkpoint[s].id
           a == <<s, n>>
<1>1. n \in Nat
  BY PipelineAssumption DEF TypeOK
<1>2. a[1] = s /\ a[2] = n
  OBVIOUS
<1>3. \A r \in Records : r[1] = s /\ r[2] = n => r = a /\ n # 0
  BY RecordLemma
<1>4. spool' = IF n # 0 /\ a \in Held THEN [spool EXCEPT ![a] = "ready"] ELSE spool
  BY DEF Activated
<1> HIDE DEF n, a
<1>5. CASE n # 0 /\ a \in Held
  <2>1. spool' = [spool EXCEPT ![a] = "ready"] /\ a \in Records /\ spool[a] # "none"
    BY <1>4, <1>5 DEF Held
  <2>2. \A r \in Records : r # a => spool'[r] = spool[r]
    BY <2>1 DEF TypeOK
  <2>3. spool' \in [Records -> {"none", "unready", "ready"}] /\ spool'[a] = "ready"
    BY <2>1 DEF TypeOK
  <2>4. Held' = Held
    BY <2>1, <2>2, <2>3 DEF Held
  <2>5. QED
    BY <2>2, <2>3, <2>4, <1>2, <1>3, <1>5 DEF n
<1>6. CASE ~(n # 0 /\ a \in Held)
  <2>1. spool' = spool /\ Held' = Held
    BY <1>4, <1>6 DEF Held
  <2>2. ASSUME NEW r \in Records, r[1] = s, r[2] = n PROVE spool[r] # "unready"
    BY <1>3, <1>6, <2>2 DEF Held
  <2>3. QED
    BY <2>1, <2>2 DEF n, TypeOK
<1>7. QED
  BY <1>5, <1>6

-----------------------------------------------------------------------------
(* PInv is inductive: one lemma for each action.                            *)

\* A source starts from the checkpoint on disk.
LEMMA StartStep ==
  ASSUME PInv, NEW s \in Sources, Start(s)
  PROVE  PInv'
<1> USE PipelineAssumption, RecordLemma DEF PInv, TypeOK, Start, Goto, disk, backend, bounds
<1>1. TypeOK'
  OBVIOUS
<1>2. CheckpointInv'
  BY DEF CheckpointInv, NamesItsLine, Running, Left, Passed, Line, Held
<1>3. SpoolInv'
  BY DEF SpoolInv, Held, Ready, Running
<1>4. OrderInv'
  BY DEF OrderInv, Held
<1>5. NothingStranded'
  BY DEF NothingStranded
<1>6. StrandInv'
  BY DEF NothingStranded, StrandInv, Running
<1>7. LoopInv'
  BY DEF LoopInv, Ready, Held
<1>8. InOrderPerSource'
  BY DEF InOrderPerSource
<1>9. QED
  BY <1>1, <1>2, <1>3, <1>4, <1>5, <1>6, <1>7, <1>8 DEF PInv

\* A recovery activates the line the checkpoint names.
LEMMA RecoverStep ==
  ASSUME PInv, NEW s \in Sources, Recover(s)
  PROVE  PInv'
<1>1. /\ TypeOK /\ Activated(s, checkpoint[s].id) /\ pc[s] = "recover"
      /\ pc' = [pc EXCEPT ![s] = "read"]
      /\ UNCHANGED <<number, next, saved, checkpoint, loop, held, delivered, refused, stops,
                     commitErrors, readErrors>>
  BY DEF PInv, Recover, Goto, backend, bounds
<1>2. /\ spool' \in [Records -> {"none", "unready", "ready"}] /\ Held' = Held
      /\ \A r \in Records :
            /\ spool'[r] = spool[r] \/ (r[1] = s /\ r[2] = checkpoint[s].id /\ spool'[r] = "ready"
                                        /\ r \in Held)
            /\ r[1] = s /\ r[2] = checkpoint[s].id => spool'[r] # "unready"
  BY <1>1, ActivatedLemma
<1>3. Ready \subseteq Ready' /\ \A r \in Ready' \ Ready : r[1] = s /\ r[2] = checkpoint[s].id
  BY <1>2 DEF Ready, Held
<1> USE <1>1, PipelineAssumption, RecordLemma DEF PInv, TypeOK
<1>4. TypeOK'
  BY <1>2
<1>5. CheckpointInv'
  BY <1>2 DEF CheckpointInv, NamesItsLine, Running, Left, Passed, Line
<1>6. SpoolInv'
  <2>1. checkpoint[s].id <= checkpoint[s].offset
    BY DEF CheckpointInv, NamesItsLine, Running
  <2>2. saved[s] = checkpoint[s] \/ saved[s].offset = checkpoint[s].offset + 1
    BY PassedLemma DEF CheckpointInv, Running
  <2>3. checkpoint[s].id <= saved[s].offset
    BY <2>1, <2>2
  <2>4. QED
    BY <1>2, <1>3, <2>1, <2>3 DEF SpoolInv, Running
<1>7. OrderInv'
  BY <1>2 DEF OrderInv, Held
<1>8. NothingStranded'
  BY <1>2 DEF NothingStranded
<1>9. StrandInv'
  BY <1>2 DEF StrandInv, Running
<1>10. LoopInv'
  BY <1>3 DEF LoopInv
<1>11. InOrderPerSource'
  BY DEF InOrderPerSource
<1>12. QED
  BY <1>4, <1>5, <1>6, <1>7, <1>8, <1>9, <1>10, <1>11

\* A recovery cannot read its record.
LEMMA RecoverFailsStep ==
  ASSUME PInv, NEW s \in Sources, RecoverFails(s)
  PROVE  PInv'
<1> USE PipelineAssumption, RecordLemma DEF PInv, TypeOK, RecoverFails, Goto, ReadFails, disk, backend, bounds
<1>1. TypeOK'
  OBVIOUS
<1>2. CheckpointInv'
  BY DEF CheckpointInv, NamesItsLine, Running, Left, Passed, Line, Held
<1>3. SpoolInv'
  BY DEF SpoolInv, Held, Ready, Running
<1>4. OrderInv'
  BY DEF OrderInv, Held
<1>5. NothingStranded'
  BY DEF NothingStranded
<1>6. StrandInv'
  BY DEF StrandInv, Running
<1>7. LoopInv'
  BY DEF LoopInv, Ready, Held
<1>8. InOrderPerSource'
  BY DEF InOrderPerSource
<1>9. QED
  BY <1>1, <1>2, <1>3, <1>4, <1>5, <1>6, <1>7, <1>8 DEF PInv

\* A line that is stored anew was never delivered, and no checkpoint on disk has
\* passed it: what a checkpoint has passed is in the spool or delivered.
LEMMA FreshLemma ==
  ASSUME PInv, NEW s \in Sources, Admit(s), Line(s) \notin Held
  PROVE  Line(s) \notin delivered /\ saved[s] = checkpoint[s]
<1> DEFINE l == Line(s)
<1>1. /\ TypeOK /\ Left(s) /\ l \in Records /\ pc[s] = "read" /\ l \notin Held
  BY DEF PInv, Admit
<1>2. l[1] = s /\ l[2] = checkpoint[s].offset + 1 /\ checkpoint[s].offset \in Nat
  BY <1>1, PassedLemma, PipelineAssumption
<1> HIDE DEF l
<1>3. l \notin delivered
  BY <1>1, <1>2 DEF PInv, SpoolInv, Running
<1>4. saved[s] = checkpoint[s] \/ saved[s] = Passed(s)
  BY <1>1 DEF PInv, CheckpointInv, Running
<1>5. saved[s] # Passed(s)
  BY <1>1, <1>2, <1>3, PassedLemma, PipelineAssumption DEF PInv, SpoolInv
<1>6. QED
  BY <1>3, <1>4, <1>5 DEF l

\* A source admits its next line, or finds it admitted.
LEMMA AdmitStep ==
  ASSUME PInv, NEW s \in Sources, Admit(s)
  PROVE  PInv'
<1> DEFINE l == Line(s)
<1>1. /\ TypeOK /\ Left(s) /\ l \in Records /\ pc[s] = "read"
      /\ pc' = [pc EXCEPT ![s] = "commit"]
      /\ UNCHANGED <<saved, checkpoint, loop, held, delivered, refused, stops, commitErrors, readErrors>>
  BY DEF PInv, Admit, Goto, backend, bounds
<1>2. l[1] = s /\ l[2] = checkpoint[s].offset + 1 /\ checkpoint[s].offset \in Nat
      /\ \A r \in Records : r[1] = s /\ r[2] = checkpoint[s].offset + 1 => r = l
  BY <1>1, PassedLemma, PipelineAssumption
<1> HIDE DEF l
<1>10. CASE l \in Held /\ UNCHANGED disk
  <2> USE <1>1, <1>2, <1>10, PipelineAssumption, RecordLemma DEF PInv, TypeOK, disk
  <2>1. TypeOK'
    OBVIOUS
  <2>2. CheckpointInv'
    BY DEF l, CheckpointInv, NamesItsLine, Running, Left, Passed, Line, Held
  <2>3. SpoolInv'
    BY DEF SpoolInv, Held, Ready, Running
  <2>4. OrderInv'
    BY DEF OrderInv, Held
  <2>5. NothingStranded'
    BY DEF NothingStranded
  <2>6. StrandInv'
    BY DEF StrandInv, Running
  <2>7. LoopInv'
    BY DEF LoopInv, Ready
  <2>8. InOrderPerSource'
    BY DEF InOrderPerSource
  <2>9. QED
    BY <2>1, <2>2, <2>3, <2>4, <2>5, <2>6, <2>7, <2>8
<1>11. CASE l \notin Held
  <2>1. /\ spool' = [spool EXCEPT ![l] = "unready"] /\ spool[l] = "none"
        /\ number' = [number EXCEPT ![l] = next] /\ next' = next + 1
    BY <1>1, <1>11 DEF l, Admit, Held
  <2>2. l \notin delivered
    BY <1>11, FreshLemma DEF l
  <2>3. saved[s] = checkpoint[s]
    BY <1>11, FreshLemma DEF l
  <2> USE <1>1, <1>2, <2>1, PipelineAssumption, RecordLemma DEF PInv, TypeOK
  <2>10. TypeOK'
    OBVIOUS
  <2>11. CheckpointInv'
    BY DEF l, CheckpointInv, NamesItsLine, Running, Left, Passed, Line, Held
  <2>12. SpoolInv'
    <3>1. Held' = Held \cup {l} /\ Ready' = Ready
      BY DEF Held, Ready
    <3>2. number'[l] = next /\ next \in Nat /\ next # 0 /\ \A r \in Records \ {l} : number'[r] = number[r]
      BY DEF SpoolInv
    <3>3. ASSUME NEW r \in Held'
          PROVE  /\ number'[r] \in 1..(next' - 1) /\ r[2] <= saved[r[1]].offset + 1
                 /\ (Running(r[1]))' => r[2] <= checkpoint[r[1]].offset + 1
      BY <1>11, <2>3, <3>1, <3>2, <3>3 DEF SpoolInv, Held, Running
    <3>4. QED
      BY <1>11, <2>2, <2>3, <3>1, <3>3 DEF SpoolInv, Running
  <2>13. OrderInv'
    <3> SUFFICES ASSUME NEW q \in Held', NEW r \in Held', q[1] = r[1], q[2] < r[2]
                 PROVE  number'[q] < number'[r]
      BY DEF OrderInv
    <3>1. q \in Records /\ r \in Records
      BY DEF Held
    <3>2. CASE q # l /\ r # l
      BY <3>1, <3>2 DEF OrderInv, Held
    <3>3. CASE r = l
      BY <3>1, <3>3 DEF SpoolInv, Held
    <3>4. CASE q = l
      BY <3>1, <3>4, SMTT(30) DEF SpoolInv, Held, Running
    <3>5. QED
      BY <3>2, <3>3, <3>4
  <2>14. NothingStranded'
    BY <2>3, SMTT(30) DEF NothingStranded
  <2>15. StrandInv'
    BY DEF StrandInv, Running
  <2>16. LoopInv'
    BY DEF LoopInv, Ready
  <2>17. InOrderPerSource'
    BY DEF InOrderPerSource
  <2>18. QED
    BY <2>10, <2>11, <2>12, <2>13, <2>14, <2>15, <2>16, <2>17
<1>12. QED
  BY <1>1, <1>10, <1>11 DEF l, Admit

\* The spool is full: the source comes back to the same line.
LEMMA AdmitFullStep ==
  ASSUME PInv, NEW s \in Sources, AdmitFull(s)
  PROVE  PInv'
<1> USE PipelineAssumption, RecordLemma DEF PInv, TypeOK, AdmitFull, Goto, Again, disk, backend, bounds
<1>1. TypeOK'
  OBVIOUS
<1>2. CheckpointInv'
  BY DEF CheckpointInv, NamesItsLine, Running, Left, Passed, Line, Held
<1>3. SpoolInv'
  BY DEF SpoolInv, Held, Ready, Running
<1>4. OrderInv'
  BY DEF OrderInv, Held
<1>5. NothingStranded'
  BY DEF NothingStranded
<1>6. StrandInv'
  BY DEF StrandInv, Running
<1>7. LoopInv'
  BY DEF LoopInv, Ready, Held
<1>8. InOrderPerSource'
  BY DEF InOrderPerSource
<1>9. QED
  BY <1>1, <1>2, <1>3, <1>4, <1>5, <1>6, <1>7, <1>8 DEF PInv

\* A tailer at the end of its file polls again.
LEMMA EndOfFileStep ==
  ASSUME PInv, NEW s \in Sources, EndOfFile(s)
  PROVE  PInv'
<1> USE PipelineAssumption, RecordLemma DEF PInv, TypeOK, EndOfFile, Goto, disk, backend, bounds
<1>1. TypeOK'
  OBVIOUS
<1>2. CheckpointInv'
  BY DEF CheckpointInv, NamesItsLine, Running, Left, Passed, Line, Held
<1>3. SpoolInv'
  BY DEF SpoolInv, Held, Ready, Running
<1>4. OrderInv'
  BY DEF OrderInv, Held
<1>5. NothingStranded'
  BY DEF NothingStranded
<1>6. StrandInv'
  BY DEF StrandInv, Running
<1>7. LoopInv'
  BY DEF LoopInv, Ready, Held
<1>8. InOrderPerSource'
  BY DEF InOrderPerSource
<1>9. QED
  BY <1>1, <1>2, <1>3, <1>4, <1>5, <1>6, <1>7, <1>8 DEF PInv

\* A refused line goes to its commit without a record.
LEMMA RejectStep ==
  ASSUME PInv, NEW s \in Sources, Reject(s)
  PROVE  PInv'
<1> USE PipelineAssumption, RecordLemma DEF PInv, TypeOK, Reject, Goto, disk, backend, bounds
<1>1. TypeOK'
  OBVIOUS
<1>2. CheckpointInv'
  BY DEF CheckpointInv, NamesItsLine, Running, Left, Passed, Line, Held
<1>3. SpoolInv'
  BY DEF SpoolInv, Held, Ready, Running
<1>4. OrderInv'
  BY DEF OrderInv, Held
<1>5. NothingStranded'
  BY DEF NothingStranded
<1>6. StrandInv'
  BY DEF StrandInv, Running
<1>7. LoopInv'
  BY DEF LoopInv, Ready, Held
<1>8. InOrderPerSource'
  BY DEF InOrderPerSource
<1>9. QED
  BY <1>1, <1>2, <1>3, <1>4, <1>5, <1>6, <1>7, <1>8 DEF PInv

\* A source moves its checkpoint past the line it admitted or refused.
LEMMA CommitStep ==
  ASSUME PInv, NEW s \in Sources, Commit(s)
  PROVE  PInv'
<1>1. /\ TypeOK /\ Left(s) /\ (Line(s) \in Records => Line(s) \in Held)
      /\ pc[s] = "commit" /\ UNCHANGED <<spool, number, next, loop, held, delivered, refused,
                                         stops, commitErrors, readErrors>>
      /\ checkpoint' = [checkpoint EXCEPT ![s] = Passed(s)]
      /\ saved' = [saved EXCEPT ![s] = Passed(s)]
      /\ pc' = [pc EXCEPT ![s] = IF Line(s) \in Records THEN "activate" ELSE "read"]
  BY DEF PInv, CheckpointInv, Commit, Goto, disk, backend, bounds
<1>2. /\ Passed(s) \in [offset : 0..Lines, id : 0..Lines]
      /\ checkpoint[s].offset \in Nat /\ Passed(s).offset = checkpoint[s].offset + 1
      /\ NamesItsLine(Passed(s))
      /\ Line(s) \in Records => Passed(s).id = checkpoint[s].offset + 1
      /\ \A r \in Records : r[1] = s /\ r[2] = checkpoint[s].offset + 1 => r = Line(s)
  BY <1>1, PassedLemma, PipelineAssumption
<1>3. saved[s] = checkpoint[s] \/ saved[s] = Passed(s)
  BY <1>1 DEF PInv, CheckpointInv, Running
<1>4. saved[s].offset \in {checkpoint[s].offset, checkpoint[s].offset + 1}
  BY <1>2, <1>3
<1> USE <1>1, PipelineAssumption, RecordLemma DEF TypeOK
<1>11. TypeOK'
  BY <1>2
<1>12. CheckpointInv'
  <2> SUFFICES ASSUME NEW t \in Sources
               PROVE  /\ NamesItsLine(saved'[t])
                      /\ Running(t)' => /\ NamesItsLine(checkpoint'[t])
                                        /\ \/ saved'[t] = checkpoint'[t]
                                           \/ pc'[t] # "activate" /\ Left(t)' /\ saved'[t] = Passed(t)'
                      /\ pc'[t] = "commit" => Left(t)' /\ (Line(t)' \in Records => Line(t)' \in Held')
    BY DEF CheckpointInv, NamesItsLine
  <2>1. CASE t = s
    BY <2>1, <1>2
  <2>2. CASE t # s
    BY <2>2 DEF PInv, CheckpointInv, NamesItsLine, Running, Left, Passed, Line, Held
  <2>3. QED
    BY <2>1, <2>2
<1>13. SpoolInv'
  BY <1>2, <1>4 DEF PInv, SpoolInv, Held, Ready, Running
<1>14. OrderInv'
  BY DEF PInv, OrderInv, Held
<1>15. NothingStranded'
  <2> SUFFICES ASSUME readErrors = 0, NEW r \in Records, spool[r] = "unready",
                      r[2] <= saved'[r[1]].offset
               PROVE  saved'[r[1]].id = r[2]
    BY DEF NothingStranded
  <2>1. CASE r[1] # s
    BY <2>1 DEF PInv, NothingStranded
  <2>2. CASE r[1] = s
    <3>1. r[2] > checkpoint[s].offset
      BY <2>2, <1>2 DEF PInv, StrandInv, Running
    <3>2. r[2] = checkpoint[s].offset + 1 /\ saved'[s].offset = checkpoint[s].offset + 1
      BY <2>2, <3>1, <1>2, <1>3
    <3>3. saved'[s] = Passed(s) /\ r = Line(s)
      BY <2>2, <3>2, <1>2, <1>3
    <3>4. QED
      BY <2>2, <3>2, <3>3, <1>2
  <2>3. QED
    BY <2>1, <2>2
<1>16. StrandInv'
  BY <1>2, SMTT(30) DEF PInv, StrandInv, Running
<1>17. LoopInv'
  BY DEF PInv, LoopInv, Ready
<1>18. InOrderPerSource'
  BY DEF PInv, InOrderPerSource
<1>19. QED
  BY <1>11, <1>12, <1>13, <1>14, <1>15, <1>16, <1>17, <1>18 DEF PInv

\* The checkpoint write reports a failure, and may have happened all the same.
LEMMA CommitFailsStep ==
  ASSUME PInv, NEW s \in Sources, CommitFails(s)
  PROVE  PInv'
<1>1. /\ TypeOK /\ Left(s) /\ (Line(s) \in Records => Line(s) \in Held)
      /\ pc[s] = "commit" /\ UNCHANGED <<spool, number, next, checkpoint, loop, held, delivered,
                                         refused, stops, readErrors>>
      /\ commitErrors' = commitErrors + 1
      /\ saved' = saved \/ saved' = [saved EXCEPT ![s] = Passed(s)]
      /\ pc' = [pc EXCEPT ![s] = Again(s)] /\ Again(s) \in {"recover", "read"}
  BY DEF PInv, CheckpointInv, CommitFails, Goto, Again, disk, backend, bounds
<1>2. /\ Passed(s) \in [offset : 0..Lines, id : 0..Lines]
      /\ checkpoint[s].offset \in Nat /\ Passed(s).offset = checkpoint[s].offset + 1
      /\ NamesItsLine(Passed(s))
      /\ Line(s) \in Records => Passed(s).id = checkpoint[s].offset + 1
      /\ \A r \in Records : r[1] = s /\ r[2] = checkpoint[s].offset + 1 => r = Line(s)
  BY <1>1, PassedLemma, PipelineAssumption
<1>3. saved[s] = checkpoint[s] \/ saved[s] = Passed(s)
  BY <1>1 DEF PInv, CheckpointInv, Running
<1>4. saved[s].offset \in {checkpoint[s].offset, checkpoint[s].offset + 1}
  BY <1>2, <1>3
<1> USE <1>1, PipelineAssumption, RecordLemma DEF TypeOK
<1>5. /\ saved' \in [Sources -> [offset : 0..Lines, id : 0..Lines]]
      /\ \A t \in Sources \ {s} : saved'[t] = saved[t]
      /\ saved'[s] = saved[s] \/ saved'[s] = Passed(s)
  BY <1>2, SMTT(30)
<1>6. saved'[s].offset \in {checkpoint[s].offset, checkpoint[s].offset + 1}
      /\ saved'[s].offset >= saved[s].offset
  BY <1>2, <1>4, <1>5
<1>11. TypeOK'
  <2>1. pc' \in [Sources -> {"down", "recover", "read", "commit", "activate", "failed"}]
    OBVIOUS
  <2>2. commitErrors' \in Nat
    OBVIOUS
  <2>3. QED
    BY <1>5, <2>1, <2>2
<1>12. CheckpointInv'
  <2> SUFFICES ASSUME NEW t \in Sources
               PROVE  /\ NamesItsLine(saved'[t])
                      /\ Running(t)' => /\ NamesItsLine(checkpoint'[t])
                                        /\ \/ saved'[t] = checkpoint'[t]
                                           \/ pc'[t] # "activate" /\ Left(t)' /\ saved'[t] = Passed(t)'
                      /\ pc'[t] = "commit" => Left(t)' /\ (Line(t)' \in Records => Line(t)' \in Held')
    BY DEF CheckpointInv, NamesItsLine
  <2>1. Left(t)' = Left(t) /\ Line(t)' = Line(t) /\ Passed(t)' = Passed(t) /\ Held' = Held
    BY DEF Left, Line, Passed, Held
  <2>2. CASE t = s
    BY <2>1, <2>2, <1>2, <1>3 DEF PInv, CheckpointInv, Running
  <2>3. CASE t # s
    BY <2>1, <2>3 DEF PInv, CheckpointInv, Running
  <2>4. QED
    BY <2>2, <2>3
<1>13. SpoolInv'
  <2>1. Held' = Held /\ Ready' = Ready
    BY DEF Held, Ready
  <2>2. ASSUME NEW r \in Records, r[1] = s, r[2] <= saved'[s].offset, r[2] > saved[s].offset
        PROVE  r \in Held
    BY <2>2, <1>2, <1>4, <1>6
  <2>3. QED
    BY <1>2, <1>4, <1>5, <1>6, <2>1, <2>2 DEF PInv, SpoolInv, Running
<1>14. OrderInv'
  BY DEF PInv, OrderInv, Held
<1>15. NothingStranded'
  <2> SUFFICES ASSUME readErrors = 0, NEW r \in Records, spool[r] = "unready",
                      r[2] <= saved'[r[1]].offset
               PROVE  saved'[r[1]].id = r[2]
    BY DEF NothingStranded
  <2>1. CASE r[1] # s
    BY <2>1 DEF PInv, NothingStranded
  <2>2. CASE r[1] = s
    <3>1. r[2] > checkpoint[s].offset
      BY <2>2, <1>2 DEF PInv, StrandInv, Running
    <3>2. r[2] = checkpoint[s].offset + 1 /\ saved'[s].offset = checkpoint[s].offset + 1
      <4>1. r[2] \in Nat /\ r[2] <= saved'[s].offset
        BY <2>2
      <4>2. \A c, x, n \in Nat : x \in {c, c + 1} /\ n <= x /\ n > c => n = c + 1 /\ x = c + 1
        OBVIOUS
      <4>3. saved'[s].offset \in Nat
        BY <1>2, <1>6
      <4>4. QED
        BY ONLY <4>1, <4>2, <4>3, <3>1, <1>2, <1>6
    <3>3. saved'[s] = Passed(s) /\ r = Line(s)
      BY <2>2, <3>2, <1>2, <1>3, <1>5
    <3>4. QED
      BY <2>2, <3>2, <3>3, <1>2
  <2>3. QED
    BY <2>1, <2>2
<1>16. StrandInv'
  BY DEF PInv, StrandInv, Running
<1>17. LoopInv'
  BY DEF PInv, LoopInv, Ready
<1>18. InOrderPerSource'
  BY DEF PInv, InOrderPerSource
<1>19. QED
  BY <1>11, <1>12, <1>13, <1>14, <1>15, <1>16, <1>17, <1>18 DEF PInv

\* A source activates the line it has just committed.
LEMMA ActivateStep ==
  ASSUME PInv, NEW s \in Sources, Activate(s)
  PROVE  PInv'
<1>1. /\ TypeOK /\ Activated(s, checkpoint[s].id) /\ pc[s] = "activate"
      /\ pc' = [pc EXCEPT ![s] = "read"]
      /\ UNCHANGED <<number, next, saved, checkpoint, loop, held, delivered, refused, stops,
                     commitErrors, readErrors>>
  BY DEF PInv, Activate, Goto, backend, bounds
<1>2. /\ spool' \in [Records -> {"none", "unready", "ready"}] /\ Held' = Held
      /\ \A r \in Records :
            /\ spool'[r] = spool[r] \/ (r[1] = s /\ r[2] = checkpoint[s].id /\ spool'[r] = "ready"
                                        /\ r \in Held)
            /\ r[1] = s /\ r[2] = checkpoint[s].id => spool'[r] # "unready"
  BY <1>1, ActivatedLemma
<1>3. Ready \subseteq Ready' /\ \A r \in Ready' \ Ready : r[1] = s /\ r[2] = checkpoint[s].id
  BY <1>2 DEF Ready, Held
<1> USE <1>1, PipelineAssumption, RecordLemma DEF PInv, TypeOK
<1>4. TypeOK'
  BY <1>2
<1>5. CheckpointInv'
  BY <1>2 DEF CheckpointInv, NamesItsLine, Running, Left, Passed, Line
<1>6. SpoolInv'
  <2>1. checkpoint[s].id <= checkpoint[s].offset
    BY DEF CheckpointInv, NamesItsLine, Running
  <2>2. saved[s] = checkpoint[s] \/ saved[s].offset = checkpoint[s].offset + 1
    BY PassedLemma DEF CheckpointInv, Running
  <2>3. checkpoint[s].id <= saved[s].offset
    BY <2>1, <2>2
  <2>4. QED
    BY <1>2, <1>3, <2>1, <2>3 DEF SpoolInv, Running
<1>7. OrderInv'
  BY <1>2 DEF OrderInv, Held
<1>8. NothingStranded'
  BY <1>2 DEF NothingStranded
<1>9. StrandInv'
  BY <1>2 DEF StrandInv, Running
<1>10. LoopInv'
  BY <1>3 DEF LoopInv
<1>11. InOrderPerSource'
  BY DEF InOrderPerSource
<1>12. QED
  BY <1>4, <1>5, <1>6, <1>7, <1>8, <1>9, <1>10, <1>11

\* An activation cannot read its record.
LEMMA ActivateFailsStep ==
  ASSUME PInv, NEW s \in Sources, ActivateFails(s)
  PROVE  PInv'
<1> USE PipelineAssumption, RecordLemma DEF PInv, TypeOK, ActivateFails, Goto, ReadFails, Again, disk, backend, bounds
<1>1. TypeOK'
  OBVIOUS
<1>2. CheckpointInv'
  BY DEF CheckpointInv, NamesItsLine, Running, Left, Passed, Line, Held
<1>3. SpoolInv'
  BY DEF SpoolInv, Held, Ready, Running
<1>4. OrderInv'
  BY DEF OrderInv, Held
<1>5. NothingStranded'
  BY DEF NothingStranded
<1>6. StrandInv'
  BY DEF StrandInv, Running
<1>7. LoopInv'
  BY DEF LoopInv, Ready, Held
<1>8. InOrderPerSource'
  BY DEF InOrderPerSource
<1>9. QED
  BY <1>1, <1>2, <1>3, <1>4, <1>5, <1>6, <1>7, <1>8 DEF PInv

\* The delivery loop takes the head: every lower line of its source was
\* delivered, for it is past both checkpoints, and if the spool held it, it would
\* be before the head in the queue, hence waiting for an activation, hence the
\* last line its checkpoint passed.
LEMMA DeliverNextStep ==
  ASSUME PInv, DeliverNext
  PROVE  PInv'
<1>1. PICK r \in Records : IsHead(r) /\ held' = r
  BY DEF DeliverNext
<1>2. /\ loop' = "send"
      /\ UNCHANGED <<spool, number, next, saved, checkpoint, pc, delivered, refused, stops,
                     commitErrors, readErrors>>
  BY DEF DeliverNext, disk, backend, bounds
<1>3. ASSUME NEW q \in Records, q[1] = r[1], q[2] < r[2], readErrors = 0
      PROVE  q \in delivered
  <2>1. saved[r[1]].offset \in Nat /\ saved[r[1]].id \in Nat /\ r[2] \in Nat /\ q[2] \in Nat
        /\ r[1] \in Sources /\ q[2] # 0
    BY RecordLemma, PipelineAssumption DEF PInv, TypeOK
  <2>2. r \in Held /\ r[2] <= saved[r[1]].offset
    BY <1>1 DEF PInv, SpoolInv, IsHead, Ready, Held
  <2>3. SUFFICES ASSUME q \in Held PROVE FALSE
    BY <1>3, <2>1, <2>2 DEF PInv, SpoolInv
  <2>4. number[q] < number[r] /\ number[q] \in Nat /\ number[r] \in Nat
    BY <1>3, <2>2, <2>3 DEF PInv, OrderInv, TypeOK
  <2>5. spool[q] = "unready"
    BY <2>3, <2>4, <1>1 DEF IsHead, Ready, Held, PInv, TypeOK
  <2>6. saved[r[1]].id = q[2]
    BY <1>3, <2>1, <2>2, <2>5 DEF PInv, NothingStranded
  <2>7. QED
    BY <1>3, <2>1, <2>2, <2>6 DEF PInv, CheckpointInv, NamesItsLine
<1> USE <1>1, <1>2 DEF PInv, TypeOK
<1>4. TypeOK'
  OBVIOUS
<1>5. CheckpointInv' /\ SpoolInv'
  BY DEF CheckpointInv, SpoolInv, NamesItsLine, Running, Left, Passed, Line, Held, Ready
<1>6. OrderInv' /\ NothingStranded' /\ StrandInv' /\ InOrderPerSource'
  BY DEF OrderInv, NothingStranded, StrandInv, InOrderPerSource, Running, Held
<1>7. LoopInv'
  BY <1>3 DEF LoopInv, IsHead, Ready
<1>8. QED
  BY <1>4, <1>5, <1>6, <1>7

\* The backend accepts the record.
LEMMA SendAcceptedStep ==
  ASSUME PInv, SendAccepted
  PROVE  PInv'
<1> USE PipelineAssumption, RecordLemma DEF PInv, TypeOK, SendAccepted, disk, backend, bounds
<1>1. TypeOK'
  OBVIOUS
<1>2. CheckpointInv'
  BY DEF CheckpointInv, NamesItsLine, Running, Left, Passed, Line, Held
<1>3. SpoolInv'
  BY DEF SpoolInv, LoopInv, Held, Ready, Running
<1>4. OrderInv'
  BY DEF OrderInv, Held
<1>5. NothingStranded'
  BY DEF NothingStranded
<1>6. StrandInv'
  BY DEF StrandInv, Running
<1>7. LoopInv'
  BY DEF LoopInv, Ready, Held
<1>8. InOrderPerSource'
  BY DEF InOrderPerSource, LoopInv
<1>9. QED
  BY <1>1, <1>2, <1>3, <1>4, <1>5, <1>6, <1>7, <1>8 DEF PInv

\* The attempts are exhausted, after an acceptance or not.
LEMMA SendExhaustedStep ==
  ASSUME PInv, SendExhausted
  PROVE  PInv'
<1> USE PipelineAssumption, RecordLemma DEF PInv, TypeOK, SendExhausted, disk, backend, bounds
<1>1. TypeOK'
  OBVIOUS
<1>2. CheckpointInv'
  BY DEF CheckpointInv, NamesItsLine, Running, Left, Passed, Line, Held
<1>3. SpoolInv'
  BY DEF SpoolInv, LoopInv, Held, Ready, Running
<1>4. OrderInv'
  BY DEF OrderInv, Held
<1>5. NothingStranded'
  BY DEF NothingStranded
<1>6. StrandInv'
  BY DEF StrandInv, Running
<1>7. LoopInv'
  BY DEF LoopInv, Ready, Held
<1>8. InOrderPerSource'
  BY DEF InOrderPerSource, LoopInv
<1>9. QED
  BY <1>1, <1>2, <1>3, <1>4, <1>5, <1>6, <1>7, <1>8 DEF PInv

\* The backend refuses the record for good.
LEMMA SendRefusedStep ==
  ASSUME PInv, SendRefused
  PROVE  PInv'
<1> USE PipelineAssumption, RecordLemma DEF PInv, TypeOK, SendRefused, disk, backend, bounds
<1>1. TypeOK'
  OBVIOUS
<1>2. CheckpointInv'
  BY DEF CheckpointInv, NamesItsLine, Running, Left, Passed, Line, Held
<1>3. SpoolInv'
  BY DEF SpoolInv, Held, Ready, Running
<1>4. OrderInv'
  BY DEF OrderInv, Held
<1>5. NothingStranded'
  BY DEF NothingStranded
<1>6. StrandInv'
  BY DEF StrandInv, Running
<1>7. LoopInv'
  BY DEF LoopInv, Ready, Held
<1>8. InOrderPerSource'
  BY DEF InOrderPerSource
<1>9. QED
  BY <1>1, <1>2, <1>3, <1>4, <1>5, <1>6, <1>7, <1>8 DEF PInv

\* The delivered head leaves the spool.
LEMMA AckStep ==
  ASSUME PInv, Ack
  PROVE  PInv'
<1> USE PipelineAssumption, RecordLemma DEF PInv, TypeOK, Ack, IsHead, disk, backend, bounds
<1>1. TypeOK'
  OBVIOUS
<1>2. CheckpointInv'
  BY DEF CheckpointInv, SpoolInv, NamesItsLine, Running, Left, Passed, Line, Held, Ready
<1>3. SpoolInv'
  BY DEF SpoolInv, LoopInv, Held, Ready, Running
<1>4. OrderInv'
  BY DEF OrderInv, Held
<1>5. NothingStranded'
  BY DEF NothingStranded
<1>6. StrandInv'
  BY DEF StrandInv, Running
<1>7. LoopInv'
  BY DEF LoopInv, Ready, Held
<1>8. InOrderPerSource'
  BY DEF InOrderPerSource
<1>9. QED
  BY <1>1, <1>2, <1>3, <1>4, <1>5, <1>6, <1>7, <1>8 DEF PInv

\* The record is not the head any more.
LEMMA AckRefusedStep ==
  ASSUME PInv, AckRefused
  PROVE  PInv'
<1> USE PipelineAssumption, RecordLemma DEF PInv, TypeOK, AckRefused, disk, backend, bounds
<1>1. TypeOK'
  OBVIOUS
<1>2. CheckpointInv'
  BY DEF CheckpointInv, NamesItsLine, Running, Left, Passed, Line, Held
<1>3. SpoolInv'
  BY DEF SpoolInv, Held, Ready, Running
<1>4. OrderInv'
  BY DEF OrderInv, Held
<1>5. NothingStranded'
  BY DEF NothingStranded
<1>6. StrandInv'
  BY DEF StrandInv, Running
<1>7. LoopInv'
  BY DEF LoopInv, Ready, Held
<1>8. InOrderPerSource'
  BY DEF InOrderPerSource
<1>9. QED
  BY <1>1, <1>2, <1>3, <1>4, <1>5, <1>6, <1>7, <1>8 DEF PInv

\* The process stops or is killed, and starts again.
LEMMA RestartStep ==
  ASSUME PInv, Restart
  PROVE  PInv'
<1> USE PipelineAssumption, RecordLemma DEF PInv, TypeOK, Restart, NoCheckpoint, disk, backend, bounds
<1>1. TypeOK'
  OBVIOUS
<1>2. CheckpointInv'
  BY DEF CheckpointInv, NamesItsLine, Running, Left, Passed, Line, Held
<1>3. SpoolInv'
  BY DEF SpoolInv, Held, Ready, Running
<1>4. OrderInv'
  BY DEF OrderInv, Held
<1>5. NothingStranded'
  BY DEF NothingStranded
<1>6. StrandInv'
  BY DEF StrandInv, Running
<1>7. LoopInv'
  BY DEF LoopInv, Ready, Held
<1>8. InOrderPerSource'
  BY DEF InOrderPerSource
<1>9. QED
  BY <1>1, <1>2, <1>3, <1>4, <1>5, <1>6, <1>7, <1>8 DEF PInv

\* A step in which nothing changes.
LEMMA StutterStep ==
  ASSUME PInv, UNCHANGED vars
  PROVE  PInv'
<1>1. UNCHANGED <<spool, number, next, saved, checkpoint, pc, loop, held, delivered, refused,
                  stops, commitErrors, readErrors>>
  BY DEF vars, disk, backend, bounds
<1>2. TypeOK' /\ CheckpointInv' /\ SpoolInv'
  BY <1>1 DEF PInv, TypeOK, CheckpointInv, SpoolInv, NamesItsLine, Running, Left, Passed,
     Line, Held, Ready
<1>3. OrderInv' /\ NothingStranded' /\ StrandInv' /\ LoopInv' /\ InOrderPerSource'
  BY <1>1 DEF PInv, OrderInv, NothingStranded, StrandInv, LoopInv, InOrderPerSource, Running,
     Held, Ready
<1>4. QED
  BY <1>2, <1>3 DEF PInv

\* The agent starts with an empty spool and no checkpoint.
LEMMA InitPInv ==
  ASSUME Init
  PROVE  PInv
<1> USE PipelineAssumption, RecordLemma DEF Init, NoCheckpoint
<1>1. TypeOK
  <2>1. NoCheckpoint \in [offset : 0..Lines, id : 0..Lines]
    OBVIOUS
  <2>2. saved \in [Sources -> [offset : 0..Lines, id : 0..Lines]]
    BY <2>1
  <2>3. spool \in [Records -> {"none", "unready", "ready"}] /\ number \in [Records -> Nat]
    OBVIOUS
  <2>4. pc \in [Sources -> {"down", "recover", "read", "commit", "activate", "failed"}]
    OBVIOUS
  <2>5. checkpoint \in [Sources -> [offset : 0..Lines, id : 0..Lines]]
    BY <2>2
  <2>6. /\ next \in Nat \ {0} /\ loop \in {"next", "send", "ack", "blocked"}
        /\ delivered \subseteq Records
        /\ stops \in Nat /\ commitErrors \in Nat /\ readErrors \in Nat
    OBVIOUS
  <2>7. refused \in BOOLEAN /\ held \in Records
    OBVIOUS
  <2>8. QED
    BY ONLY <2>2, <2>3, <2>4, <2>5, <2>6, <2>7 DEF TypeOK
<1>2. CheckpointInv /\ SpoolInv
  BY DEF CheckpointInv, SpoolInv, NamesItsLine, Running, Held, Ready
<1>3. OrderInv /\ NothingStranded /\ StrandInv /\ LoopInv /\ InOrderPerSource
  BY DEF OrderInv, NothingStranded, StrandInv, LoopInv, InOrderPerSource, Running, Held
<1>4. QED
  BY <1>1, <1>2, <1>3 DEF PInv

\* Every step of the sources, the delivery loop and the process preserves PInv.
LEMMA NextPInv ==
  ASSUME PInv, [Next]_vars
  PROVE  PInv'
<1>1. CASE UNCHANGED vars
  BY <1>1, StutterStep
<1>2. ASSUME NEW s \in Sources, Source(s)
      PROVE  PInv'
  BY <1>2, StartStep, RecoverStep, AdmitStep, AdmitFullStep, EndOfFileStep, RejectStep,
     CommitStep,
     ActivateStep DEF Source
<1>3. ASSUME NEW s \in Sources, SourceFails(s)
      PROVE  PInv'
  BY <1>3, RecoverFailsStep, CommitFailsStep, ActivateFailsStep DEF SourceFails
<1>4. CASE Deliver
  BY <1>4, DeliverNextStep, SendAcceptedStep, AckStep, AckRefusedStep DEF Deliver
<1>5. QED
  BY <1>1, <1>2, <1>3, <1>4, SendExhaustedStep, SendRefusedStep, RestartStep DEF Next

\* PInv holds in every reachable state.
THEOREM Invariance == Spec => []PInv
BY InitPInv, NextPInv, PTL DEF Spec

-----------------------------------------------------------------------------
(* The properties of the runs.                                              *)

\* Every variable keeps its type.
THEOREM TypeCorrect == Spec => []TypeOK
BY Invariance, PTL DEF PInv

\* A committed record that is not deliverable yet is the one the checkpoint on
\* disk names, unless an activation failed: no crash strands a record.
THEOREM Stranding == Spec => []NothingStranded
BY Invariance, PTL DEF PInv

\* The lines of a source are first delivered in their order, unless an activation
\* failed.
THEOREM Ordering == Spec => []InOrderPerSource
BY Invariance, PTL DEF PInv

-----------------------------------------------------------------------------
(* At-least-once: every step is one of the promise, or changes nothing that *)
(* it speaks of.                                                            *)

\* What the agent keeps of the records it has taken over.
Pending == {r \in Committed : spool[r] # "none" /\ r \notin delivered}

\* Writing the checkpoint takes the admitted line over, and no other.
LEMMA SavedTakesOver ==
  ASSUME PInv, NEW s \in Sources, pc[s] = "commit",
         saved' = [saved EXCEPT ![s] = Passed(s)], UNCHANGED <<spool, delivered>>
  PROVE  [Promise!Next]_(Promise!vars)
<1> DEFINE l == Line(s)
           c == checkpoint[s].offset
<1>1. TypeOK /\ Left(s) /\ (l \in Records => l \in Held) /\ Running(s)
  BY DEF PInv, CheckpointInv, Running
<1>2. /\ l[1] = s /\ l[2] = c + 1 /\ c \in Nat /\ Passed(s).offset = c + 1
      /\ \A r \in Records : r[1] = s /\ r[2] = c + 1 => r = l
  BY <1>1, PassedLemma, PipelineAssumption
<1>3. saved[s].offset \in {c, c + 1}
  BY <1>1, <1>2 DEF PInv, CheckpointInv
<1> HIDE DEF l, c
<1>4. \A r \in Records : r[1] # s => saved'[r[1]] = saved[r[1]]
  BY <1>1, RecordLemma DEF TypeOK
<1>5. saved'[s].offset = c + 1
  BY <1>1, <1>2 DEF TypeOK
<1>6. Committed' = Committed \cup ({l} \cap Records)
  <2>1. ASSUME NEW r \in Records
        PROVE  r \in Committed' <=> r \in Committed \/ r = l
    <3>1. CASE r[1] # s
      BY <3>1, <1>2, <1>4 DEF Committed
    <3>2. CASE r[1] = s
      BY <3>2, <1>2, <1>3, <1>5, RecordLemma DEF Committed
    <3>3. QED
      BY <3>1, <3>2
  <2>2. QED
    BY <2>1 DEF Committed
<1>7. CASE l \in Records /\ l \notin Committed
  <2>1. l \notin delivered /\ spool[l] # "none"
    BY <1>1, <1>7 DEF PInv, SpoolInv, Committed, Held
  <2>2. Pending' = Pending \cup {l} /\ Committed' = Committed \cup {l}
    BY <1>6, <1>7, <2>1 DEF Pending
  <2>3. Promise!TakeOver(l)
    BY <1>7, <2>2 DEF Promise!TakeOver, Pending
  <2>4. Promise!Next
    BY <1>7, <2>3 DEF Promise!Next, Promise!TakeOver
  <2>5. QED
    BY <2>4
<1>8. CASE ~(l \in Records /\ l \notin Committed)
  <2>1. Committed' = Committed
    BY <1>6, <1>8
  <2>2. QED
    BY <2>1 DEF Promise!vars
<1>9. QED
  BY <1>7, <1>8

\* An acceptance, known or not, delivers a record that was taken over.
LEMMA SentDelivers ==
  ASSUME PInv, loop = "send", delivered' \in {delivered, delivered \cup {held}},
         UNCHANGED <<spool, saved>>
  PROVE  [Promise!Next]_(Promise!vars)
<1>1. Committed' = Committed
  BY DEF Committed
<1>2. held \in Records /\ held \in Ready /\ held \in Committed /\ spool[held] # "none"
  BY DEF PInv, TypeOK, LoopInv, SpoolInv, Ready, Committed
<1>3. CASE delivered' = delivered
  BY <1>1, <1>3 DEF Promise!vars
<1>4. CASE delivered' = delivered \cup {held} /\ held \notin delivered
  <2>1. Pending' = Pending \ {held} /\ held \in Pending
    BY <1>1, <1>2, <1>4 DEF Pending
  <2>2. Promise!Deliver(held)
    BY <1>1, <1>4, <2>1 DEF Promise!Deliver, Pending
  <2>3. Promise!Next
    BY <1>2, <2>2 DEF Promise!Next, Promise!Deliver
  <2>4. QED
    BY <2>3
<1>5. QED
  BY <1>3, <1>4

\* A step that moves no checkpoint and delivers nothing is not seen, when all it
\* does to the spool is to take a record that is not committed, to change what is
\* there from unready to ready, or to drop a delivered record.
LEMMA UnseenByPromise ==
  ASSUME UNCHANGED <<saved, delivered>>,
         \A r \in Committed : (spool'[r] = "none") # (spool[r] = "none") => r \in delivered
  PROVE  UNCHANGED Promise!vars
<1>1. Committed' = Committed
  BY DEF Committed
<1>2. Pending' = Pending
  BY <1>1 DEF Pending
<1>3. QED
  BY <1>1, <1>2 DEF Promise!vars, Pending

\* Every step takes a record over, delivers one, or is not seen.
LEMMA PromiseStep ==
  ASSUME PInv, [Next]_vars
  PROVE  [Promise!Next]_(Promise!vars)
<1> USE DEF disk, backend, bounds
<1>1. CASE UNCHANGED vars
  BY <1>1 DEF vars, Promise!vars, Committed
<1>2. ASSUME NEW s \in Sources, Commit(s) \/ CommitFails(s)
      PROVE  [Promise!Next]_(Promise!vars)
  <2>1. pc[s] = "commit" /\ UNCHANGED <<spool, delivered>>
    BY <1>2 DEF Commit, CommitFails
  <2>2. CASE saved' = [saved EXCEPT ![s] = Passed(s)]
    BY <2>1, <2>2, SavedTakesOver
  <2>3. CASE saved' = saved
    BY <2>1, <2>3, UnseenByPromise
  <2>4. QED
    BY <1>2, <2>2, <2>3 DEF Commit, CommitFails
<1>3. CASE SendAccepted \/ SendExhausted
  BY <1>3, SentDelivers DEF SendAccepted, SendExhausted
<1>4. ASSUME NEW s \in Sources, Start(s) \/ RecoverFails(s) \/ AdmitFull(s) \/ EndOfFile(s)
                                \/ Reject(s) \/ ActivateFails(s)
      PROVE  UNCHANGED Promise!vars
  BY <1>4, UnseenByPromise DEF Start, RecoverFails, AdmitFull, EndOfFile, Reject, ActivateFails
<1>5. CASE DeliverNext \/ SendRefused \/ AckRefused \/ Restart
  BY <1>5, UnseenByPromise DEF DeliverNext, SendRefused, AckRefused, Restart
<1>6. ASSUME NEW s \in Sources, Recover(s) \/ Activate(s)
      PROVE  UNCHANGED Promise!vars
  <2>1. UNCHANGED <<saved, delivered>> /\ Held' = Held
    BY <1>6, ActivatedLemma DEF Recover, Activate, PInv
  <2>2. QED
    BY <2>1, UnseenByPromise DEF Held, Committed
<1>7. ASSUME NEW s \in Sources, Admit(s)
      PROVE  UNCHANGED Promise!vars
  <2>1. UNCHANGED <<saved, delivered>> /\ TypeOK /\ Left(s) /\ Line(s) \in Records
    BY <1>7 DEF Admit, PInv
  <2>2. CASE UNCHANGED spool
    BY <2>1, <2>2, UnseenByPromise
  <2>3. CASE Line(s) \notin Held /\ spool' = [spool EXCEPT ![Line(s)] = "unready"]
    <3>1. Line(s) \notin Committed
      BY <1>7, <2>1, <2>3, FreshLemma, PassedLemma, PipelineAssumption DEF Committed
    <3>2. \A r \in Committed : spool'[r] = spool[r]
      BY <2>3, <3>1 DEF Committed, PInv, TypeOK
    <3>3. QED
      BY <2>1, <3>2, UnseenByPromise
  <2>4. QED
    BY <1>7, <2>2, <2>3 DEF Admit
<1>8. CASE Ack
  <2>1. UNCHANGED <<saved, delivered>> /\ spool' = [spool EXCEPT ![held] = "none"] /\ held \in delivered
    BY <1>8 DEF Ack, PInv, LoopInv
  <2>2. \A r \in Committed : r # held => spool'[r] = spool[r]
    BY <2>1 DEF Committed, PInv, TypeOK
  <2>3. QED
    BY <2>1, <2>2, UnseenByPromise
<1>9. QED
  BY <1>1, <1>2, <1>3, <1>4, <1>5, <1>6, <1>7, <1>8
     DEF Next, Source, SourceFails, Deliver

\* The Logs capability delivers at least once: whatever the sources, the spool's
\* size, the stops and the failing writes, it implements the promise.
THEOREM AtLeastOnceRefinement == Spec => ImplementsAtLeastOnce
<1>1. Init => Promise!Init
  BY RecordLemma, PipelineAssumption DEF Init, Promise!Init, Committed, NoCheckpoint
<1>2. PInv /\ [Next]_vars => [Promise!Next]_(Promise!vars)
  BY PromiseStep
<1>3. QED
  BY <1>1, <1>2, Invariance, PTL DEF Spec, ImplementsAtLeastOnce, Promise!Spec

-----------------------------------------------------------------------------
(* The queue: the atomic spool operations used here are ones of the queue   *)
(* that LogSpool implements file by file.                                   *)

\* The queue's variables as functions of this module's.
Pos == [r \in Records |-> IF spool[r] = "none" THEN 0 ELSE number[r]]
Told == [r \in Records |-> IF spool[r] = "unready" THEN "stored" ELSE spool[r]]

\* What the queue does not see.
LEMMA UnseenByQueue ==
  ASSUME UNCHANGED <<spool, number>>
  PROVE  UNCHANGED Queue!vars
BY DEF Queue!vars, Ready

\* PutAdmission stores a line at the end of the queue, or finds it there.
LEMMA AdmitStores ==
  ASSUME PInv, NEW s \in Sources, Admit(s)
  PROVE  [Queue!Next]_(Queue!vars)
<1> DEFINE l == Line(s)
<1>1. TypeOK /\ l \in Records
  BY DEF PInv, Admit
<1>2. CASE UNCHANGED disk
  BY <1>2, UnseenByQueue DEF disk
<1>3. CASE /\ l \notin Held /\ spool' = [spool EXCEPT ![l] = "unready"]
           /\ number' = [number EXCEPT ![l] = next]
  <2> HIDE DEF l
  <2>1. /\ spool[l] = "none" /\ next \in Nat \ {0}
        /\ Pos' = [Pos EXCEPT ![l] = next] /\ Pos'[l] = next /\ Pos[l] = 0
    BY <1>1, <1>3 DEF Pos, Held, TypeOK
  <2>2. Ready' = Ready
    BY <1>1, <1>3, <2>1 DEF Ready, TypeOK
  <2>3. Told' = [Told EXCEPT ![l] = "stored"]
    BY <1>1, <1>3 DEF Told, TypeOK
  <2>4. \A b \in Records : Pos[b] # 0 => next > Pos[b]
    BY DEF Pos, PInv, SpoolInv, Held, TypeOK
  <2>5. Queue!Store(l)
    BY <1>1, <2>1, <2>2, <2>3, <2>4 DEF Queue!Store, Queue!Queued, Pos, Told
  <2>6. Queue!Next
    BY <1>1, <2>5 DEF Queue!Next, Queue!Store
  <2>7. QED
    BY <2>6
<1>4. QED
  BY <1>2, <1>3 DEF Admit

\* Activate makes a queued record ready, or finds it ready or gone.
LEMMA ActivatedMakesReady ==
  ASSUME PInv, NEW s \in Sources, Activated(s, checkpoint[s].id), UNCHANGED number
  PROVE  [Queue!Next]_(Queue!vars)
<1> DEFINE a == <<s, checkpoint[s].id>>
<1>1. CASE spool' = spool
  BY <1>1, UnseenByQueue
<1>2. CASE a \in Held /\ spool' = [spool EXCEPT ![a] = "ready"]
  <2>1. a \in Records /\ spool[a] # "none" /\ TypeOK /\ number[a] \in Nat \ {0}
    BY <1>2 DEF Held, PInv, SpoolInv, TypeOK
  <2> HIDE DEF a
  <2>2. Pos' = Pos /\ Pos[a] # 0
    BY <1>2, <2>1 DEF Pos, TypeOK
  <2>3. Ready' = Ready \cup {a}
    BY <1>2, <2>1 DEF Ready, TypeOK
  <2>4. Told' = [Told EXCEPT ![a] = "ready"]
    BY <1>2, <2>1 DEF Told, TypeOK
  <2>5. Queue!MakeReady(a)
    BY <2>1, <2>2, <2>3, <2>4 DEF Queue!MakeReady, Queue!Queued, Pos, Told
  <2>6. Queue!Next
    BY <2>1, <2>5 DEF Queue!Next, Queue!MakeReady
  <2>7. QED
    BY <2>6
<1>3. QED
  BY <1>1, <1>2 DEF Activated

\* Ack removes the head.
LEMMA AckAcknowledges ==
  ASSUME PInv, Ack
  PROVE  [Queue!Next]_(Queue!vars)
<1>1. /\ TypeOK /\ held \in Records /\ IsHead(held) /\ UNCHANGED number
      /\ spool' = [spool EXCEPT ![held] = "none"]
  BY DEF PInv, TypeOK, Ack
<1>2. Pos' = [Pos EXCEPT ![held] = 0]
  BY <1>1 DEF Pos, TypeOK
<1>3. Ready' = Ready \ {held}
  BY <1>1 DEF Ready, TypeOK
<1>4. Told' = [Told EXCEPT ![held] = "none"]
  BY <1>1 DEF Told, TypeOK
<1>5. held \in Ready /\ \A b \in Ready : Pos[held] <= Pos[b]
  BY <1>1 DEF IsHead, Pos, Ready
<1>6. Queue!Acknowledge(held)
  BY <1>2, <1>3, <1>4, <1>5 DEF Queue!Acknowledge, Queue!IsHead, Pos, Told
<1>7. Queue!Next
  BY <1>1, <1>6 DEF Queue!Next, Queue!Acknowledge
<1>8. QED
  BY <1>7

\* Every step is one of the queue, or is not seen by it.
LEMMA QueueStep ==
  ASSUME PInv, [Next]_vars
  PROVE  [Queue!Next]_(Queue!vars)
<1> USE DEF disk
<1>1. CASE UNCHANGED vars
  BY <1>1, UnseenByQueue DEF vars
<1>2. ASSUME NEW s \in Sources, Admit(s)
      PROVE  [Queue!Next]_(Queue!vars)
  BY <1>2, AdmitStores
<1>3. ASSUME NEW s \in Sources, Recover(s) \/ Activate(s)
      PROVE  [Queue!Next]_(Queue!vars)
  BY <1>3, ActivatedMakesReady DEF Recover, Activate
<1>4. ASSUME NEW s \in Sources, Start(s) \/ RecoverFails(s) \/ AdmitFull(s) \/ EndOfFile(s)
                                \/ Reject(s) \/ Commit(s) \/ CommitFails(s) \/ ActivateFails(s)
      PROVE  UNCHANGED Queue!vars
  BY <1>4, UnseenByQueue
     DEF Start, RecoverFails, AdmitFull, EndOfFile, Reject, Commit, CommitFails, ActivateFails
<1>5. CASE DeliverNext \/ SendAccepted \/ SendExhausted \/ SendRefused \/ AckRefused \/ Restart
  BY <1>5, UnseenByQueue
     DEF DeliverNext, SendAccepted, SendExhausted, SendRefused, AckRefused, Restart
<1>6. CASE Ack
  BY <1>6, AckAcknowledges
<1>7. QED
  BY <1>1, <1>2, <1>3, <1>4, <1>5, <1>6 DEF Next, Source, SourceFails, Deliver

\* The spool as the sources and the delivery loop see it is the durable queue.
THEOREM QueueRefinement == Spec => ImplementsQueue
<1>1. Init => Queue!Init
  BY DEF Init, Queue!Init, Ready
<1>2. PInv /\ [Next]_vars => [Queue!Next]_(Queue!vars)
  BY QueueStep
<1>3. QED
  BY <1>1, <1>2, Invariance, PTL DEF Spec, ImplementsQueue, Queue!Spec

=============================================================================
