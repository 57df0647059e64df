---------------------------- MODULE JournalReader ----------------------------
(***************************************************************************)
(* The journald source, internal/journaltail/reader_linux.go (Reader), and *)
(* the admission function collectors/logs_linux.go gives it: the durable   *)
(* time watermark of start_at: end, journalctl started again and again     *)
(* from the cursor, and admission, checkpoint and activation of every      *)
(* record.  journalctl may end at any time, checkpoint writes, admissions  *)
(* and activations may fail, and the agent may be stopped or killed        *)
(* between any two steps.                                                  *)
(*                                                                         *)
(* The journal is what passes the unit, identifier and priority filters.   *)
(* A cursor is the position of its record, 0 the empty cursor; AdmissionID *)
(* is a hash of the cursor, so it is the position as well.                 *)
(***************************************************************************)
EXTENDS Integers, Sequences, FiniteSets

CONSTANTS
    StartAts,     \* the values of start_at, subset of {"beginning", "end"}
    Kinds,        \* "plain"; "bad" (parseRecord refuses it); "large" (LogJSON
                  \* refuses it); "huge" (more than maxJournalRecordBytes)
    TicksPerSecond, \* clock ticks, the microseconds, that --since rounds down to
    MaxItems,     \* queue_items
    MaxRecords, MaxClock, MaxStops, MaxFaults, MaxActivateFaults  \* bounds

ASSUME JournalAssumption ==
    /\ StartAts \subseteq {"beginning", "end"}
    /\ Kinds \subseteq {"plain", "bad", "large", "huge"}
    /\ TicksPerSecond \in Nat \ {0} /\ MaxItems \in Nat \ {0}
    /\ MaxRecords \in Nat /\ MaxClock \in Nat \ {0} /\ MaxStops \in Nat
    /\ MaxFaults \in Nat /\ MaxActivateFaults \in Nat

VARIABLES
    startAt,            \* cfg.StartAt
    clock, journal,     \* r.now(), and the records with the time of each
    saved,              \* on disk: the checkpoint file
    spool,              \* status of each record: "none", "unready", "ready",
                        \* or "delivered", which the spool no longer holds
    cp,                 \* r.cp
    pc, pos,            \* where the reader is, and the next record of the stream
    rejected,           \* records refused locally
    boundary,           \* observer: the clock when start_at: end was first fixed
    stops, faults, activateFaults

world == <<startAt, clock, journal>>
bounds == <<stops, faults, activateFaults>>
vars == <<world, saved, spool, cp, pc, pos, rejected, boundary, bounds>>

Positions == 1..MaxRecords
Empty == [cursor |-> 0, since |-> 0, id |-> 0]

Init ==
    /\ startAt \in StartAts /\ clock = 1 /\ journal = <<>>
    /\ saved = Empty /\ cp = Empty
    /\ spool = [n \in Positions |-> "none"] /\ rejected = {}
    /\ pc = "down" /\ pos = 1 /\ boundary = 0
    /\ stops = 0 /\ faults = 0 /\ activateFaults = 0

-----------------------------------------------------------------------------
(* The machine: units log, time passes, the delivery loop empties the spool. *)

Log(k) ==
    /\ Len(journal) < MaxRecords
    /\ journal' = Append(journal, [kind |-> k, at |-> clock])
    /\ UNCHANGED <<startAt, clock, saved, spool, cp, pc, pos, rejected, boundary, bounds>>

Tick ==
    /\ clock < MaxClock /\ clock' = clock + 1
    /\ UNCHANGED <<startAt, journal, saved, spool, cp, pc, pos, rejected, boundary, bounds>>

Deliver(n) ==
    /\ spool[n] = "ready" /\ spool' = [spool EXCEPT ![n] = "delivered"]
    /\ UNCHANGED <<world, saved, cp, pc, pos, rejected, boundary, bounds>>

-----------------------------------------------------------------------------
Goto(p) == pc' = p

\* saveCheckpoint replaces the file and syncs the directory; a failure may come
\* after the rename took effect.
Save(c) == saved' = c /\ UNCHANGED <<faults, activateFaults>>
SaveFails(c) ==
    /\ faults < MaxFaults /\ faults' = faults + 1 /\ saved' \in {saved, c}
    /\ UNCHANGED activateFaults

\* Activate(id): an identity the spool does not hold, or holds ready, is nil.
Activated(n) ==
    spool' = IF n # 0 /\ spool[n] = "unready" THEN [spool EXCEPT ![n] = "ready"] ELSE spool

ActivationFails(n) ==
    /\ n # 0 /\ spool[n] = "unready"
    /\ activateFaults < MaxActivateFaults /\ activateFaults' = activateFaults + 1
    /\ UNCHANGED <<stops, faults>>

\* Reader.Start loads the checkpoint.
Load ==
    /\ pc = "down" /\ cp' = saved /\ Goto("watermark")
    /\ UNCHANGED <<world, saved, spool, pos, rejected, boundary, bounds>>

NeedsWatermark == startAt = "end" /\ cp.cursor = 0 /\ cp.since = 0
Watermark == [cp EXCEPT !.since = clock]

\* Mutation: the selection boundary is taken anew at every start.
SetWatermarkEveryStart ==
    /\ pc = "watermark"
    /\ IF startAt = "end" /\ cp.cursor = 0
         THEN /\ cp' = Watermark /\ Save(Watermark)
              /\ boundary' = IF boundary = 0 THEN clock ELSE boundary
         ELSE UNCHANGED <<cp, saved, boundary, faults, activateFaults>>
    /\ Goto("recover")
    /\ UNCHANGED <<world, spool, pos, rejected, stops>>

\* "a durable initial time watermark", saved before anything is read.
SetWatermark ==
    /\ pc = "watermark"
    /\ IF NeedsWatermark
         THEN cp' = Watermark /\ Save(Watermark) /\ boundary' = clock
         ELSE UNCHANGED <<cp, saved, boundary, faults, activateFaults>>
    /\ Goto("recover")
    /\ UNCHANGED <<world, spool, pos, rejected, stops>>

\* The collector goes on without a source that did not start.
SetWatermarkFails ==
    /\ pc = "watermark" /\ NeedsWatermark
    /\ cp' = Watermark /\ SaveFails(Watermark) /\ Goto("failed")
    /\ boundary' = IF saved' = Watermark THEN clock ELSE boundary
    /\ UNCHANGED <<world, spool, pos, rejected, stops>>


Recover ==
    /\ pc = "recover" /\ Activated(cp.id) /\ Goto("run")
    /\ UNCHANGED <<world, saved, cp, pos, rejected, boundary, bounds>>

\* "journald admission recovery failed"
RecoverFails ==
    /\ pc = "recover" /\ ActivationFails(cp.id) /\ Goto("failed")
    /\ UNCHANGED <<world, saved, spool, cp, pos, rejected, boundary>>

-----------------------------------------------------------------------------
(* run and consume.                                                         *)

\* --since takes whole seconds.
Since == (cp.since \div TicksPerSecond) * TicksPerSecond

\* arguments: --after-cursor, --since, or --lines=all.  --lines=0 is left for
\* start_at: end without a watermark, which Start rules out.
First ==
    IF cp.cursor # 0 THEN cp.cursor + 1
    ELSE IF cp.since > 0 THEN Cardinality({n \in 1..Len(journal) : journal[n].at < Since}) + 1
    ELSE IF startAt = "beginning" THEN 1
    ELSE Len(journal) + 1

Spawn ==
    /\ pc = "run" /\ pos' = First /\ Goto("read")
    /\ UNCHANGED <<world, saved, spool, cp, rejected, boundary, bounds>>

\* journalctl cannot be started, or ends: retry after the delay.  A record that
\* was cut short on the way does not parse, and is not passed.
JournalctlEnds ==
    /\ pc \in {"run", "read"} /\ faults < MaxFaults /\ faults' = faults + 1
    /\ Goto("delay")
    /\ UNCHANGED <<world, saved, spool, cp, pos, rejected, boundary, stops, activateFaults>>

\* retryDelay.  consume has returned, its end of the pipe is closed and
\* journalctl, seeing that, has ended.
Retry ==
    /\ pc = "delay" /\ Goto("run")
    /\ UNCHANGED <<world, saved, spool, cp, pos, rejected, boundary, bounds>>

Record(k) == pc = "read" /\ pos <= Len(journal) /\ journal[pos].kind = k

\* parseRecord refuses: counted, the cursor stays.
Reject ==
    /\ Record("bad")
    /\ rejected' = rejected \cup {pos} /\ pos' = pos + 1
    /\ UNCHANGED <<world, saved, spool, cp, pc, boundary, bounds>>

\* The scanner gives up on a line it cannot buffer; consume returns its error.
TooLong ==
    /\ Record("huge") /\ Goto("delay")
    /\ UNCHANGED <<world, saved, spool, cp, pos, rejected, boundary, bounds>>

Held == {n \in Positions : spool[n] \in {"unready", "ready"}}

\* LogJSON refuses: counted, and admitted without being stored.
AdmitLarge ==
    /\ Record("large")
    /\ rejected' = rejected \cup {pos} /\ Goto("commit")
    /\ UNCHANGED <<world, saved, spool, cp, pos, boundary, bounds>>

\* Mutation: a record is deliverable as soon as it is stored.
AdmitReady ==
    /\ Record("plain") /\ (pos \in Held \/ Cardinality(Held) < MaxItems)
    /\ spool' = IF pos \in Held THEN spool ELSE [spool EXCEPT ![pos] = "ready"]
    /\ Goto("commit")
    /\ UNCHANGED <<world, saved, cp, pos, rejected, boundary, bounds>>

\* PutAdmission: a record the spool holds is found, not stored again.
Admit ==
    /\ Record("plain") /\ (pos \in Held \/ Cardinality(Held) < MaxItems)
    /\ spool' = IF pos \in Held THEN spool ELSE [spool EXCEPT ![pos] = "unready"]
    /\ Goto("commit")
    /\ UNCHANGED <<world, saved, cp, pos, rejected, boundary, bounds>>

\* ErrFull: consume returns, and the record is read again later.
AdmitFull ==
    /\ Record("plain") /\ pos \notin Held /\ Cardinality(Held) >= MaxItems
    /\ Goto("delay")
    /\ UNCHANGED <<world, saved, spool, cp, pos, rejected, boundary, bounds>>

\* Any other error of the spool.
AdmitFails ==
    /\ Record("plain") /\ pos \notin Held
    /\ faults < MaxFaults /\ faults' = faults + 1 /\ Goto("delay")
    /\ UNCHANGED <<world, saved, spool, cp, pos, rejected, boundary, stops, activateFaults>>

Passed == [cursor |-> pos, since |-> 0, id |-> pos]

Commit ==
    /\ pc = "commit"
    /\ cp' = Passed /\ Save(Passed) /\ Goto("activate")
    /\ UNCHANGED <<world, spool, pos, rejected, boundary, stops>>

\* Memory goes back to the old checkpoint, whatever the file holds.
CommitFails ==
    /\ pc = "commit" /\ SaveFails(Passed) /\ Goto("delay")
    /\ UNCHANGED <<world, spool, cp, pos, rejected, boundary, stops>>

Activate ==
    /\ pc = "activate" /\ Activated(cp.id)
    /\ pos' = pos + 1 /\ Goto("read")
    /\ UNCHANGED <<world, saved, cp, rejected, boundary, bounds>>

\* Only the next Start tries again, if the checkpoint still names this record.
ActivateFails ==
    /\ pc = "activate" /\ ActivationFails(cp.id) /\ Goto("delay")
    /\ UNCHANGED <<world, saved, spool, cp, pos, rejected, boundary>>

\* Stop, or kill, wherever the reader is.
Stop ==
    /\ pc # "down" /\ stops < MaxStops /\ stops' = stops + 1
    /\ Goto("down") /\ cp' = Empty
    /\ UNCHANGED <<world, saved, spool, pos, rejected, boundary, faults, activateFaults>>

-----------------------------------------------------------------------------
Reader ==
    \/ Load \/ SetWatermark \/ Recover \/ Spawn \/ Retry
    \/ Reject \/ TooLong \/ AdmitLarge \/ Admit \/ AdmitFull \/ Commit \/ Activate

Fails ==
    \/ SetWatermarkFails \/ RecoverFails \/ JournalctlEnds
    \/ AdmitFails \/ CommitFails \/ ActivateFails

Next ==
    \/ Reader \/ Fails \/ Stop \/ Tick
    \/ \E k \in Kinds : Log(k)
    \/ \E n \in Positions : Deliver(n)

Spec == Init /\ [][Next]_vars

\* The reader's goroutine runs, the agent is started again, and the delivery loop
\* empties the spool (LogsPipeline shows when it does).
FairSpec == Spec /\ WF_vars(Reader) /\ \A n \in Positions : WF_vars(Deliver(n))

-----------------------------------------------------------------------------
(* Properties.                                                              *)

\* What start_at selects: everything, or what was logged since the boundary.
Selected == {n \in 1..Len(journal) : startAt = "beginning" \/ (boundary > 0 /\ journal[n].at >= boundary)}

Settled(n) == n \in rejected \/ spool[n] \in {"ready", "delivered"}

Checkpoints == [cursor : 0..MaxRecords, since : 0..MaxClock, id : 0..MaxRecords]

\* The type of the variables; a checkpoint names the record of its cursor.
TypeOK ==
    /\ startAt \in StartAts /\ clock \in 1..MaxClock
    /\ journal \in Seq([kind : Kinds, at : 1..MaxClock]) /\ Len(journal) <= MaxRecords
    /\ saved \in Checkpoints /\ saved.id = saved.cursor
    /\ cp \in Checkpoints /\ cp.id = cp.cursor
    /\ spool \in [Positions -> {"none", "unready", "ready", "delivered"}]
    /\ pc \in {"down", "failed", "watermark", "recover", "run", "read", "commit", "activate", "delay"}
    /\ pos \in 1..(MaxRecords + 1) /\ rejected \subseteq Positions /\ boundary \in 0..MaxClock
    /\ stops \in Nat /\ faults \in Nat /\ activateFaults \in Nat

\* "it preserves the selection boundary so a crash before the first admitted
\* record cannot skip that record": the cursor on disk never passes a selected
\* record that is neither in the spool, nor delivered, nor refused locally.
NoSkippedRecord ==
    \A n \in Selected : n <= saved.cursor => n \in rejected \/ spool[n] # "none"

\* A record that was delivered is never admitted again: journalctl started again
\* after any failure goes on behind what was committed.
DeliveredOnce == [][\A n \in Positions : spool[n] = "delivered" => spool'[n] = "delivered"]_vars

\* "Oversized and empty records are rejected locally and counted", and the reader
\* "retries with a bounded delay": every record start_at selects is deliverable
\* or refused in the end.
EveryRecordSettled == \A n \in Positions : n \in Selected ~> Settled(n)


-----------------------------------------------------------------------------
(* The inductive invariant behind the safety properties.                    *)

Accounted(n) == n \in rejected \/ spool[n] # "none"

\* The journal is in the order of its time stamps.
JournalInv ==
    /\ \A n \in 1..Len(journal) : journal[n].at <= clock
    /\ \A m, n \in 1..Len(journal) : m < n => journal[m].at <= journal[n].at

\* A watermark is the boundary, only start_at: end has one, and the reader has it
\* before it reads.
BoundaryInv ==
    /\ saved.since > 0 => startAt = "end" /\ saved.cursor = 0 /\ saved.since = boundary
    /\ pc \notin {"down", "failed"} /\ cp.since > 0 =>
          startAt = "end" /\ cp.cursor = 0 /\ cp.since = boundary
    /\ pc \notin {"down", "failed", "watermark"} => ~NeedsWatermark

\* The cursor on disk is not behind the one in memory; the stream is ahead of
\* both, and everything it has passed is accounted for.
StreamInv ==
    /\ saved.cursor <= Len(journal)
    /\ pc = "watermark" => cp = saved
    /\ pc # "down" => cp.cursor <= saved.cursor
    /\ pc \in {"read", "commit"} => /\ cp.cursor < pos /\ pos <= Len(journal) + 1
                                    /\ \A n \in Selected : n < pos => Accounted(n)
    /\ pc = "commit" => pos <= Len(journal) /\ Accounted(pos)
    /\ pc = "activate" => cp.cursor = pos

\* What is or was deliverable is behind the cursors.
ReadyInv ==
    \A n \in Positions : spool[n] \in {"ready", "delivered"} =>
        n <= saved.cursor /\ (pc # "down" => n <= cp.cursor)

JInv == TypeOK /\ JournalInv /\ BoundaryInv /\ StreamInv /\ ReadyInv /\ NoSkippedRecord

=============================================================================
