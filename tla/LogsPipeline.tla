---------------------------- MODULE LogsPipeline ----------------------------
(***************************************************************************)
(* The Logs capability end to end: file tailers and the journald reader    *)
(* (internal/logtail, internal/journaltail) admit records to the spool,    *)
(* commit their checkpoint, then activate the record; the delivery loop of *)
(* internal/collectors/logs_linux.go sends the spool's head and            *)
(* acknowledges it.                                                        *)
(*                                                                         *)
(* Every spool operation is one step here: it runs under q.mu and returns  *)
(* after its fsync.  LogSpool opens those steps up.  Sources and the       *)
(* delivery loop are goroutines, so everything between two operations      *)
(* interleaves, and the process may be stopped or killed anywhere.         *)
(***************************************************************************)
EXTENDS Integers, FiniteSets

CONSTANTS
    Files,          \* file sources, one followed file each, single-line mode
    Journals,       \* journald sources (the agent has at most one)
    Lines,          \* every source holds the lines 1..Lines
    Rejected,       \* <<source, line>> refused locally (empty or oversized)
    MaxItems,       \* queue_items
    BackendRefuses, \* whether the backend may refuse for good (401, 403, 4xx)
    MaxStops,       \* bound: stops and crashes
    MaxCommitErrors,\* bound: failing checkpoint writes
    MaxReadErrors   \* bound: activations that cannot read the record

Sources == Files \cup Journals
Records == {r \in Sources \X (1..Lines) : r \notin Rejected}

ASSUME PipelineAssumption ==
    /\ Files \cap Journals = {} /\ Lines \in Nat /\ MaxItems \in Nat \ {0}
    /\ Rejected \subseteq Files \X (1..Lines)
    /\ BackendRefuses \in BOOLEAN
    /\ MaxStops \in Nat /\ MaxCommitErrors \in Nat /\ MaxReadErrors \in Nat

VARIABLES
    spool,      \* on disk: status of each record, "none", "unready", "ready"
    number,     \* on disk: the sequence number each spooled record was given
    next,       \* on disk: the next sequence number
    saved,      \* on disk: each source's checkpoint
    checkpoint, \* in memory: the checkpoint each source works from
    pc,         \* where each source's goroutine is
    loop, held, \* the delivery loop, and the record it is sending
    delivered,  \* records the backend has accepted at least once
    refused,    \* the backend refused a record for good
    stops, commitErrors, readErrors

disk == <<spool, number, next>>
backend == <<delivered, refused>>
bounds == <<stops, commitErrors, readErrors>>
vars == <<disk, saved, checkpoint, pc, loop, held, backend, bounds>>

\* A checkpoint is the number of lines passed and the line whose admission it
\* records, 0 for the empty AdmissionID.
NoCheckpoint == [offset |-> 0, id |-> 0]

Held == {r \in Records : spool[r] # "none"}
Ready == {r \in Records : spool[r] = "ready"}

\* Mutation: any ready record will do.
IsAnyReady(r) == r \in Ready

IsHead(r) == r \in Ready /\ \A q \in Ready : number[r] <= number[q]

Init ==
    /\ spool = [r \in Records |-> "none"] /\ number = [r \in Records |-> 0]
    /\ next = 1
    /\ saved = [s \in Sources |-> NoCheckpoint] /\ checkpoint = saved
    /\ pc = [s \in Sources |-> "down"]
    /\ loop = "next" /\ held \in Records
    /\ delivered = {} /\ refused = FALSE
    /\ stops = 0 /\ commitErrors = 0 /\ readErrors = 0

-----------------------------------------------------------------------------
(* A source.  The line it is about to pass is the one after its checkpoint. *)

Line(s) == <<s, checkpoint[s].offset + 1>>

Left(s) == checkpoint[s].offset < Lines
Goto(s, p) == pc' = [pc EXCEPT ![s] = p]

\* Mutation: journalctl is not started again after an error.
AgainFiles(s) == IF s \in Files THEN "recover" ELSE "failed"

\* After an error a tailer waits for its next poll, which recovers first; the
\* journald reader starts journalctl again and reads on.
Again(s) == IF s \in Files THEN "recover" ELSE "read"

\* Activate(id): an identity the spool does not hold, or holds ready, is nil.
Activated(s, n) ==
    spool' = IF n # 0 /\ <<s, n>> \in Held THEN [spool EXCEPT ![<<s, n>>] = "ready"] ELSE spool

Unready(s, n) == n # 0 /\ <<s, n>> \in Records /\ spool[<<s, n>>] = "unready"

ReadFails(s, n) ==
    /\ Unready(s, n) /\ readErrors < MaxReadErrors
    /\ readErrors' = readErrors + 1

\* Tailer.Start and Reader.Start: load the checkpoint, activate its admission.
Start(s) ==
    /\ pc[s] = "down"
    /\ checkpoint' = [checkpoint EXCEPT ![s] = saved[s]]
    /\ Goto(s, "recover")
    /\ UNCHANGED <<disk, saved, loop, held, backend, bounds>>

\* recoverAdmissions, at Start and at every poll; Reader.Start only.
Recover(s) ==
    /\ pc[s] = "recover"
    /\ Activated(s, checkpoint[s].id)
    /\ Goto(s, "read")
    /\ UNCHANGED <<number, next, saved, checkpoint, loop, held, backend, bounds>>

\* A tailer ignores the error; the journald reader refuses to start.
RecoverFails(s) ==
    /\ pc[s] = "recover" /\ ReadFails(s, checkpoint[s].id)
    /\ Goto(s, IF s \in Files THEN "read" ELSE "failed")
    /\ UNCHANGED <<disk, saved, checkpoint, loop, held, backend, stops, commitErrors>>

\* PutAdmission: a record the spool holds is found, not stored again.
Admit(s) ==
    /\ pc[s] = "read" /\ Left(s) /\ Line(s) \in Records
    /\ \/ Line(s) \in Held /\ UNCHANGED disk
       \/ /\ Line(s) \notin Held /\ Cardinality(Held) < MaxItems
          /\ spool' = [spool EXCEPT ![Line(s)] = "unready"]
          /\ number' = [number EXCEPT ![Line(s)] = next] /\ next' = next + 1
    /\ Goto(s, "commit")
    /\ UNCHANGED <<saved, checkpoint, loop, held, backend, bounds>>

\* ErrFull: the line stays unread.
AdmitFull(s) ==
    /\ pc[s] = "read" /\ Left(s) /\ Line(s) \in Records \ Held
    /\ Cardinality(Held) >= MaxItems
    /\ Goto(s, Again(s))
    /\ UNCHANGED <<disk, saved, checkpoint, loop, held, backend, bounds>>

\* A tailer that reached the end of its file polls again.
EndOfFile(s) ==
    /\ pc[s] = "read" /\ ~Left(s) /\ s \in Files
    /\ Goto(s, "recover")
    /\ UNCHANGED <<disk, saved, checkpoint, loop, held, backend, bounds>>

\* An empty or oversized line is passed with an empty admission.
Reject(s) ==
    /\ pc[s] = "read" /\ Left(s) /\ Line(s) \notin Records
    /\ Goto(s, "commit")
    /\ UNCHANGED <<disk, saved, checkpoint, loop, held, backend, bounds>>

\* Mutation: the checkpoint does not name its admission.
PassedUnnamed(s) == [offset |-> Line(s)[2], id |-> 0]

Passed(s) ==
    [offset |-> Line(s)[2], id |-> IF Line(s) \in Records THEN Line(s)[2] ELSE 0]

\* commit: the checkpoint is replaced atomically and fsynced.
Commit(s) ==
    /\ pc[s] = "commit"
    /\ checkpoint' = [checkpoint EXCEPT ![s] = Passed(s)]
    /\ saved' = [saved EXCEPT ![s] = Passed(s)]
    /\ Goto(s, IF Line(s) \in Records THEN "activate" ELSE "read")
    /\ UNCHANGED <<disk, loop, held, backend, bounds>>

\* The write fails, before or after the rename took effect; memory is restored.
CommitFails(s) ==
    /\ pc[s] = "commit" /\ commitErrors < MaxCommitErrors
    /\ commitErrors' = commitErrors + 1
    /\ saved' \in {saved, [saved EXCEPT ![s] = Passed(s)]}
    /\ Goto(s, Again(s))
    /\ UNCHANGED <<disk, checkpoint, loop, held, backend, stops, readErrors>>

Activate(s) ==
    /\ pc[s] = "activate"
    /\ Activated(s, checkpoint[s].id)
    /\ Goto(s, "read")
    /\ UNCHANGED <<number, next, saved, checkpoint, loop, held, backend, bounds>>

ActivateFails(s) ==
    /\ pc[s] = "activate" /\ ReadFails(s, checkpoint[s].id)
    /\ Goto(s, Again(s))
    /\ UNCHANGED <<disk, saved, checkpoint, loop, held, backend, stops, commitErrors>>

-----------------------------------------------------------------------------
(* The delivery loop.                                                       *)

DeliverNext ==
    /\ loop = "next"
    /\ \E r \in Records : IsHead(r) /\ held' = r
    /\ loop' = "send"
    /\ UNCHANGED <<disk, saved, checkpoint, pc, backend, bounds>>

SendAccepted ==
    /\ loop = "send"
    /\ delivered' = delivered \cup {held} /\ loop' = "ack"
    /\ UNCHANGED <<disk, saved, checkpoint, pc, held, refused, bounds>>

\* Mutation: an exhausted send is acknowledged all the same.
SendExhaustedAcks ==
    /\ loop = "send"
    /\ delivered' \in {delivered, delivered \cup {held}} /\ loop' = "ack"
    /\ UNCHANGED <<disk, saved, checkpoint, pc, held, refused, bounds>>

\* Attempts are exhausted; a lost response may have been an acceptance.
SendExhausted ==
    /\ loop = "send"
    /\ delivered' \in {delivered, delivered \cup {held}} /\ loop' = "next"
    /\ UNCHANGED <<disk, saved, checkpoint, pc, held, refused, bounds>>

SendRefused ==
    /\ loop = "send" /\ BackendRefuses
    /\ refused' = TRUE /\ loop' = "blocked"
    /\ UNCHANGED <<disk, saved, checkpoint, pc, held, delivered, bounds>>

Ack ==
    /\ loop = "ack" /\ IsHead(held)
    /\ spool' = [spool EXCEPT ![held] = "none"]
    /\ loop' = "next"
    /\ UNCHANGED <<number, next, saved, checkpoint, pc, held, backend, bounds>>

\* "logs receipt is not current FIFO head": blocked, and the loop returns.
AckRefused ==
    /\ loop = "ack" /\ ~IsHead(held)
    /\ loop' = "blocked"
    /\ UNCHANGED <<disk, saved, checkpoint, pc, held, backend, bounds>>

\* Stop and kill alike keep the files and lose the rest; Start opens the spool
\* and launches the delivery loop before the sources.
Restart ==
    /\ stops < MaxStops /\ stops' = stops + 1
    /\ pc' = [s \in Sources |-> "down"] /\ loop' = "next"
    /\ checkpoint' = [s \in Sources |-> NoCheckpoint]
    /\ UNCHANGED <<disk, saved, held, backend, commitErrors, readErrors>>

-----------------------------------------------------------------------------
Source(s) ==
    \/ Start(s) \/ Recover(s) \/ Admit(s) \/ AdmitFull(s)
    \/ EndOfFile(s) \/ Reject(s) \/ Commit(s) \/ Activate(s)
SourceFails(s) == RecoverFails(s) \/ CommitFails(s) \/ ActivateFails(s)
Deliver == DeliverNext \/ SendAccepted \/ Ack \/ AckRefused

Next ==
    \/ \E s \in Sources : Source(s) \/ SourceFails(s)
    \/ Deliver \/ SendExhausted \/ SendRefused
    \/ Restart

Spec == Init /\ [][Next]_vars

\* Goroutines that can run do, and the backend does not fail for ever: a send
\* that is tried again and again is accepted.
Fairness ==
    /\ \A s \in Sources : WF_vars(Source(s))
    /\ WF_vars(Deliver) /\ SF_vars(SendAccepted)

FairSpec == Spec /\ Fairness

-----------------------------------------------------------------------------
(* Properties.                                                              *)

\* The type of every variable.
TypeOK ==
    /\ spool \in [Records -> {"none", "unready", "ready"}]
    /\ number \in [Records -> Nat] /\ next \in Nat \ {0}
    /\ saved \in [Sources -> [offset : 0..Lines, id : 0..Lines]]
    /\ checkpoint \in [Sources -> [offset : 0..Lines, id : 0..Lines]]
    /\ pc \in [Sources -> {"down", "recover", "read", "commit", "activate", "failed"}]
    /\ loop \in {"next", "send", "ack", "blocked"} /\ held \in Records
    /\ delivered \subseteq Records /\ refused \in BOOLEAN
    /\ stops \in Nat /\ commitErrors \in Nat /\ readErrors \in Nat

\* What the sources' checkpoints on disk have passed.
Committed == {r \in Records : r[2] <= saved[r[1]].offset}

Promise == INSTANCE AtLeastOnce WITH
    taken <- Committed,
    pending <- {r \in Committed : spool[r] # "none" /\ r \notin delivered}

\* At-least-once across stops, kills, failing checkpoint writes and lost answers:
\* a checkpoint passes a record only when the spool holds it, a record passed
\* stays in the spool until the backend has it, and nothing reaches the backend
\* before its checkpoint is on disk, so that no restart admits it again.
ImplementsAtLeastOnce == Promise!Spec

Queue == INSTANCE DurableQueue WITH
    Admissions <- Records,
    pos <- [r \in Records |-> IF spool[r] = "none" THEN 0 ELSE number[r]],
    ready <- Ready,
    promise <- [r \in Records |-> IF spool[r] = "unready" THEN "stored" ELSE spool[r]],
    damaged <- {}, leaving <- {}

\* The atomic spool of this module is the queue that LogSpool implements file by
\* file: every step here is one the callers of a LogDisk can observe.
ImplementsQueue == Queue!Spec

\* Unless an activation could not read its record, a committed record that is
\* not deliverable yet is the one its source's checkpoint names, so the next
\* recovery activates it.
NothingStranded ==
    readErrors = 0 => \A r \in Records :
        spool[r] = "unready" /\ r[2] <= saved[r[1]].offset => saved[r[1]].id = r[2]

\* Unless an activation could not read its record, the lines of one source are
\* first delivered in their order in the file.
InOrderPerSource ==
    readErrors = 0 => \A r \in delivered, q \in Records :
        q[1] = r[1] /\ q[2] < r[2] => q \in delivered

\* The delivery path stops only on what the backend answered.
StopsOnlyWhenRefused == loop = "blocked" => refused

\* Every line is delivered, across restarts and failing checkpoint writes, unless
\* the delivery path stops for good or an activation could not read its record.
EveryLineDelivered ==
    \A r \in Records : <>(r \in delivered) \/ <>[](loop = "blocked") \/ <>(readErrors > 0)

-----------------------------------------------------------------------------
(* The inductive invariant behind the properties above.                     *)

Running(s) == pc[s] # "down"

\* A checkpoint names the last line it passed, or nothing.
NamesItsLine(c) == c.id \in {0, c.offset}

\* The checkpoint on disk is the one in memory, or one line ahead of it: a write
\* that reported a failure may have taken effect.
CheckpointInv ==
    \A s \in Sources :
        /\ NamesItsLine(saved[s])
        /\ Running(s) => /\ NamesItsLine(checkpoint[s])
                         /\ \/ saved[s] = checkpoint[s]
                            \/ pc[s] # "activate" /\ Left(s) /\ saved[s] = Passed(s)
        /\ pc[s] = "commit" => Left(s) /\ (Line(s) \in Records => Line(s) \in Held)

\* The spool holds at most one line past a checkpoint; what is or was deliverable
\* is behind both checkpoints; what is behind is in the spool or delivered.
SpoolInv ==
    \A r \in Records :
        /\ r \in Held => /\ number[r] \in 1..(next - 1) /\ r[2] <= saved[r[1]].offset + 1
                         /\ Running(r[1]) => r[2] <= checkpoint[r[1]].offset + 1
        /\ r \in Ready \cup delivered => /\ r[2] <= saved[r[1]].offset
                                         /\ Running(r[1]) => r[2] <= checkpoint[r[1]].offset
        /\ r[2] <= saved[r[1]].offset => r \in Held \cup delivered

\* The spool's order is the order of each source's lines.
OrderInv ==
    \A q, r \in Held : q[1] = r[1] /\ q[2] < r[2] => number[q] < number[r]

\* Unless an activation failed, only the line that the checkpoint in memory names
\* waits for its activation, and its source is about to do it.
StrandInv ==
    readErrors = 0 => \A r \in Records :
        Running(r[1]) /\ spool[r] = "unready" /\ r[2] <= checkpoint[r[1]].offset
            => pc[r[1]] \in {"recover", "activate"} /\ checkpoint[r[1]].id = r[2]

\* The record being sent is deliverable, and its turn has come.
LoopInv ==
    /\ loop \in {"send", "ack"} => held \in Ready
    /\ loop = "ack" => held \in delivered
    /\ loop \in {"send", "ack"} /\ readErrors = 0 =>
          \A q \in Records : q[1] = held[1] /\ q[2] < held[2] => q \in delivered

PInv ==
    /\ TypeOK /\ CheckpointInv /\ SpoolInv /\ OrderInv /\ NothingStranded
    /\ StrandInv /\ LoopInv /\ InOrderPerSource

=============================================================================
