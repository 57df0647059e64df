---------------------------- MODULE MetricsSpool ----------------------------
(***************************************************************************)
(* The Metrics spool (internal/queue/disk_linux.go, Disk), the migration   *)
(* of its scope from v1 to v2 (migration_linux.go), and the scrape and     *)
(* delivery goroutines that use it (internal/collectors/metrics.go).       *)
(*                                                                         *)
(* As in LogSpool, `disk' is the directory the process sees, `durable'     *)
(* what the last fsync of it made permanent, and an operation that holds   *)
(* q.mu is taken apart at its file operations.  Between runs of the agent  *)
(* its operator may upgrade it, change the endpoint, or point it at        *)
(* another tenant: `opener' is the configuration of the run.               *)
(***************************************************************************)
EXTENDS Integers, FiniteSets, Functions

CONSTANTS
    Openers,    \* configurations: [v2, hash, legacy], see OpenersAssumption
    NoFile, Torn,
    Cost,       \* charge of each batch, in 4096-byte units
    MaxItems, MaxBytes,
    Reserve,    \* further units a v2 opener sets aside
    MaxBatches, MaxCrashes, MaxFaults   \* bounds

Batches == 1..MaxBatches

\* hash is Scope.Hash, legacy the hash of the previous endpoint and the host.
ASSUME OpenersAssumption ==
    /\ \A o \in Openers : o.v2 \in BOOLEAN /\ o.hash # o.legacy
    /\ Cost \in [Batches -> Nat \ {0}]
    /\ MaxItems \in Nat \ {0} /\ MaxBytes \in Nat /\ Reserve \in Nat
    /\ MaxBatches \in Nat \ {0} /\ MaxCrashes \in Nat /\ MaxFaults \in Nat

VARIABLES
    disk, durable,
    manifest, names, bytes, count, closed, wake,  \* q
    op, step, target, seq, cur, opener,           \* the operation that holds q.mu
    consumer, held, blocked,                      \* the delivery loop, m.blocked
    scraping,                                     \* a scrape is offering its batches
    offered,                                      \* batches built so far
    accepted, delivered, damaged,                 \* Put returned; the backend took
                                                  \* it; its file became unreadable
    tenants,                                      \* v2 scopes that were opened
    crashes, faults

memory == <<manifest, names, bytes, count, closed, wake>>
running == <<op, step, target, seq, cur, opener>>
loop == <<consumer, held, blocked, scraping>>
history == <<offered, accepted, delivered, damaged, tenants>>
bounds == <<crashes, faults>>
vars == <<disk, durable, memory, running, loop, history, bounds>>

-----------------------------------------------------------------------------
(* The directory.  A manifest copy is a control record, Torn (unreadable)   *)
(* or NoFile; a record that decodes has ok = TRUE.                          *)

Hashes == {o.hash : o \in Openers} \cup {o.legacy : o \in Openers}
Control == [ver : 1..2, scope : Hashes, next : 1..(MaxBatches + 1)]
Journal == [old : Hashes, new : Hashes, next : 1..(MaxBatches + 1)]
Stages == {"journal", "backup", "primary"}
Records == [batch : Batches, ok : BOOLEAN]

\* Neither stands for a file that has contents.
ASSUME FilesAssumption ==
    /\ NoFile # Torn
    /\ {NoFile, Torn} \cap (Control \cup Journal \cup Records) = {}

EmptyDir ==
    [primary |-> NoFile, backup |-> NoFile, journal |-> NoFile, pending |-> FALSE,
     stage |-> [t \in Stages |-> NoFile],
     recs |-> [s \in Batches |-> NoFile], bad |-> {}]

Stored(d) == {s \in Batches : d.recs[s] # NoFile}
Numbers(d) == Stored(d) \cup {r.seq : r \in d.bad}
Holds(d, b) == \E s \in Stored(d) : d.recs[s].batch = b

\* Mutation: the newest record is taken for the head.
HeadNewest(ns) == CHOOSE s \in ns : \A t \in ns : t <= s

\* q.names is sorted.
Head(ns) == CHOOSE s \in ns : \A t \in ns : s <= t
Valid(m) == m \notin {NoFile, Torn}

NoManifest == [ver |-> 1, scope |-> CHOOSE h \in Hashes : TRUE, next |-> 1]

Init ==
    /\ disk = EmptyDir /\ durable = EmptyDir
    /\ manifest = NoManifest /\ names = {} /\ bytes = 0 /\ count = 0
    /\ closed = FALSE /\ wake = FALSE
    /\ op = "down" /\ step = "none" /\ target = "none" /\ seq = 1 /\ cur = 1
    /\ opener \in Openers
    /\ consumer = "stopped" /\ held = 0 /\ blocked = FALSE /\ scraping = FALSE
    /\ offered = 0 /\ accepted = {} /\ delivered = {} /\ damaged = {} /\ tenants = {}
    /\ crashes = 0 /\ faults = 0

Idle == op = "idle"
Up == op \in {"idle", "put", "ack", "quarantine"}
Goto(o, s) == op' = o /\ step' = s

-----------------------------------------------------------------------------
(* write: .pending is created, written and fsynced, renamed to its target,  *)
(* and the directory fsynced.  saveManifest writes the backup first.        *)

Stage(t) == disk' = [disk EXCEPT !.pending = TRUE] /\ target' = t /\ step' = "rename"

Placed(d, t) ==
    CASE t = "backup" -> [d EXCEPT !.backup = manifest]
      [] t = "primary" -> [d EXCEPT !.primary = manifest]
      [] t = "record" -> [d EXCEPT !.recs[seq] = [batch |-> cur, ok |-> TRUE]]

Rename ==
    /\ op \in {"put", "open"} /\ step = "rename"
    /\ disk' = [Placed(disk, target) EXCEPT !.pending = FALSE]
    /\ step' = "sync"
    /\ UNCHANGED <<durable, memory, op, target, seq, cur, opener, loop, history, bounds>>

\* The backup is in place; the primary copy is next.
SavePrimary ==
    /\ op \in {"put", "open"} /\ step = "sync" /\ target = "backup"
    /\ durable' = disk /\ Stage("primary")
    /\ UNCHANGED <<memory, op, seq, cur, opener, loop, history, bounds>>

-----------------------------------------------------------------------------
(* scrape: Put for each of its batches.                                     *)

\* The one look at m.blocked, before what the scrape reads is put into batches; a
\* scrape goes on although delivery is paused meanwhile.
ScrapeBegin ==
    /\ Up /\ ~scraping /\ ~blocked /\ offered < MaxBatches
    /\ scraping' = TRUE
    /\ UNCHANGED <<disk, durable, memory, running, consumer, held, blocked, history, bounds>>

\* There is no further batch.
ScrapeEnd ==
    /\ scraping /\ op # "put"
    /\ scraping' = FALSE
    /\ UNCHANGED <<disk, durable, memory, running, consumer, held, blocked, history, bounds>>

\* Mutation: the byte limit is off by one.
FitsOneMore(b) == count < MaxItems /\ bytes + Cost[b] <= MaxBytes + 1

Fits(b) == count < MaxItems /\ bytes + Cost[b] <= MaxBytes

\* Mutation: a receipt number is skipped.
PutBeginSkips ==
    /\ Idle /\ scraping /\ ~closed /\ offered < MaxBatches
    /\ Fits(offered + 1)
    /\ offered' = offered + 1 /\ cur' = offered + 1
    /\ seq' = manifest.next /\ manifest' = [manifest EXCEPT !.next = @ + 2]
    /\ op' = "put" /\ Stage("backup")
    /\ UNCHANGED <<durable, names, bytes, count, closed, wake, opener, loop,
                   accepted, delivered, damaged, tenants, bounds>>

\* Mutation: only the primary copy of the manifest is saved.
PutBeginPrimary ==
    /\ Idle /\ scraping /\ ~closed /\ offered < MaxBatches
    /\ Fits(offered + 1)
    /\ offered' = offered + 1 /\ cur' = offered + 1
    /\ seq' = manifest.next /\ manifest' = [manifest EXCEPT !.next = @ + 1]
    /\ op' = "put" /\ Stage("primary")
    /\ UNCHANGED <<durable, names, bytes, count, closed, wake, opener, loop,
                   accepted, delivered, damaged, tenants, bounds>>

PutBegin ==
    /\ Idle /\ scraping /\ ~closed /\ offered < MaxBatches
    /\ Fits(offered + 1)
    /\ offered' = offered + 1 /\ cur' = offered + 1
    /\ seq' = manifest.next /\ manifest' = [manifest EXCEPT !.next = @ + 1]
    /\ op' = "put" /\ Stage("backup")
    /\ UNCHANGED <<durable, names, bytes, count, closed, wake, opener, loop,
                   accepted, delivered, damaged, tenants, bounds>>

\* ErrFull: reject_new drops the batch and keeps what is stored.
PutFull ==
    /\ Idle /\ scraping /\ ~closed /\ offered < MaxBatches
    /\ ~Fits(offered + 1)
    /\ offered' = offered + 1
    /\ UNCHANGED <<disk, durable, memory, running, loop, accepted, delivered, damaged,
                   tenants, bounds>>

\* The spool was closed by a failed acknowledgement: the scrape is over.
PutClosed ==
    /\ Idle /\ scraping /\ closed /\ offered < MaxBatches
    /\ offered' = offered + 1
    /\ blocked' = TRUE /\ scraping' = FALSE
    /\ UNCHANGED <<disk, durable, memory, running, consumer, held, accepted, delivered, damaged,
                   tenants, bounds>>

PutRecord ==
    /\ op = "put" /\ step = "sync" /\ target = "primary"
    /\ durable' = disk /\ Stage("record")
    /\ UNCHANGED <<memory, op, seq, cur, opener, loop, history, bounds>>

\* Mutation: the receipt is returned before the directory is fsynced.
PutReturnUnsynced ==
    /\ op = "put" /\ step = "sync" /\ target = "record"
    /\ names' = names \cup {seq} /\ count' = count + 1 /\ bytes' = bytes + Cost[cur]
    /\ wake' = TRUE /\ accepted' = accepted \cup {cur}
    /\ Goto("idle", "none")
    /\ UNCHANGED <<disk, durable, manifest, closed, target, seq, cur, opener, loop, offered,
                   delivered, damaged, tenants, bounds>>

\* Mutation: the send on q.wake is forgotten.
PutReturnSilent ==
    /\ op = "put" /\ step = "sync" /\ target = "record"
    /\ durable' = disk
    /\ names' = names \cup {seq} /\ count' = count + 1 /\ bytes' = bytes + Cost[cur]
    /\ accepted' = accepted \cup {cur}
    /\ Goto("idle", "none")
    /\ UNCHANGED <<disk, manifest, closed, wake, target, seq, cur, opener, loop, offered,
                   delivered, damaged, tenants, bounds>>

PutReturn ==
    /\ op = "put" /\ step = "sync" /\ target = "record"
    /\ durable' = disk
    /\ names' = names \cup {seq} /\ count' = count + 1 /\ bytes' = bytes + Cost[cur]
    /\ wake' = TRUE /\ accepted' = accepted \cup {cur}
    /\ Goto("idle", "none")
    /\ UNCHANGED <<disk, manifest, closed, target, seq, cur, opener, loop, offered,
                   delivered, damaged, tenants, bounds>>

\* A file operation fails: the spool closes, .pending is removed, and the
\* collector blocks.
PutFails ==
    /\ op = "put" /\ faults < MaxFaults /\ faults' = faults + 1
    /\ disk' = [disk EXCEPT !.pending = FALSE]
    /\ closed' = TRUE /\ blocked' = TRUE /\ scraping' = FALSE /\ Goto("idle", "none")
    /\ UNCHANGED <<durable, manifest, names, bytes, count, wake, target, seq, cur, opener,
                   consumer, held, history, crashes>>

-----------------------------------------------------------------------------
(* The delivery loop: Next, Send, Ack.                                      *)

HeadFile == disk.recs[Head(names)]
Quarantine(d, s) == [d EXCEPT !.recs[s] = NoFile, !.bad = @ \cup {[seq |-> s, batch |-> d.recs[s].batch]}]

\* The loop ends, and no further scrape begins until a restart.
Pause == consumer' = "stopped" /\ blocked' = TRUE

NextReturns ==
    /\ Idle /\ consumer = "check" /\ ~closed /\ names # {} /\ HeadFile.ok
    /\ consumer' = "holds" /\ held' = Head(names)
    /\ UNCHANGED <<disk, durable, memory, running, blocked, scraping, history, bounds>>

\* The head is renamed aside; it keeps its place in both limits.
NextQuarantines ==
    /\ Idle /\ consumer = "check" /\ ~closed /\ names # {} /\ ~HeadFile.ok
    /\ disk' = Quarantine(disk, Head(names)) /\ Goto("quarantine", "sync")
    /\ UNCHANGED <<durable, memory, target, seq, cur, opener, loop, history, bounds>>

QuarantineReturn ==
    /\ op = "quarantine"
    /\ durable' = disk /\ names' = names \ {Head(names)} /\ Goto("idle", "none")
    /\ UNCHANGED <<disk, manifest, bytes, count, closed, wake, target, seq, cur, opener, loop,
                   history, bounds>>

QuarantineFails ==
    /\ op = "quarantine" /\ faults < MaxFaults /\ faults' = faults + 1
    /\ Pause /\ Goto("idle", "none")
    /\ UNCHANGED <<disk, durable, memory, target, seq, cur, opener, held, scraping, history,
                   crashes>>

NextWaits ==
    /\ Idle /\ consumer = "check" /\ ~closed /\ names = {}
    /\ consumer' = "wait"
    /\ UNCHANGED <<disk, durable, memory, running, held, blocked, scraping, history, bounds>>

NextWoken ==
    /\ consumer = "wait" /\ wake
    /\ wake' = FALSE /\ consumer' = "check"
    /\ UNCHANGED <<disk, durable, manifest, names, bytes, count, closed, running, held,
                   blocked, scraping, history, bounds>>

NextClosed ==
    /\ Idle /\ consumer = "check" /\ closed
    /\ Pause
    /\ UNCHANGED <<disk, durable, memory, running, held, scraping, history, bounds>>

\* The batch that was read when the item was peeked.
Sending == disk.recs[held].batch

SendAccepted ==
    /\ consumer = "holds"
    /\ delivered' = delivered \cup {Sending} /\ consumer' = "acks"
    /\ UNCHANGED <<disk, durable, memory, running, held, blocked, scraping, offered, accepted,
                   damaged, tenants, bounds>>

\* Attempts exhausted; a lost response may have been an acceptance.
SendExhausted ==
    /\ consumer = "holds"
    /\ delivered' \in {delivered, delivered \cup {Sending}} /\ consumer' = "check"
    /\ UNCHANGED <<disk, durable, memory, running, held, blocked, scraping, offered, accepted,
                   damaged, tenants, bounds>>

\* Unauthorized or Rejected, partial success included: the batch is retained.
SendRefused ==
    /\ consumer = "holds" /\ Pause
    /\ UNCHANGED <<disk, durable, memory, running, held, scraping, history, bounds>>

AckAllowed == ~closed /\ names # {} /\ held = Head(names)

AckRemoves ==
    /\ Idle /\ consumer = "acks" /\ AckAllowed
    /\ disk' = [disk EXCEPT !.recs[held] = NoFile]
    /\ cur' = disk.recs[held].batch /\ Goto("ack", "sync")
    /\ UNCHANGED <<durable, memory, target, seq, opener, loop, history, bounds>>

AckReturn ==
    /\ op = "ack"
    /\ durable' = disk
    /\ names' = names \ {held} /\ count' = count - 1 /\ bytes' = bytes - Cost[cur]
    /\ consumer' = "check" /\ Goto("idle", "none")
    /\ UNCHANGED <<disk, manifest, closed, wake, target, seq, cur, opener, held, blocked, scraping,
                   history, bounds>>

\* The directory fsync fails.
AckFails ==
    /\ op = "ack" /\ faults < MaxFaults /\ faults' = faults + 1
    /\ closed' = TRUE /\ Pause /\ Goto("idle", "none")
    /\ UNCHANGED <<disk, durable, manifest, names, bytes, count, wake, target, seq, cur, opener,
                   held, scraping, history, crashes>>

\* Closed, or not the FIFO head.
AckRefused ==
    /\ Idle /\ consumer = "acks" /\ ~AckAllowed
    /\ Pause
    /\ UNCHANGED <<disk, durable, memory, running, held, scraping, history, bounds>>

-----------------------------------------------------------------------------
(* openDisk: loadManifest, a migration or what is left of one, the scan.    *)

OpenTo(s) == step' = s /\ UNCHANGED <<op, target, seq, cur, opener>>

OpenBegin(o) ==
    /\ op \in {"down", "refused"}
    /\ opener' = o /\ Goto("open", "control") /\ target' = "none"
    /\ UNCHANGED <<disk, durable, memory, seq, cur, loop, history, bounds>>

AtControl == op = "open" /\ step = "control" /\ ~(opener.v2 /\ disk.pending)

\* manifest.json, or the backup when that is missing or unreadable.
Raw == IF Valid(disk.primary) THEN disk.primary ELSE disk.backup

OnlyLock == disk = EmptyDir

\* A directory with nothing but the lock: a new manifest is saved.
OpenFresh ==
    /\ AtControl /\ disk.journal = NoFile /\ Raw = NoFile /\ OnlyLock
    /\ manifest' = [ver |-> IF opener.v2 THEN 2 ELSE 1, next |-> 1,
                    scope |-> IF opener.v2 THEN opener.hash ELSE opener.legacy]
    /\ Stage("backup")
    /\ UNCHANGED <<durable, names, bytes, count, closed, wake, op, seq, cur, opener, loop, history, bounds>>

OpenSaved ==
    /\ op = "open" /\ step = "sync" /\ target = "primary"
    /\ durable' = disk /\ OpenTo("scan")
    /\ UNCHANGED <<disk, memory, loop, history, bounds>>

\* The control state belongs to this configuration as it is.
Matches ==
    IF opener.v2 THEN Raw.ver = 2 /\ Raw.scope = opener.hash
                 ELSE Raw.ver = 1 /\ Raw.scope = opener.legacy

OpenMatching ==
    /\ AtControl /\ disk.journal = NoFile /\ Valid(Raw) /\ Matches
    /\ manifest' = Raw /\ OpenTo("scan")
    /\ UNCHANGED <<disk, durable, names, bytes, count, closed, wake, loop, history, bounds>>

\* A verified v1 spool whose control copies agree is migrated.
Migratable == opener.v2 /\ Raw.ver = 1 /\ Raw.scope = opener.legacy /\ disk.backup = Raw

MigrateTo(t) == target' = t /\ step' = "stage" /\ UNCHANGED <<op, seq, cur, opener>>

OpenMigrates ==
    /\ AtControl /\ disk.journal = NoFile /\ Valid(Raw) /\ Migratable
    /\ manifest' = Raw /\ MigrateTo("journal")
    /\ UNCHANGED <<disk, durable, names, bytes, count, closed, wake, loop, history, bounds>>

Upgraded(j) == [ver |-> 2, scope |-> j.new, next |-> j.next]
Before(j) == [ver |-> 1, scope |-> j.old, next |-> j.next]

\* Mutation: the journal is resumed for whoever opens the spool.
ResumableByAny ==
    /\ opener.v2
    /\ {disk.primary, disk.backup} \subseteq {Before(disk.journal), Upgraded(disk.journal), Torn}
    /\ {disk.primary, disk.backup} # {Torn}

\* Mutation: a migration is resumed only where neither copy was replaced.
ResumableFromStart ==
    /\ opener.v2 /\ disk.journal.new = opener.hash
    /\ {disk.primary, disk.backup} \subseteq {Before(disk.journal), Torn}
    /\ {disk.primary, disk.backup} # {Torn}

\* A journal of this scope, and control copies that it explains.
Resumable ==
    /\ opener.v2 /\ disk.journal.new = opener.hash
    /\ {disk.primary, disk.backup} \subseteq {Before(disk.journal), Upgraded(disk.journal), Torn}
    /\ {disk.primary, disk.backup} # {Torn}

OpenResumes ==
    /\ AtControl /\ disk.journal # NoFile /\ Resumable
    /\ manifest' = Upgraded(disk.journal) /\ MigrateTo("backup")
    /\ UNCHANGED <<disk, durable, names, bytes, count, closed, wake, loop, history, bounds>>

\* scopeWrite: a stage is created, or reused when it is exactly what would be
\* written; it is renamed and the directory fsynced.
StageContent ==
    IF target = "journal" THEN [old |-> manifest.scope, new |-> opener.hash, next |-> manifest.next]
                          ELSE manifest

StageCreated ==
    /\ op = "open" /\ step = "stage" /\ disk.stage[target] = NoFile
    /\ disk' = [disk EXCEPT !.stage[target] = Torn] /\ OpenTo("stagewrite")
    /\ UNCHANGED <<durable, memory, loop, history, bounds>>

StageWritten ==
    /\ op = "open" /\ step = "stagewrite"
    /\ disk' = [disk EXCEPT !.stage[target] = StageContent] /\ OpenTo("stage")
    /\ UNCHANGED <<durable, memory, loop, history, bounds>>

StageRenamed ==
    /\ op = "open" /\ step = "stage" /\ disk.stage[target] = StageContent
    /\ disk' = [disk EXCEPT !.stage[target] = NoFile,
                   !.journal = IF target = "journal" THEN StageContent ELSE @,
                   !.backup = IF target = "backup" THEN StageContent ELSE @,
                   !.primary = IF target = "primary" THEN StageContent ELSE @]
    /\ OpenTo("stagesync")
    /\ UNCHANGED <<durable, memory, loop, history, bounds>>

\* The journal is committed: finishMigration writes the backup.
JournalSynced ==
    /\ op = "open" /\ step = "stagesync" /\ target = "journal"
    /\ durable' = disk /\ manifest' = Upgraded(disk.journal) /\ MigrateTo("backup")
    /\ UNCHANGED <<disk, names, bytes, count, closed, wake, loop, history, bounds>>

BackupSynced ==
    /\ op = "open" /\ step = "stagesync" /\ target = "backup"
    /\ durable' = disk /\ MigrateTo("primary")
    /\ UNCHANGED <<disk, memory, loop, history, bounds>>

\* Both copies are v2: the journal goes.
PrimarySynced ==
    /\ op = "open" /\ step = "stagesync" /\ target = "primary"
    /\ durable' = disk /\ disk' = [disk EXCEPT !.journal = NoFile] /\ OpenTo("journalsync")
    /\ UNCHANGED <<memory, loop, history, bounds>>

MigrationDone ==
    /\ op = "open" /\ step = "journalsync"
    /\ durable' = disk /\ OpenTo("scan")
    /\ UNCHANGED <<disk, memory, loop, history, bounds>>

\* The scan: a v1 opener removes .pending; an undecodable record is moved aside.
OpenUnpends ==
    /\ op = "open" /\ step = "scan" /\ disk.pending
    /\ disk' = [disk EXCEPT !.pending = FALSE] /\ OpenTo("scan")
    /\ UNCHANGED <<durable, memory, loop, history, bounds>>

OpenQuarantines(s) ==
    /\ op = "open" /\ step = "scan" /\ disk.recs[s] # NoFile /\ ~disk.recs[s].ok
    /\ disk' = Quarantine(disk, s) /\ durable' = disk' /\ OpenTo("scan")
    /\ UNCHANGED <<memory, loop, history, bounds>>

Scanned == op = "open" /\ step = "scan" /\ ~disk.pending /\ \A s \in Stored(disk) : disk.recs[s].ok

RecordCosts(d) == SumFunctionOnSet([s \in Stored(d) |-> Cost[d.recs[s].batch]], Stored(d))
BadCosts(d) == SumFunctionOnSet([r \in d.bad |-> Cost[r.batch]], d.bad)
EntriesOf(d) == Cardinality(Stored(d)) + Cardinality(d.bad)

Charged == (IF opener.v2 THEN Reserve ELSE 0) + RecordCosts(disk) + BadCosts(disk)
Entries == EntriesOf(disk)

Unexpected ==
    \/ \E t \in Stages : disk.stage[t] # NoFile
    \/ \E s \in Numbers(disk) : s >= manifest.next
OverBudget == Charged > MaxBytes \/ Entries > MaxItems

OpenReturn ==
    /\ Scanned /\ ~Unexpected /\ ~OverBudget
    /\ durable' = disk
    /\ names' = Stored(disk) /\ count' = Entries /\ bytes' = Charged
    /\ tenants' = IF opener.v2 THEN tenants \cup {opener.hash} ELSE tenants
    /\ consumer' = "check" /\ Goto("idle", "none")
    /\ UNCHANGED <<disk, manifest, closed, wake, target, seq, cur, opener, held, blocked, scraping,
                   offered, accepted, delivered, damaged, bounds>>

ControlRefused ==
    \/ opener.v2 /\ disk.pending
    \/ IF disk.journal # NoFile THEN ~Resumable
       ELSE IF Raw = NoFile THEN ~OnlyLock
       ELSE IF Raw = Torn THEN TRUE ELSE ~Matches /\ ~Migratable

\* Every error return that leaves the directory for an operator.
OpenRefused ==
    /\ \/ op = "open" /\ step = "control" /\ ControlRefused
       \/ op = "open" /\ step = "stage" /\ disk.stage[target] \notin {NoFile, StageContent}
       \/ Scanned /\ (Unexpected \/ OverBudget)
    /\ Goto("refused", step)
    /\ UNCHANGED <<disk, durable, memory, target, seq, cur, opener, loop, history, bounds>>

\* A file operation fails: .pending is removed, a stage is retained.
OpenFails ==
    /\ op = "open" /\ step \notin {"control", "scan"} /\ faults < MaxFaults
    /\ faults' = faults + 1 /\ Goto("down", "none")
    /\ disk' = IF step = "rename" THEN [disk EXCEPT !.pending = FALSE] ELSE disk
    /\ UNCHANGED <<durable, memory, target, seq, cur, opener, loop, history, crashes>>

-----------------------------------------------------------------------------
(* The end of a run, and the environment.                                   *)

\* The memory of the run is gone; crashes bounds the runs.
RunEnds ==
    /\ crashes < MaxCrashes /\ crashes' = crashes + 1
    /\ manifest' = NoManifest /\ names' = {} /\ bytes' = 0 /\ count' = 0
    /\ closed' = FALSE /\ wake' = FALSE
    /\ consumer' = "stopped" /\ blocked' = FALSE /\ scraping' = FALSE /\ Goto("down", "none")
    /\ UNCHANGED <<durable, target, seq, cur, opener, held, history, faults>>

\* Metrics.Stop joins both goroutines, then closes the queue, which releases the
\* lock and retains the backlog.
Close == Idle /\ ~scraping /\ RunEnds /\ UNCHANGED disk

\* A kill, or a power loss.
Crash ==
    /\ op \notin {"down", "refused"} /\ RunEnds
    /\ disk' \in {disk, durable}

Damage(s) ==
    /\ op \in {"idle", "down"} /\ faults < MaxFaults /\ faults' = faults + 1
    /\ disk.recs[s] # NoFile /\ disk.recs[s] = durable.recs[s] /\ disk.recs[s].ok
    /\ disk' = [disk EXCEPT !.recs[s].ok = FALSE]
    /\ durable' = [durable EXCEPT !.recs[s].ok = FALSE]
    /\ damaged' = damaged \cup {disk.recs[s].batch}
    /\ UNCHANGED <<memory, running, loop, offered, accepted, delivered, tenants, crashes>>

\* One of the two manifest copies becomes unreadable.
DamageManifest ==
    /\ op \in {"idle", "down"} /\ faults < MaxFaults /\ faults' = faults + 1
    /\ \/ /\ Valid(disk.primary) /\ disk.primary = durable.primary
          /\ disk' = [disk EXCEPT !.primary = Torn] /\ durable' = [durable EXCEPT !.primary = Torn]
       \/ /\ Valid(disk.backup) /\ disk.backup = durable.backup
          /\ disk' = [disk EXCEPT !.backup = Torn] /\ durable' = [durable EXCEPT !.backup = Torn]
    /\ UNCHANGED <<memory, running, loop, history, crashes>>

-----------------------------------------------------------------------------
Put == PutBegin \/ PutFull \/ PutClosed \/ PutRecord \/ PutReturn \/ PutFails
Scrape == ScrapeBegin \/ ScrapeEnd \/ Put
NextItem ==
    \/ NextReturns \/ NextQuarantines \/ QuarantineReturn \/ QuarantineFails
    \/ NextWaits \/ NextWoken \/ NextClosed
Deliver == SendAccepted \/ SendExhausted \/ SendRefused
Ack == AckRemoves \/ AckReturn \/ AckFails \/ AckRefused
OpenDisk ==
    \/ (\E o \in Openers : OpenBegin(o)) \/ OpenFresh \/ OpenSaved \/ OpenMatching
    \/ OpenUnpends \/ (\E s \in Batches : OpenQuarantines(s)) \/ OpenReturn \/ OpenRefused \/ OpenFails
Migrate ==
    \/ OpenMigrates \/ OpenResumes \/ StageCreated \/ StageWritten \/ StageRenamed
    \/ JournalSynced \/ BackupSynced \/ PrimarySynced \/ MigrationDone
Environment == Crash \/ (\E s \in Batches : Damage(s)) \/ DamageManifest

Next ==
    \/ Rename \/ SavePrimary \/ Scrape \/ NextItem \/ Deliver \/ Ack
    \/ Close \/ OpenDisk \/ Migrate \/ Environment

Spec == Init /\ [][Next]_vars

-----------------------------------------------------------------------------
(* Properties.                                                              *)

Dirs == [primary : Control \cup {NoFile, Torn}, backup : Control \cup {NoFile, Torn},
         journal : Journal \cup {NoFile}, pending : BOOLEAN,
         stage : [Stages -> Control \cup Journal \cup {NoFile, Torn}],
         recs : [Batches -> Records \cup {NoFile}],
         bad : SUBSET [seq : Batches, batch : Batches]]

\* The type of the variables.
TypeOK ==
    /\ disk \in Dirs /\ durable \in Dirs /\ manifest \in Control
    /\ names \subseteq Batches /\ bytes \in Nat /\ count \in Nat
    /\ closed \in BOOLEAN /\ wake \in BOOLEAN /\ blocked \in BOOLEAN /\ scraping \in BOOLEAN
    /\ op \in {"down", "open", "refused", "idle", "put", "ack", "quarantine"}
    /\ consumer \in {"stopped", "check", "wait", "holds", "acks"}
    /\ opener \in Openers /\ cur \in Batches /\ offered \in 0..MaxBatches
    /\ accepted \cup delivered \cup damaged \subseteq 1..offered

\* "At-least-once for durably accepted, uncorrupted records": once Put returned,
\* the batch stays in the directory, through kills, power losses, failing writes,
\* unreadable manifest copies and migrations, until the backend has accepted it.
AcceptedSurvives ==
    \A b \in accepted \ (delivered \cup damaged) : Holds(disk, b) /\ Holds(durable, b)

\* A receipt is never given out twice: each readable copy of the manifest is ahead
\* of every record, so falling back to the backup cannot overwrite one.
ReceiptsFresh ==
    \A d \in {disk, durable} : \A s \in Numbers(d), m \in {d.primary, d.backup} :
        Valid(m) => s < m.next

\* The batch that is being sent stays the FIFO head, although batches are put
\* meanwhile, so its acknowledgement is not refused.
HeldIsHead ==
    consumer \in {"holds", "acks"} => names # {} /\ held = Head(names)

\* One directory serves one v2 scope for good, the one of the agent that uses it:
\* "changing any scope member fails closed", however a migration was interrupted.
OneTenant ==
    /\ Cardinality(tenants) <= 1
    /\ opener.v2 /\ op \in {"idle", "put", "ack", "quarantine"} => manifest.scope = opener.hash

\* A staging file that the opener cannot take over: torn, of another scope, or
\* met by an agent that knows no migration.
ForeignStage ==
    \E t \in Stages :
        /\ disk.stage[t] # NoFile
        /\ IF disk.stage[t] = Torn THEN TRUE
           ELSE ~opener.v2 \/ (t = "journal" /\ disk.stage[t].new # opener.hash)

WrongScope(m) ==
    IF m.ver = 2 THEN ~opener.v2 \/ m.scope # opener.hash
    ELSE m.scope # opener.legacy \/ (opener.v2 /\ disk.backup # m)

\* The right configuration is refused only for what an interrupted write or
\* damage left: .pending, a torn stage, lost control copies, v1 copies that
\* differ, or the budget.  A migration interrupted between two steps is resumed,
\* and no longer needs the previous endpoint once its journal is committed.
RefusalJustified ==
    op = "refused" =>
        \/ opener.v2 /\ disk.pending
        \/ ForeignStage \/ OverBudget
        \/ IF disk.journal # NoFile
             THEN \/ ~opener.v2 \/ disk.journal.new # opener.hash
                  \/ NoFile \in {disk.primary, disk.backup} \/ {disk.primary, disk.backup} = {Torn}
             ELSE IF Valid(Raw) THEN WrongScope(Raw) ELSE TRUE

\* Nothing is stored beyond the configured budget, quarantined records and, once
\* the spool is open, the migration reserve included.
WithinBudget ==
    Entries <= MaxItems /\ (op \in {"idle", "put", "ack", "quarantine"} => Charged <= MaxBytes)

\* No lost wakeup.
NoLostWakeup == consumer = "wait" /\ names # {} => wake

-----------------------------------------------------------------------------
(* The inductive invariant of the proofs (MetricsSpool_proofs).             *)

\* What every directory is that a crash or a kill can leave, when off batches
\* were offered and those of dmg damaged: no readable manifest copy is behind a
\* record, the copies are of one scope, or of the two that a journal names, and a
\* stage is what the migration would write next.
Fresh(d, next) == \A s \in Numbers(d) : s < next

CopiesInv(d, off) ==
    /\ \A m \in {d.primary, d.backup} : Valid(m) => Fresh(d, m.next) /\ m.next <= off + 1
    /\ IF d.journal = NoFile
         THEN Valid(d.primary) /\ Valid(d.backup) =>
                d.primary.ver = d.backup.ver /\ d.primary.scope = d.backup.scope
         ELSE /\ {d.primary, d.backup} \subseteq
                    {Before(d.journal), Upgraded(d.journal), Torn, NoFile}
              /\ Fresh(d, d.journal.next) /\ d.journal.next <= off + 1

StagesInv(d) ==
    /\ d.stage["journal"] \in Journal \cup {NoFile, Torn}
    /\ d.stage["journal"] \in Journal =>
           {d.primary, d.backup} \subseteq {Before(d.stage["journal"]), Torn, NoFile}
    /\ IF d.journal # NoFile
         THEN /\ d.stage["journal"] = NoFile
              /\ \A t \in {"backup", "primary"} : d.stage[t] \in {Upgraded(d.journal), NoFile, Torn}
         ELSE \A t \in {"backup", "primary"} : d.stage[t] = NoFile

RecordsInv(d, off, dmg) ==
    /\ \A s \in Stored(d) : d.recs[s].batch <= off /\ (~d.recs[s].ok => d.recs[s].batch \in dmg)
    /\ \A r \in d.bad : r.seq \notin Stored(d)
    /\ EntriesOf(d) <= MaxItems

DirInv(d, off, dmg) == CopiesInv(d, off) /\ StagesInv(d) /\ RecordsInv(d, off, dmg)

\* Where the operations, the steps and the delivery loop can be.
ControlInv ==
    /\ ~Up => consumer = "stopped" /\ names = {} /\ ~closed
    /\ op \in {"put", "ack", "quarantine"} => ~closed
    /\ op = "put" => step \in {"rename", "sync"} /\ target \in {"backup", "primary", "record"}
    /\ op = "ack" => consumer = "acks"
    /\ op = "quarantine" => consumer = "check" /\ names # {}
    /\ op = "open" =>
          \/ step \in {"control", "scan", "journalsync"}
          \/ step \in {"rename", "sync"} /\ target \in {"backup", "primary"}
          \/ step \in {"stage", "stagewrite", "stagesync"} /\ target \in Stages

\* The manifest in memory, or the one being saved, belongs to the opener.
Owns(m) ==
    IF opener.v2 THEN m.ver = 2 /\ m.scope = opener.hash ELSE m.ver = 1 /\ m.scope = opener.legacy

\* The control copies of an open spool are of its manifest's scope.
SameScope(m) == m.ver = manifest.ver /\ m.scope = manifest.scope

UpInv ==
    Up => /\ Owns(manifest) /\ manifest.next <= offered + 1
          /\ disk.journal = NoFile /\ disk.stage["journal"] = NoFile
          /\ \A m \in {disk.primary, disk.backup} : Valid(m) => SameScope(m)
          /\ \A s \in Numbers(disk) \cup names : s < manifest.next

\* Put: the receipt is the number that the saved manifest has given out.
PutInv ==
    op = "put" =>
        /\ manifest.next = seq + 1 /\ seq \in Batches /\ cur <= offered
        /\ \A s \in names : s < seq
        /\ (step = "sync" /\ target = "backup") \/ target \in {"primary", "record"} =>
              disk.backup = manifest
        /\ (step = "sync" /\ target = "primary") \/ target = "record" => disk.primary = manifest
        /\ IF step = "sync" /\ target = "record"
             THEN disk.recs[seq] = [batch |-> cur, ok |-> TRUE]
             ELSE Fresh(disk, seq)

\* openDisk: what each step of it has made of the directory.
OpenInv ==
    op = "open" =>
        /\ step \in {"rename", "sync"} =>
              /\ Owns(manifest) /\ manifest.next = 1
              /\ disk.journal = NoFile /\ disk.stage["journal"] = NoFile /\ Numbers(disk) = {}
              /\ IF target = "backup" THEN disk.primary = NoFile ELSE disk.backup = manifest
              /\ step = "sync" /\ target = "backup" => disk.backup = manifest
              /\ step = "sync" /\ target = "primary" => disk.primary = manifest
        /\ step = "scan" => Owns(manifest) /\ disk.journal = NoFile /\ manifest = Raw
        /\ step \in {"stage", "stagewrite", "stagesync"} =>
              /\ opener.v2
              /\ target = "journal" => manifest.ver = 1 /\ disk.backup = manifest
              /\ target = "journal" /\ step # "stagesync" =>
                    disk.journal = NoFile /\ disk.primary \in {manifest, Torn, NoFile}
              /\ target = "journal" /\ step = "stagesync" => disk.journal = StageContent
              /\ target # "journal" =>
                    /\ disk.journal # NoFile /\ disk.journal.new = opener.hash
                    /\ manifest = Upgraded(disk.journal)
              /\ step = "stagesync" => disk.stage[target] = NoFile
              /\ (target # "journal" /\ step = "stagesync") \/ target = "primary" =>
                    disk.backup = manifest /\ disk.stage["backup"] = NoFile
              /\ target = "primary" /\ step = "stagesync" => disk.primary = manifest
        /\ step = "journalsync" =>
              Owns(manifest) /\ disk.journal = NoFile /\ disk.primary = manifest /\ disk.backup = manifest

\* The counters of an open spool are exact, but for the record that Put or Ack
\* is about to account for.
BudgetInv ==
    /\ Up => Charged <= MaxBytes
    /\ Up /\ ~closed =>
          CASE op = "ack" -> bytes = Charged + Cost[cur] /\ count = Entries + 1
            [] op = "put" /\ step = "sync" /\ target = "record" ->
                  Charged = bytes + Cost[cur] /\ Entries = count + 1
            [] OTHER -> bytes = Charged /\ count = Entries
    /\ op = "put" => count < MaxItems /\ bytes + Cost[cur] <= MaxBytes

\* What the delivery loop holds or looks at is stored.
HoldInv ==
    /\ op = "ack" => names \ {held} \subseteq Stored(disk)
    /\ op = "quarantine" => names \ {Head(names)} \subseteq Stored(disk)
    /\ op \in {"idle", "put"} /\ consumer # "stopped" => names \subseteq Stored(disk)
    /\ consumer = "acks" /\ op # "ack" => disk.recs[held].batch \in delivered

\* A directory that a v2 agent used keeps the scope it had then.
Settled(d, h) ==
    /\ d.journal = NoFile /\ ~ (d.primary = NoFile /\ d.backup = NoFile)
    /\ \A m \in {d.primary, d.backup} : Valid(m) => m.ver = 2 /\ m.scope = h

TenantInv ==
    \A h \in tenants :
        /\ Settled(disk, h) /\ Settled(durable, h)
        /\ op = "open" => step \in {"control", "scan"}
        /\ Up \/ (op = "open" /\ step = "scan") => manifest.ver = 2 /\ manifest.scope = h

MInv ==
    /\ TypeOK /\ ControlInv
    /\ DirInv(disk, offered, damaged) /\ DirInv(durable, offered, damaged)
    /\ UpInv /\ PutInv /\ OpenInv /\ BudgetInv /\ HoldInv /\ HeldIsHead
    /\ TenantInv /\ OneTenant /\ AcceptedSurvives /\ RefusalJustified /\ NoLostWakeup

=============================================================================
