------------------------------ MODULE LogSpool ------------------------------
(***************************************************************************)
(* The durable Logs spool, internal/queue/logs_disk_linux.go (LogDisk).    *)
(*                                                                         *)
(* A directory holds one file per record, named by a sequence number, a    *)
(* manifest with the next free number, and at most one staging file of     *)
(* each kind.  A record is admitted unready, activated once the source's   *)
(* checkpoint is on disk, peeked by the one delivery loop, and removed     *)
(* when it acknowledges the head.                                          *)
(*                                                                         *)
(* Every public operation holds q.mu from its first check to its return,   *)
(* so at most one is under way: `op' names it and `step' the file          *)
(* operation it is about to make.  A crash may strike between any two file *)
(* operations.  `disk' is the directory the process sees and `durable' the *)
(* directory the last fsync of it made permanent: a killed process leaves  *)
(* `disk', a power loss leaves `durable'.  Files are fsynced before they   *)
(* are renamed, so only directory operations can be undone.                *)
(***************************************************************************)
EXTENDS Integers, FiniteSets, Functions

CONSTANTS
    Admissions,   \* admission identities the sources may present
    NoFile,       \* a file that does not exist
    MaxItems,     \* maxItems
    MaxBytes,     \* maxBytes less the fixed reserve, in 4096-byte units
    PutCost,      \* charge of a record stored with ready=false
    ReadyCost,    \* charge of the same record stored with ready=true
    EntrySlack,   \* directory entries OpenLogDisk tolerates above maxItems
    MaxSeq,       \* bound: sequence numbers the model lets the spool allocate
    MaxCrashes,   \* bound: crashes and power losses
    MaxFaults     \* bound: failing system calls and damaged records

\* {"ready":true} is one byte shorter than {"ready":false}, which matters to
\* the charge exactly when the longer form just passes a 4096-byte unit.
ASSUME SpoolAssumption ==
    /\ MaxItems \in Nat \ {0} /\ MaxBytes \in Nat
    \* room for lock, manifest.json and .replace.pending; 16 in the code
    /\ EntrySlack \in Nat /\ EntrySlack >= 3
    /\ MaxSeq \in Nat /\ MaxCrashes \in Nat /\ MaxFaults \in Nat
    /\ PutCost \in [Admissions -> Nat \ {0}]
    /\ ReadyCost \in [Admissions -> Nat]
    /\ \A a \in Admissions : ReadyCost[a] \in {PutCost[a], PutCost[a] - 1}
    /\ NoFile \notin [id : Admissions, ready : BOOLEAN, ok : BOOLEAN]

VARIABLES
    disk, durable,                       \* the two directory images
    next, ready, admissions, bytes,      \* q.manifest.Next, q.names (a sorted
    count, closed, corrupt, wake,        \* list, so a set), q.admissions, ...
    op, step, cur, seq,                  \* the operation that holds q.mu
    consumer, held,                      \* the delivery loop inside Next
    fsynced, existing, activated,        \* what callers were told, and which
    released,                            \* records were acknowledged/damaged
    crashes, faults

memory == <<next, ready, admissions, bytes, count, closed, corrupt, wake>>
running == <<op, step, cur, seq>>
loop == <<consumer, held>>
told == <<fsynced, existing, activated, released>>
budget == <<crashes, faults>>
vars == <<disk, durable, memory, running, loop, told, budget>>

-----------------------------------------------------------------------------
(* Files.  A content that decodeLogRecord accepts has ok = TRUE; a torn or  *)
(* damaged one keeps the identity it was written with, which only the       *)
(* properties and the byte charge look at.                                  *)

Seqs == 1..MaxSeq
Content == [id : Admissions, ready : BOOLEAN, ok : BOOLEAN]
File == Content \cup {NoFile}

\* manifest.json holds Next, 0 when the file is missing; .manifest.pending may
\* also be torn.
Torn == -1
Image == [man : Nat, manp : Int, pend : File, repl : File,
          recs : [Seqs -> File], bad : SUBSET Seqs]

Rec(a, r, k) == [id |-> a, ready |-> r, ok |-> k]
Stored(d) == {s \in Seqs : d.recs[s] # NoFile}
HasRecord(d, a) == \E s \in Stored(d) : d.recs[s].id = a
HasReady(d, a) == \E s \in Stored(d) : d.recs[s].id = a /\ d.recs[s].ready
Charge(c) == IF c.ready THEN ReadyCost[c.id] ELSE PutCost[c.id]
Charged(d) == SumFunctionOnSet([s \in Stored(d) |-> Charge(d.recs[s])], Stored(d))

\* q.names is kept sorted, so its head is the smallest ready number.
HeadOf(names) == CHOOSE s \in names : \A t \in names : s <= t

Up == op \notin {"down", "open", "refused"}
Idle == op = "idle"

-----------------------------------------------------------------------------
EmptyImage == [man |-> 0, manp |-> 0, pend |-> NoFile, repl |-> NoFile,
               recs |-> [s \in Seqs |-> NoFile], bad |-> {}]

NoMemory ==
    /\ next = 0 /\ ready = {} /\ admissions = [a \in Admissions |-> 0]
    /\ bytes = 0 /\ count = 0 /\ closed = FALSE /\ corrupt = 0 /\ wake = FALSE

Init ==
    /\ disk = EmptyImage /\ durable = EmptyImage
    /\ NoMemory
    /\ op = "down" /\ step = "none" /\ cur \in Admissions /\ seq = 0
    /\ consumer = "stopped" /\ held = 0
    /\ fsynced = {} /\ existing = {} /\ activated = {} /\ released = {}
    /\ crashes = 0 /\ faults = 0

-----------------------------------------------------------------------------
(* saveManifest, write and writeReplacement: create the staging file, write *)
(* and fsync it, rename it over its target, fsync the directory.  The step  *)
(* that creates the file belongs to the operation, the rest is shared.      *)

\* saveManifest: the staged manifest is complete and on disk.
ManifestWritten ==
    /\ op \in {"open", "put"} /\ step = "mwrite"
    /\ disk' = [disk EXCEPT !.manp = next]
    /\ step' = "mrename"
    /\ UNCHANGED <<durable, memory, op, cur, seq, loop, told, budget>>

\* saveManifest and recoverLogManifest: rename .manifest.pending.
ManifestRenamed ==
    /\ op \in {"open", "put"} /\ step = "mrename"
    /\ disk' = [disk EXCEPT !.man = disk.manp, !.manp = 0]
    /\ step' = "msync"
    /\ UNCHANGED <<durable, memory, op, cur, seq, loop, told, budget>>

\* write: .pending is complete and on disk.
RecordWritten ==
    /\ op = "put" /\ step = "write"
    /\ disk' = [disk EXCEPT !.pend = Rec(cur, FALSE, TRUE)]
    /\ step' = "rename"
    /\ UNCHANGED <<durable, memory, op, cur, seq, loop, told, budget>>

\* write and recoverPendingRecord: rename .pending to the reserved number.
RecordRenamed ==
    /\ op \in {"open", "put"} /\ step = "rename"
    /\ disk' = [disk EXCEPT !.recs[seq] = disk.pend, !.pend = NoFile]
    /\ step' = "sync"
    /\ UNCHANGED <<durable, memory, op, cur, seq, loop, told, budget>>

\* writeReplacement: .replace.pending is complete and on disk.
ReplacementWritten ==
    /\ op = "activate" /\ step = "write"
    /\ disk' = [disk EXCEPT !.repl = Rec(cur, TRUE, TRUE)]
    /\ step' = "rename"
    /\ UNCHANGED <<durable, memory, op, cur, seq, loop, told, budget>>

\* writeReplacement and recoverPendingActivation: rename .replace.pending.
ReplacementRenamed ==
    /\ \/ op = "activate" /\ step = "rename"
       \/ op = "open" /\ step = "arename"
    /\ disk' = [disk EXCEPT !.recs[seq] = disk.repl, !.repl = NoFile]
    /\ step' = IF op = "open" THEN "async" ELSE "sync"
    /\ UNCHANGED <<durable, memory, op, cur, seq, loop, told, budget>>

-----------------------------------------------------------------------------
(* PutAdmission.  An identity that is already held returns existed = TRUE   *)
(* without touching the directory.                                          *)

\* Mutation: the byte limit is off by one.
FitsOneMore(a) == count < MaxItems /\ bytes + PutCost[a] <= MaxBytes + 1

Fits(a) == count < MaxItems /\ bytes + PutCost[a] <= MaxBytes

PutExisting(a) ==
    /\ Idle /\ ~closed /\ admissions[a] # 0
    /\ existing' = existing \cup {a}
    /\ UNCHANGED <<disk, durable, memory, running, loop, fsynced, activated,
                   released, budget>>

\* Mutation: an identity the spool already holds is admitted again.
PutBeginAgain(a) ==
    /\ Idle /\ ~closed /\ Fits(a)
    /\ next <= MaxSeq
    /\ cur' = a /\ seq' = next /\ next' = next + 1
    /\ disk' = [disk EXCEPT !.manp = Torn]
    /\ op' = "put" /\ step' = "mwrite"
    /\ UNCHANGED <<durable, ready, admissions, bytes, count, closed, corrupt,
                   wake, loop, told, budget>>

PutBegin(a) ==
    /\ Idle /\ ~closed /\ admissions[a] = 0 /\ Fits(a)
    /\ next <= MaxSeq
    /\ cur' = a /\ seq' = next /\ next' = next + 1
    /\ disk' = [disk EXCEPT !.manp = Torn]
    /\ op' = "put" /\ step' = "mwrite"
    /\ UNCHANGED <<durable, ready, admissions, bytes, count, closed, corrupt,
                   wake, loop, told, budget>>

\* The manifest is durable; .pending must not exist (O_EXCL) and is created.
PutReserved ==
    /\ op = "put" /\ step = "msync" /\ disk.pend = NoFile
    /\ durable' = disk
    /\ disk' = [disk EXCEPT !.pend = Rec(cur, FALSE, FALSE)]
    /\ step' = "write"
    /\ UNCHANGED <<memory, op, cur, seq, loop, told, budget>>

\* Mutation: write returns without the directory fsync.
PutReturnUnsynced ==
    /\ op = "put" /\ step = "sync"
    /\ admissions' = [admissions EXCEPT ![cur] = seq]
    /\ count' = count + 1 /\ bytes' = bytes + PutCost[cur]
    /\ op' = "idle" /\ step' = "none"
    /\ fsynced' = fsynced \cup {cur} /\ released' = released \ {cur}
    /\ activated' = activated \ {cur} /\ existing' = existing \ {cur}
    /\ UNCHANGED <<disk, durable, next, ready, closed, corrupt, wake, cur, seq,
                   loop, budget>>

PutReturn ==
    /\ op = "put" /\ step = "sync"
    /\ durable' = disk
    /\ admissions' = [admissions EXCEPT ![cur] = seq]
    /\ count' = count + 1 /\ bytes' = bytes + PutCost[cur]
    /\ op' = "idle" /\ step' = "none"
    /\ fsynced' = fsynced \cup {cur} /\ released' = released \ {cur}
    /\ activated' = activated \ {cur} /\ existing' = existing \ {cur}
    /\ UNCHANGED <<disk, next, ready, closed, corrupt, wake, cur, seq, loop,
                   budget>>

-----------------------------------------------------------------------------
(* Activate.  It does not look at q.closed.  An unknown or already ready    *)
(* identity returns nil, an unreadable record an error; neither changes     *)
(* state.                                                                   *)

Activatable(a) ==
    /\ admissions[a] # 0 /\ admissions[a] \notin ready
    /\ disk.recs[admissions[a]] # NoFile /\ disk.recs[admissions[a]].ok

ActivateBegin(a) ==
    /\ Idle /\ Activatable(a) /\ disk.repl = NoFile
    /\ cur' = a /\ seq' = admissions[a]
    /\ disk' = [disk EXCEPT !.repl = Rec(a, TRUE, FALSE)]
    /\ op' = "activate" /\ step' = "write"
    /\ UNCHANGED <<durable, memory, loop, told, budget>>

\* .replace.pending is left over from a failed activation (O_EXCL).
ActivateBlocked(a) ==
    /\ Idle /\ Activatable(a) /\ disk.repl # NoFile
    /\ closed' = TRUE
    /\ UNCHANGED <<disk, durable, next, ready, admissions, bytes, count,
                   corrupt, wake, running, loop, told, budget>>

\* Mutation: writeReplacement returns without the directory fsync.
ActivateReturnUnsynced ==
    /\ op = "activate" /\ step = "sync"
    /\ ready' = ready \cup {seq} /\ wake' = TRUE
    /\ activated' = activated \cup {cur}
    /\ op' = "idle" /\ step' = "none"
    /\ UNCHANGED <<disk, durable, next, admissions, bytes, count, closed,
                   corrupt, cur, seq, loop, fsynced, existing, released, budget>>

\* Mutation: the send on q.wake is forgotten.
ActivateReturnSilent ==
    /\ op = "activate" /\ step = "sync"
    /\ durable' = disk
    /\ ready' = ready \cup {seq}
    /\ activated' = activated \cup {cur}
    /\ op' = "idle" /\ step' = "none"
    /\ UNCHANGED <<disk, next, admissions, bytes, count, closed, corrupt, wake,
                   cur, seq, loop, fsynced, existing, released, budget>>

ActivateReturn ==
    /\ op = "activate" /\ step = "sync"
    /\ durable' = disk
    /\ ready' = ready \cup {seq} /\ wake' = TRUE
    /\ activated' = activated \cup {cur}
    /\ op' = "idle" /\ step' = "none"
    /\ UNCHANGED <<disk, next, admissions, bytes, count, closed, corrupt, cur,
                   seq, loop, fsynced, existing, released, budget>>

\* A system call of PutAdmission or Activate fails: the spool closes itself
\* and leaves the directory as it is, unsynced.
WriteFails ==
    /\ op \in {"put", "activate"} /\ faults < MaxFaults
    /\ closed' = TRUE /\ faults' = faults + 1
    /\ op' = "idle" /\ step' = "none"
    /\ UNCHANGED <<disk, durable, next, ready, admissions, bytes, count,
                   corrupt, wake, cur, seq, loop, told, crashes>>

-----------------------------------------------------------------------------
(* Next, called by the one delivery loop.  The loop is "check"-ing q.names, *)
(* "wait"-ing on q.wake with q.mu released, "holds" an item it is sending,  *)
(* "acks" it, or has "stopped" for good.                                    *)

HeadFile == disk.recs[HeadOf(ready)]

\* quarantine moves a record file aside as <number>.bad.
Quarantine(d, s) ==
    [d EXCEPT !.recs[s] = NoFile, !.bad = d.bad \cup {s}]

NextReturns ==
    /\ Idle /\ consumer = "check" /\ ~closed /\ ready # {}
    /\ HeadFile # NoFile /\ HeadFile.ok
    /\ consumer' = "holds" /\ held' = HeadOf(ready)
    /\ UNCHANGED <<disk, durable, memory, running, told, budget>>

NextWaits ==
    /\ Idle /\ consumer = "check" /\ ~closed /\ ready = {}
    /\ consumer' = "wait"
    /\ UNCHANGED <<disk, durable, memory, running, held, told, budget>>

\* The receive from q.wake needs no lock.
NextWoken ==
    /\ Up /\ consumer = "wait" /\ wake
    /\ wake' = FALSE /\ consumer' = "check"
    /\ UNCHANGED <<disk, durable, next, ready, admissions, bytes, count,
                   closed, corrupt, running, held, told, budget>>

\* q.closed: Next returns an error and the loop ends.
NextClosed ==
    /\ Idle /\ consumer = "check" /\ closed
    /\ consumer' = "stopped"
    /\ UNCHANGED <<disk, durable, memory, running, held, told, budget>>

NextQuarantines ==
    /\ Idle /\ consumer = "check" /\ ~closed /\ ready # {}
    /\ HeadFile # NoFile /\ ~HeadFile.ok
    /\ op' = "quarantine" /\ step' = "sync"
    /\ seq' = HeadOf(ready) /\ cur' = HeadFile.id
    /\ disk' = Quarantine(disk, HeadOf(ready))
    /\ corrupt' = corrupt + 1
    /\ UNCHANGED <<durable, next, ready, admissions, bytes, count, closed,
                   wake, loop, told, budget>>

\* A record in q.names was stored with ready=true, and damage is taken to
\* keep a file's length, so the charge of the bytes read is ReadyCost.
Forget ==
    /\ ready' = ready \ {seq}
    /\ count' = count - 1 /\ bytes' = bytes - ReadyCost[cur]

\* The admission that has the quarantined name is dropped, and Next loops.
QuarantineReturn ==
    /\ op = "quarantine"
    /\ durable' = disk
    /\ admissions' = [a \in Admissions |->
                         IF admissions[a] = seq THEN 0 ELSE admissions[a]]
    /\ Forget
    /\ op' = "idle" /\ step' = "none"
    /\ UNCHANGED <<disk, next, closed, corrupt, wake, cur, seq, loop, told,
                   budget>>

\* The directory fsync fails: Next returns the error, q.names keeps the name.
QuarantineFails ==
    /\ op = "quarantine" /\ faults < MaxFaults
    /\ faults' = faults + 1 /\ consumer' = "stopped"
    /\ op' = "idle" /\ step' = "none"
    /\ UNCHANGED <<disk, durable, memory, cur, seq, held, told, crashes>>

-----------------------------------------------------------------------------
(* The delivery loop's use of what it holds: it acknowledges an accepted    *)
(* item, looks again after exhausted attempts, or stops.                    *)

SendExhausted ==
    /\ Up /\ consumer = "holds"
    /\ consumer' = "check"
    /\ UNCHANGED <<disk, durable, memory, running, held, told, budget>>

SendStops ==
    /\ Up /\ consumer = "holds"
    /\ consumer' = "stopped"
    /\ UNCHANGED <<disk, durable, memory, running, held, told, budget>>

AckAllowed ==
    /\ ~closed /\ ready # {} /\ HeadOf(ready) = held
    /\ HeadFile # NoFile /\ HeadFile.ok

\* Not the head, closed, or unreadable: an error, which ends the loop.
AckRefused ==
    /\ Idle /\ consumer = "holds" /\ ~AckAllowed
    /\ consumer' = "stopped"
    /\ UNCHANGED <<disk, durable, memory, running, held, told, budget>>

\* Mutation: any receipt will do, not only the head's.
AckRemovesAny ==
    /\ Idle /\ consumer = "holds" /\ ~closed /\ held \in ready
    /\ disk.recs[held] # NoFile /\ disk.recs[held].ok
    /\ op' = "ack" /\ step' = "sync" /\ cur' = disk.recs[held].id /\ seq' = held
    /\ disk' = [disk EXCEPT !.recs[held] = NoFile]
    /\ consumer' = "acks"
    /\ released' = released \cup {disk.recs[held].id}
    /\ UNCHANGED <<durable, memory, held, fsynced, existing, activated, budget>>

AckRemoves ==
    /\ Idle /\ consumer = "holds" /\ AckAllowed
    /\ op' = "ack" /\ step' = "sync" /\ cur' = HeadFile.id /\ seq' = held
    /\ disk' = [disk EXCEPT !.recs[held] = NoFile]
    /\ consumer' = "acks"
    /\ released' = released \cup {HeadFile.id}
    /\ UNCHANGED <<durable, memory, held, fsynced, existing, activated, budget>>

AckReturn ==
    /\ op = "ack"
    /\ durable' = disk
    /\ admissions' = [admissions EXCEPT ![cur] = 0]
    /\ Forget
    /\ consumer' = "check"
    /\ op' = "idle" /\ step' = "none"
    /\ UNCHANGED <<disk, next, closed, corrupt, wake, cur, seq, held, told,
                   budget>>

\* The directory fsync fails: the spool closes, and the loop ends.
AckFails ==
    /\ op = "ack" /\ faults < MaxFaults
    /\ faults' = faults + 1 /\ closed' = TRUE /\ consumer' = "stopped"
    /\ op' = "idle" /\ step' = "none"
    /\ UNCHANGED <<disk, durable, next, ready, admissions, bytes, count,
                   corrupt, wake, cur, seq, held, told, crashes>>

\* Close wakes a waiting Next; the lock it releases is implied by `closed'.
Close ==
    /\ Idle
    /\ closed' = TRUE /\ wake' = TRUE
    /\ UNCHANGED <<disk, durable, next, ready, admissions, bytes, count,
                   corrupt, running, loop, told, budget>>

-----------------------------------------------------------------------------
(* OpenLogDisk: finish an interrupted manifest replacement, finish an       *)
(* interrupted admission, scan, finish an interrupted activation, check the *)
(* budget.  A directory it cannot interpret is left alone and refused.      *)

OpenStep(s) == op' = "open" /\ step' = s

\* Mutation: recoverLogManifest renames the staged manifest without decoding it.
OpenManifestUnchecked ==
    /\ op = "down"
    /\ IF disk.manp # 0 THEN
           OpenStep("mrename") /\ UNCHANGED <<disk, next>>
       ELSE IF disk.man = 0 THEN
           /\ next' = 1 /\ disk' = [disk EXCEPT !.manp = Torn]
           /\ OpenStep("mwrite")
       ELSE OpenStep("pending") /\ UNCHANGED <<disk, next>>
    /\ UNCHANGED <<durable, ready, admissions, bytes, count, closed, corrupt,
                   wake, cur, seq, loop, told, budget>>

\* recoverLogManifest up to its rename, then the read of manifest.json.
OpenManifest ==
    /\ op = "down"
    /\ disk.manp # Torn /\ (disk.manp = 0 \/ disk.manp >= disk.man)
    /\ IF disk.manp # 0 THEN
           OpenStep("mrename") /\ UNCHANGED <<disk, next>>
       ELSE IF disk.man = 0 THEN
           /\ next' = 1 /\ disk' = [disk EXCEPT !.manp = Torn]
           /\ OpenStep("mwrite")
       ELSE OpenStep("pending") /\ UNCHANGED <<disk, next>>
    /\ UNCHANGED <<durable, ready, admissions, bytes, count, closed, corrupt,
                   wake, cur, seq, loop, told, budget>>

OpenManifestSynced ==
    /\ op = "open" /\ step = "msync"
    /\ durable' = disk
    /\ OpenStep("pending")
    /\ UNCHANGED <<disk, memory, cur, seq, loop, told, budget>>

\* The reserved number is the one below the manifest's.
Reserved(d) == d.man - 1

\* Mutation: the "no reserved sequence" test is off by one.
PendingRefusedOffByOne ==
    /\ disk.pend # NoFile
    /\ \/ ~disk.pend.ok \/ disk.man <= 2
       \/ /\ disk.man > 1 /\ disk.recs[Reserved(disk)] # NoFile
          /\ \/ ~disk.recs[Reserved(disk)].ok
             \/ disk.recs[Reserved(disk)].id # disk.pend.id

PendingRefused ==
    /\ disk.pend # NoFile
    /\ \/ ~disk.pend.ok \/ disk.man <= 1
       \/ /\ disk.man > 1 /\ disk.recs[Reserved(disk)] # NoFile
          /\ \/ ~disk.recs[Reserved(disk)].ok
             \/ disk.recs[Reserved(disk)].id # disk.pend.id

\* recoverPendingRecord up to its rename or its removal of a duplicate.
OpenPending ==
    /\ op = "open" /\ step = "pending" /\ ~PendingRefused
    /\ next' = disk.man
    /\ IF disk.pend = NoFile THEN
           OpenStep("scan") /\ UNCHANGED <<disk, seq>>
       ELSE IF disk.recs[Reserved(disk)] = NoFile THEN
           OpenStep("rename") /\ seq' = Reserved(disk) /\ UNCHANGED disk
       ELSE
           /\ disk' = [disk EXCEPT !.pend = NoFile]
           /\ OpenStep("sync") /\ UNCHANGED seq
    /\ UNCHANGED <<durable, ready, admissions, bytes, count, closed, corrupt,
                   wake, cur, loop, told, budget>>

OpenPendingSynced ==
    /\ op = "open" /\ step = "sync"
    /\ durable' = disk
    /\ OpenStep("scan")
    /\ UNCHANGED <<disk, memory, cur, seq, loop, told, budget>>

\* Entries: lock, manifest.json, records, quarantined records and possibly
\* .replace.pending.  The count is taken before the scan renames anything,
\* and a rename to .bad does not change it.
TooManyEntries ==
    2 + Cardinality(Stored(disk)) + Cardinality(disk.bad)
      + (IF disk.repl = NoFile THEN 0 ELSE 1) > MaxItems + EntrySlack

\* The scan renames an undecodable record aside and fsyncs, one at a time.
OpenQuarantines(s) ==
    /\ op = "open" /\ step = "scan" /\ ~TooManyEntries
    /\ disk.recs[s] # NoFile /\ ~disk.recs[s].ok
    /\ disk' = Quarantine(disk, s) /\ durable' = disk'
    /\ corrupt' = corrupt + 1
    /\ UNCHANGED <<next, ready, admissions, bytes, count, closed, wake,
                   running, loop, told, budget>>

DuplicateAdmission(d) ==
    \E s, t \in Stored(d) : s # t /\ d.recs[s].id = d.recs[t].id

AllDecode == \A s \in Stored(disk) : disk.recs[s].ok

\* The in-memory index after the scan.
NumberOf(d, a) ==
    IF HasRecord(d, a) THEN CHOOSE s \in Stored(d) : d.recs[s].id = a ELSE 0

OpenScanned ==
    /\ op = "open" /\ step = "scan"
    /\ ~TooManyEntries /\ AllDecode /\ ~DuplicateAdmission(disk)
    /\ ready' = {s \in Stored(disk) : disk.recs[s].ready}
    /\ admissions' = [a \in Admissions |-> NumberOf(disk, a)]
    /\ count' = Cardinality(Stored(disk)) /\ bytes' = Charged(disk)
    /\ OpenStep("activation")
    /\ UNCHANGED <<disk, durable, next, closed, corrupt, wake, cur, seq, loop,
                   told, budget>>

ActivationRefused ==
    /\ disk.repl # NoFile
    /\ \/ ~disk.repl.ok \/ ~disk.repl.ready
       \/ admissions[disk.repl.id] = 0
       \/ admissions[disk.repl.id] # 0 /\ ~disk.recs[admissions[disk.repl.id]].ok

\* recoverPendingActivation up to its rename.
OpenActivation ==
    /\ op = "open" /\ step = "activation" /\ ~ActivationRefused
    /\ IF disk.repl = NoFile
         THEN OpenStep("budget") /\ UNCHANGED <<cur, seq>>
         ELSE /\ OpenStep("arename")
              /\ cur' = disk.repl.id /\ seq' = admissions[disk.repl.id]
    /\ UNCHANGED <<disk, durable, memory, loop, told, budget>>

OpenActivationSynced ==
    /\ op = "open" /\ step = "async"
    /\ durable' = disk
    /\ ready' = ready \cup {seq}
    /\ OpenStep("budget")
    /\ UNCHANGED <<disk, next, admissions, bytes, count, closed, corrupt, wake,
                   cur, seq, loop, told, budget>>

OverBudget == bytes > MaxBytes \/ count > MaxItems

\* The spool is open, and its caller starts the delivery loop.
OpenReturn ==
    /\ op = "open" /\ step = "budget" /\ ~OverBudget
    /\ op' = "idle" /\ step' = "none"
    /\ consumer' = "check"
    /\ UNCHANGED <<disk, durable, memory, cur, seq, held, told, budget>>

\* Every `return fail(...)': the directory is retained for an operator.
OpenRefused ==
    /\ \/ op = "down" /\ (disk.manp = Torn \/ (disk.manp # 0 /\ disk.manp < disk.man))
       \/ op = "open" /\ step = "pending" /\ PendingRefused
       \/ op = "open" /\ step = "scan"
          /\ (TooManyEntries \/ (AllDecode /\ DuplicateAdmission(disk)))
       \/ op = "open" /\ step = "activation" /\ ActivationRefused
       \/ op = "open" /\ step = "budget" /\ OverBudget
    /\ op' = "refused" /\ step' = "none"
    /\ UNCHANGED <<disk, durable, memory, cur, seq, loop, told, budget>>

-----------------------------------------------------------------------------
(* The environment.  A killed process leaves the directory it saw, a power  *)
(* loss the directory that was last fsynced; both lose the memory.          *)

Crash ==
    /\ op \notin {"down", "refused"} /\ crashes < MaxCrashes
    /\ crashes' = crashes + 1
    /\ disk' \in {disk, durable}
    /\ next' = 0 /\ ready' = {} /\ admissions' = [a \in Admissions |-> 0]
    /\ bytes' = 0 /\ count' = 0 /\ closed' = FALSE /\ corrupt' = 0
    /\ wake' = FALSE /\ consumer' = "stopped" /\ held' = 0
    /\ op' = "down" /\ step' = "none"
    /\ UNCHANGED <<durable, cur, seq, told, faults>>

\* A record at rest becomes unreadable; nothing is promised for it any more.
Damaged(d, s) ==
    IF d.recs[s] = disk.recs[s] THEN [d EXCEPT !.recs[s].ok = FALSE] ELSE d

Damage(s) ==
    /\ op \in {"idle", "down"} /\ faults < MaxFaults
    /\ disk.recs[s] # NoFile /\ disk.recs[s].ok
    /\ faults' = faults + 1
    /\ disk' = Damaged(disk, s) /\ durable' = Damaged(durable, s)
    /\ released' = released \cup {disk.recs[s].id}
    /\ UNCHANGED <<memory, running, loop, fsynced, existing, activated, crashes>>

-----------------------------------------------------------------------------
SaveManifest == ManifestWritten \/ ManifestRenamed
WriteRecord == RecordWritten \/ RecordRenamed
WriteReplacement == ReplacementWritten \/ ReplacementRenamed
PutAdmission ==
    (\E a \in Admissions : PutExisting(a) \/ PutBegin(a)) \/ PutReserved \/ PutReturn
Activate ==
    (\E a \in Admissions : ActivateBegin(a) \/ ActivateBlocked(a)) \/ ActivateReturn
NextItem ==
    \/ NextReturns \/ NextWaits \/ NextWoken \/ NextClosed
    \/ NextQuarantines \/ QuarantineReturn \/ QuarantineFails
Ack ==
    \/ SendExhausted \/ SendStops
    \/ AckRefused \/ AckRemoves \/ AckReturn \/ AckFails
OpenLogDisk ==
    \/ OpenManifest \/ OpenManifestSynced \/ OpenPending \/ OpenPendingSynced
    \/ (\E s \in Seqs : OpenQuarantines(s)) \/ OpenScanned \/ OpenActivation
    \/ OpenActivationSynced \/ OpenReturn \/ OpenRefused
Environment == Crash \/ \E s \in Seqs : Damage(s)

Next ==
    \/ SaveManifest \/ WriteRecord \/ WriteReplacement
    \/ PutAdmission \/ Activate \/ WriteFails
    \/ NextItem \/ Ack \/ Close \/ OpenLogDisk \/ Environment

Spec == Init /\ [][Next]_vars

-----------------------------------------------------------------------------
(* Properties.                                                              *)

Steps == {"none", "mwrite", "mrename", "msync", "write", "rename", "sync",
          "pending", "scan", "activation", "arename", "async", "budget"}
Ops == {"down", "open", "refused", "idle", "put", "activate", "quarantine", "ack"}

\* The type of the variables.  q.bytes, whose type is what a sum over the
\* directory yields, is left to WithinBudget.
TypeOK ==
    /\ disk \in Image /\ durable \in Image
    /\ next \in Nat /\ ready \subseteq Seqs
    /\ admissions \in [Admissions -> 0..MaxSeq]
    /\ count \in Int /\ corrupt \in Nat
    /\ closed \in BOOLEAN /\ wake \in BOOLEAN
    /\ op \in Ops /\ step \in Steps /\ cur \in Admissions /\ seq \in Nat
    /\ consumer \in {"check", "wait", "holds", "acks", "stopped"} /\ held \in Nat
    /\ fsynced \subseteq Admissions /\ existing \subseteq Admissions
    /\ activated \subseteq Admissions /\ released \subseteq Admissions
    /\ crashes \in Nat /\ faults \in Nat

\* PutAdmission's promise (steps 2 and 3 of the documented handoff rely on it):
\* once it returns a new receipt, the record stays in the directory through
\* kills, power losses, failing writes and reopening, until it is acknowledged
\* or its file is damaged.
AdmittedSurvives ==
    \A a \in fsynced \ released : HasRecord(disk, a) /\ HasRecord(durable, a)

\* Activate's promise: once it returns, the record is deliverable after any
\* crash, without the source's help.
ActivatedSurvives ==
    \A a \in activated \ released : HasReady(disk, a) /\ HasReady(durable, a)

\* Admission is idempotent across crashes: no directory a crash can leave holds
\* one identity under two numbers, staged admission included.  OpenLogDisk
\* refuses such a directory for good.
OneRecordPerAdmission ==
    \A d \in {disk, durable} :
        /\ ~DuplicateAdmission(d)
        /\ d.pend # NoFile => ~HasRecord(d, d.pend.id)

\* "Interrupted manifest, admission, and activation renames are recovered":
\* OpenLogDisk refuses a directory only when a write was torn by the crash or a
\* record was damaged, never because of where a rename was interrupted.
RefusalJustified ==
    op = "refused" =>
        \/ disk.manp = Torn
        \/ disk.pend # NoFile /\ ~disk.pend.ok
        \/ disk.repl # NoFile /\ ~disk.repl.ok
        \/ disk.bad # {} /\ (TooManyEntries \/ disk.repl # NoFile)

\* No lost wakeup: while the delivery loop waits and a record is deliverable, a
\* token is in q.wake (capacity 1, sends that find it full are dropped).
NoLostWakeup == consumer = "wait" /\ ready # {} => wake

\* The directory never holds more than the configured budget, whatever images
\* crashes leave, and the counters never understate what is stored.
WithinBudget ==
    /\ \A d \in {disk, durable} :
          Charged(d) <= MaxBytes /\ Cardinality(Stored(d)) <= MaxItems
    /\ Idle /\ ~closed => bytes >= Charged(disk) /\ count >= Cardinality(Stored(disk))

\* PutAdmission also answers existed = TRUE for a record it found when the spool
\* was opened, and the source then commits its checkpoint just the same.
ExistingSurvives ==
    \A a \in existing \ released : HasRecord(disk, a)

-----------------------------------------------------------------------------
(* The spool as the queue its callers rely on.  A record is in the queue    *)
(* while some image a crash can leave holds it.                             *)

QueuedAs(a) == IF HasRecord(disk, a) THEN NumberOf(disk, a) ELSE NumberOf(durable, a)
Promise(a) ==
    IF a \in released THEN "none"
    ELSE IF a \in activated THEN "ready"
    ELSE IF a \in fsynced THEN "stored" ELSE "none"

Queue == INSTANCE DurableQueue WITH
    pos <- [a \in Admissions |-> QueuedAs(a)],
    ready <- {a \in Admissions : HasReady(disk, a) \/ HasReady(durable, a)},
    promise <- [a \in Admissions |-> Promise(a)],
    damaged <- {a \in Admissions : \E s \in Stored(disk) :
                                      disk.recs[s].id = a /\ ~disk.recs[s].ok},
    leaving <- {a \in Admissions : HasRecord(durable, a) /\ ~HasRecord(disk, a)}

\* File by file, fsync by fsync and crash by crash, the spool is a first-in
\* first-out queue that keeps what its callers were told.
ImplementsQueue == Queue!Spec

-----------------------------------------------------------------------------
(* The inductive invariant behind the theorems of LogSpool_proofs.          *)

\* What holds of every directory image a crash can leave: stored numbers are
\* below the manifest's, a staged admission owns the reserved number, which is
\* free, and a damaged record was reported as such.
ImageInv(d) ==
    /\ d.man <= MaxSeq + 1 /\ d.manp \in -1..(MaxSeq + 1)
    /\ d.manp > 0 => d.manp >= d.man
    /\ \A s \in Seqs : d.recs[s] # NoFile => s < d.man
    /\ \A s, t \in Seqs : /\ d.recs[s] # NoFile /\ d.recs[t] # NoFile
                          /\ d.recs[s].id = d.recs[t].id
                          => s = t
    /\ \A s \in Seqs : d.recs[s] # NoFile /\ ~d.recs[s].ok
                          => d.recs[s].id \in released
    /\ d.pend # NoFile =>
          /\ d.manp = 0 /\ d.man > 1 /\ d.recs[d.man - 1] = NoFile
          /\ \A s \in Seqs : d.recs[s] # NoFile => d.recs[s].id # d.pend.id

\* q.admissions knows every stored record, except one that is being written.
Indexed(except) ==
    \A s \in Seqs \ except :
        disk.recs[s] # NoFile => admissions[disk.recs[s].id] = s

\* ... and never points at another identity's record, even once closed.
NoMisdirection ==
    \A a \in Admissions :
        admissions[a] # 0 /\ disk.recs[admissions[a]] # NoFile
          => disk.recs[admissions[a]].id = a

IndexInv ==
    /\ Up \/ step \in {"activation", "arename", "async", "budget"} =>
          NoMisdirection /\ \A a \in Admissions : admissions[a] < next
    /\ ~closed /\ (op \in {"idle", "activate", "ack", "quarantine"}
                   \/ step \in {"activation", "arename", "async", "budget"})
          => /\ Indexed({})
             /\ next = disk.man /\ disk.manp = 0 /\ disk.pend = NoFile

PutInv ==
    op = "put" =>
        /\ ~closed /\ seq \in Seqs /\ next = seq + 1
        /\ admissions[cur] = 0 /\ \A a \in Admissions : admissions[a] < seq
        /\ Indexed({seq})
        /\ step \in {"mwrite", "mrename", "msync", "write", "rename", "sync"}
        /\ step \in {"mwrite", "mrename"} =>
              /\ disk.man = seq /\ disk.pend = NoFile
              /\ disk.manp = IF step = "mwrite" THEN Torn ELSE next
        /\ step \in {"msync", "write", "rename", "sync"} =>
              disk.man = next /\ disk.manp = 0
        /\ step \in {"msync", "sync"} => disk.pend = NoFile
        /\ step \in {"mwrite", "mrename", "msync", "write", "rename"} =>
              disk.recs[seq] = NoFile
        /\ step = "write" => disk.pend = Rec(cur, FALSE, FALSE)
        /\ step = "rename" => disk.pend = Rec(cur, FALSE, TRUE)
        /\ step = "sync" => disk.recs[seq] = Rec(cur, FALSE, TRUE)

OpenInv ==
    op = "open" =>
        /\ ~closed
        /\ step \in {"mwrite", "mrename", "msync", "pending", "rename", "sync",
                     "scan", "activation", "arename", "async", "budget"}
        /\ step = "mwrite" =>
              next = 1 /\ disk.man = 0 /\ disk.manp = Torn /\ disk.pend = NoFile
        /\ step = "mrename" => disk.manp > 0
        /\ step \in {"msync", "pending", "rename", "sync", "scan"} =>
              disk.manp = 0 /\ disk.man > 0
        /\ step \in {"rename", "sync", "scan"} => next = disk.man
        /\ step = "rename" => /\ disk.pend # NoFile /\ disk.pend.ok
                             /\ seq = disk.man - 1
        /\ step \in {"sync", "scan"} => disk.pend = NoFile
        /\ step = "activation" =>
              \A a \in Admissions : admissions[a] # 0 => disk.recs[admissions[a]] # NoFile
        /\ step = "arename" => disk.repl # NoFile /\ disk.repl.ok /\ disk.repl.ready
                                /\ cur = disk.repl.id
        /\ step \in {"arename", "async"} =>
              seq \in Seqs /\ disk.recs[seq] # NoFile /\ disk.recs[seq].id = cur

ActivateInv ==
    op = "activate" =>
        /\ seq \in Seqs /\ admissions[cur] = seq
        /\ disk.recs[seq] # NoFile /\ disk.recs[seq].id = cur
        /\ step \in {"write", "rename", "sync"}
        /\ step = "rename" => disk.repl = Rec(cur, TRUE, TRUE)
        /\ step = "sync" => disk.recs[seq].ready

RemovalInv ==
    op \in {"ack", "quarantine"} =>
        /\ seq \in Seqs /\ ~closed /\ disk.recs[seq] = NoFile
        /\ admissions[cur] = seq

LoopInv ==
    /\ op \in {"down", "open", "refused"} => consumer = "stopped"
    /\ op \in {"down", "refused"} => ~closed
    /\ op \in {"down", "refused", "idle"} => step = "none"
    /\ op = "ack" => consumer = "acks"
    /\ op = "quarantine" => consumer = "check"

IInv ==
    /\ TypeOK
    /\ ImageInv(disk) /\ ImageInv(durable)
    /\ IndexInv /\ PutInv /\ OpenInv /\ ActivateInv /\ RemovalInv /\ LoopInv
    /\ AdmittedSurvives /\ ActivatedSurvives /\ NoLostWakeup

-----------------------------------------------------------------------------
(* The invariant behind the budget and the refusals, inductive given IInv.  *)

\* The bytes and items of an image once its staged admission is recovered.
Total(d) == Charged(d) + (IF d.pend = NoFile THEN 0 ELSE Charge(d.pend))
Items(d) == Cardinality(Stored(d)) + (IF d.pend = NoFile THEN 0 ELSE 1)

\* Every image a crash can leave fits the budget, with the staged admission, and
\* a staged activation has a record to replace unless one was quarantined.
FitsInv(d) ==
    /\ Total(d) <= MaxBytes /\ Items(d) <= MaxItems
    /\ d.repl # NoFile => d.repl.ready /\ (d.bad = {} => HasRecord(d, d.repl.id))

\* The scan is over.
Counted == op = "open" /\ step \in {"activation", "arename", "async", "budget"}

\* q.bytes and q.count cover what is stored, less what PutAdmission is about to
\* add and with what Ack and quarantine are about to subtract.
CounterInv ==
    /\ bytes \in Int
    /\ ~closed /\ (op \in {"idle", "activate"} \/ Counted) =>
          bytes >= Charged(disk) /\ count >= Cardinality(Stored(disk))
    /\ Counted => bytes <= MaxBytes /\ count <= MaxItems
    /\ op = "open" /\ step = "activation" => AllDecode
    /\ op \in {"ack", "quarantine"} =>
          /\ bytes >= Charged(disk) + ReadyCost[cur]
          /\ count >= Cardinality(Stored(disk)) + 1
    /\ op = "put" =>
          /\ bytes + PutCost[cur] <= MaxBytes /\ count + 1 <= MaxItems
          /\ IF step = "sync"
               THEN /\ bytes + PutCost[cur] >= Charged(disk)
                    /\ count + 1 >= Cardinality(Stored(disk))
               ELSE bytes >= Charged(disk) /\ count >= Cardinality(Stored(disk))

\* What q.names holds was stored as ready, which is what Forget charges for, and
\* only Activate and its recovery leave .replace.pending behind.
ReadyInv ==
    ~closed /\ (Up \/ Counted) =>
        /\ \A s \in ready : /\ s < (IF op = "put" THEN seq ELSE next)
                            /\ disk.recs[s] # NoFile => disk.recs[s].ready
        /\ op \in {"put", "ack", "quarantine"}
             \/ step \notin {"write", "rename", "activation", "arename"} => disk.repl = NoFile
        /\ step = "async" => disk.recs[seq].ready

BInv ==
    /\ FitsInv(disk) /\ FitsInv(durable) /\ CounterInv /\ ReadyInv
    /\ RefusalJustified

-----------------------------------------------------------------------------
(* The invariant behind the refinement, inductive given IInv and BInv.      *)

\* Image e is what a power loss leaves of d: no number and no admission stands
\* for different records in the two, what e has as ready or damaged is so in d
\* unless d has dropped it, and the admission staged in d is new to e.
Lags(e, d) ==
    /\ e.man <= d.man
    /\ \A s, t \in Seqs : e.recs[s] # NoFile /\ d.recs[t] # NoFile =>
          /\ s = t <=> e.recs[s].id = d.recs[t].id
          /\ s = t => (e.recs[s].ready => d.recs[t].ready) /\ (d.recs[t].ok => e.recs[s].ok)
    /\ d.pend # NoFile => \A s \in Seqs : e.recs[s] # NoFile =>
          s # d.man - 1 /\ e.recs[s].id # d.pend.id

\* q.names holds what is stored as ready, but for the record being activated,
\* which decodes.
NamesInv ==
    /\ ~closed /\ (Up \/ Counted) =>
          \A s \in Stored(disk) : disk.recs[s].ready =>
              \/ s \in ready
              \/ s = seq /\ (op = "activate" \/ (op = "open" /\ step \in {"arename", "async"}))
    /\ op = "activate" \/ (op = "open" /\ step = "arename") => disk.recs[seq].ok

\* An admission is staged with ready=false.
Unready(d) == d.pend # NoFile => ~d.pend.ready

LagInv == Lags(durable, disk) /\ NamesInv
QInv == LagInv /\ Unready(disk) /\ Unready(durable)

=============================================================================
