------------------------------- MODULE Tailer -------------------------------
(***************************************************************************)
(* One file source, internal/logtail/tailer_linux.go (Tailer): discovery   *)
(* by inode, rotation, copytruncate, inode reuse, single-line and          *)
(* multiline assembly, and the checkpoint file.  Applications append and   *)
(* logrotate rotates, truncates or deletes between any two steps of a      *)
(* poll, and a writer may go on appending to the file it had before a      *)
(* rotation; the agent may be stopped or killed anywhere.                  *)
(*                                                                         *)
(* Offsets count lines, a line is appended whole, and the spool keeps what *)
(* it admitted (LogsPipeline opens up activation and delivery).            *)
(*                                                                         *)
(* Three ghosts say which lines the code is known to pass: epoch[i] counts *)
(* the contents inode i has had, a position carries the epoch of the       *)
(* content it was counted in, and excused holds the lines that the code    *)
(* passes by design gaps named where they are added to it.                 *)
(***************************************************************************)
EXTENDS Integers, Sequences, FiniteSets

CONSTANTS
    Inodes,          \* inodes the followed name may come to denote
    None,            \* no checkpoint, no open file
    Configs,         \* configurations of the source, see ConfigType
    MaxPending,      \* multiline.max_lines
    FpLines,         \* lines that the 256 fingerprinted bytes cover
    MaxLines, MaxReplaced, MaxStops, MaxFaults   \* bounds

ConfigType ==
    [startAt : {"beginning", "end"},
     multiline : BOOLEAN,
     maxOpen : Nat \ {0},          \* max_open_files
     maxCheckpoints : Nat,         \* 4 * max_files
     rotatedMatches : BOOLEAN,     \* a rotated name still matches include
     kinds : SUBSET {"start", "more", "big"}]
                                   \* lines written: "start" matches
                                   \* start_pattern, "big" is oversized or empty

ASSUME TailerAssumption ==
    /\ Configs \subseteq ConfigType
    /\ MaxPending \in Nat \ {0} /\ FpLines \in Nat \ {0}
    /\ MaxLines \in Nat /\ MaxReplaced \in Nat /\ MaxStops \in Nat /\ MaxFaults \in Nat

\* A line has a number, an open file what tailState holds of it, and a stored
\* record its admission identity.
LogLines == [n : 1..MaxLines, kind : {"start", "more", "big"}]
Checkpoints == [offset : Nat, gen : Nat, fp : Seq(LogLines), epoch : Nat]
PendingRecords == [from : Nat, to : Nat, lines : SUBSET (1..MaxLines), passed : SUBSET (1..MaxLines)]
FileStates == [committed : Nat, read : Nat, gen : Nat, fp : Seq(LogLines), pend : PendingRecords,
               lost : {"no", "noted", "minute"}, epoch : Nat]
                                   \* lost: lostAt is unset, set, set a minute ago
Admissions == [id : Inodes \X Nat \X Nat \X Nat, lines : SUBSET (1..MaxLines), epoch : Nat]

ASSUME NoneAssumption == Inodes # {} /\ None \notin Checkpoints /\ None \notin FileStates

VARIABLES
    config,
    content, live, listed, lines, epoch, \* the file system
    saved,                      \* on disk: the checkpoint file
    spooled, rejected, before,  \* lines admitted, refused locally, and in a
                                \* file when start_at: end first saw it
    excused,
    cps, open,                  \* t.checkpoints.Files, t.states
    pc, todo, seen, cur, limit, \* where pollOnce is
    stops, faults

system == <<config, content, live, listed, lines, epoch>>
handled == <<spooled, rejected, before, excused>>
poll == <<pc, todo, seen, cur, limit>>
vars == <<system, saved, handled, cps, open, poll, stops, faults>>

Fingerprint(i) == SubSeq(content[i], 1, IF Len(content[i]) < FpLines THEN Len(content[i]) ELSE FpLines)
NoPending == [from |-> 0, to |-> 0, lines |-> {}, passed |-> {}]
Pending(o) == Cardinality(o.pend.lines)

Init ==
    /\ config \in Configs
    /\ content = [i \in Inodes |-> <<>>] /\ lines = 0 /\ epoch = [i \in Inodes |-> 0]
    /\ live = (CHOOSE i \in Inodes : TRUE) /\ listed = {live}
    /\ saved = [i \in Inodes |-> None] /\ cps = saved /\ open = saved
    /\ spooled = {} /\ rejected = {} /\ before = {} /\ excused = {}
    /\ pc = "down" /\ todo = {} /\ seen = {} /\ cur = None /\ limit = 0
    /\ stops = 0 /\ faults = 0

-----------------------------------------------------------------------------
(* Applications and logrotate.                                              *)

\* The lines at the first k positions of inode i.
Lines(i, k) == {content[i][j].n : j \in {j \in 1..Len(content[i]) : j <= k}}

\* A line goes to the followed file, or to a rotated one that its writer still
\* holds or opens by its new name, whether or not that name matches.
Append1(i, k) ==
    /\ i = live \/ content[i] # <<>>
    /\ lines < MaxLines /\ lines' = lines + 1
    /\ content' = [content EXCEPT ![i] = Append(@, [n |-> lines + 1, kind |-> k])]
    /\ UNCHANGED <<config, live, listed, epoch, saved, handled, cps, open, poll, stops, faults>>

Rotate(i) ==
    /\ i \notin listed /\ content[i] = <<>> /\ open[i] = None /\ content[live] # <<>>
    /\ live' = i
    /\ listed' = IF config.rotatedMatches THEN listed \cup {i} ELSE {i}
    /\ UNCHANGED <<config, content, lines, epoch, saved, handled, cps, open, poll, stops, faults>>

\* The content of an inode is gone: a copytruncate of the followed file, or a
\* rotated file is deleted and its inode, which nothing holds open, is free.
Replaced(i) ==
    /\ content[i] # <<>> /\ epoch[i] < MaxReplaced
    /\ content' = [content EXCEPT ![i] = <<>>] /\ epoch' = [epoch EXCEPT ![i] = @ + 1]
    /\ UNCHANGED <<config, live, lines, saved, handled, cps, open, poll, stops, faults>>

Truncate == Replaced(live) /\ UNCHANGED listed
Delete(i) == i # live /\ open[i] = None /\ Replaced(i) /\ listed' = listed \ {i}

-----------------------------------------------------------------------------
(* saveCheckpoint replaces the whole file; a failure may come after the     *)
(* rename took effect.                                                      *)

Save(c) == saved' = c /\ UNCHANGED faults
SaveFails(c) == faults < MaxFaults /\ faults' = faults + 1 /\ saved' \in {saved, c}

Checkpoint(offset, g, fp, e) == [offset |-> offset, gen |-> g, fp |-> fp, epoch |-> e]

\* loadCheckpoint refuses a file that names too many inodes; nothing prunes it,
\* and the source then stays down.
Loadable == Cardinality({i \in Inodes : saved[i] # None}) <= config.maxCheckpoints

\* Start: load the checkpoint; nothing is open.
Start ==
    /\ pc = "down" /\ Loadable /\ pc' = "idle"
    /\ cps' = saved
    /\ UNCHANGED <<system, saved, handled, open, todo, seen, cur, limit, stops, faults>>

\* Pending lines of i that the checkpoint on disk has passed because an oversized
\* line after them was committed.
Overtaken(i) == IF open[i] = None THEN {} ELSE open[i].pend.passed

\* Stop or kill: the checkpoint file and the spool stay.  A pending record goes,
\* and with it the lines that were overtaken.
Stop ==
    /\ pc # "down" /\ stops < MaxStops /\ stops' = stops + 1
    /\ pc' = "down" /\ todo' = {} /\ seen' = {} /\ cur' = None /\ limit' = 0
    /\ open' = [i \in Inodes |-> None] /\ cps' = open'
    /\ excused' = excused \cup UNION {Overtaken(i) : i \in Inodes}
    /\ UNCHANGED <<system, saved, spooled, rejected, before, faults>>

\* pollOnce: the names that match.
PollBegin ==
    /\ pc = "idle" /\ pc' = "discover"
    /\ seen' = listed /\ todo' = listed
    /\ UNCHANGED <<system, saved, handled, cps, open, cur, limit, stops, faults>>

OpenFiles == {i \in Inodes : open[i] # None}

\* The file is open, too many are, or its name is gone meanwhile.
DiscoverKnown(i) ==
    /\ pc = "discover" /\ i \in todo
    /\ \/ open[i] # None /\ open' = [open EXCEPT ![i].lost = "no"]
       \/ open[i] = None /\ Cardinality(OpenFiles) >= config.maxOpen /\ UNCHANGED open
       \/ open[i] = None /\ i \notin listed /\ UNCHANGED open
    /\ todo' = todo \ {i}
    /\ UNCHANGED <<system, saved, handled, cps, pc, seen, cur, limit, stops, faults>>

Known(i) == cps[i] # None /\ cps[i].fp = Fingerprint(i)
Generation(i) ==
    IF cps[i] = None THEN 0 ELSE IF Known(i) THEN cps[i].gen ELSE cps[i].gen + 1

\* A known inode resumes at its checkpoint.  One whose fingerprint changed keeps
\* the old offset, or starts at the end if so configured.
Offset(i) ==
    IF ~Known(i) /\ config.startAt = "end" THEN Len(content[i])
    ELSE IF cps[i] = None THEN 0 ELSE cps[i].offset

\* A position resumed from a checkpoint was counted in the checkpoint's content.
PositionEpoch(i) ==
    IF cps[i] = None \/ (~Known(i) /\ config.startAt = "end") THEN epoch[i] ELSE cps[i].epoch

Opened(i) ==
    [committed |-> Offset(i), read |-> Offset(i), gen |-> Generation(i),
     fp |-> Fingerprint(i), pend |-> NoPending, lost |-> "no", epoch |-> PositionEpoch(i)]

Discover(i) ==
    /\ pc = "discover" /\ i \in todo \cap listed
    /\ open[i] = None /\ Cardinality(OpenFiles) < config.maxOpen
    /\ todo' = todo \ {i}
    /\ LET c == [cps EXCEPT ![i] =
                   Checkpoint(Offset(i), Generation(i), Fingerprint(i), PositionEpoch(i))]
       IN  \/ Known(i) /\ open' = [open EXCEPT ![i] = Opened(i)] /\ UNCHANGED <<cps, saved, faults>>
           \/ ~Known(i) /\ cps' = c /\ Save(c) /\ open' = [open EXCEPT ![i] = Opened(i)]
           \/ ~Known(i) /\ cps' = c /\ SaveFails(c) /\ UNCHANGED open
    /\ before' = IF cps[i] = None THEN before \cup Lines(i, Offset(i)) ELSE before
    /\ UNCHANGED <<system, spooled, rejected, excused, pc, seen, cur, limit, stops>>

\* Files that are open and were not seen are lost, if they were not before.
Discovered ==
    /\ pc = "discover" /\ todo = {}
    /\ open' = [i \in Inodes |->
                  IF open[i] # None /\ i \notin seen /\ open[i].lost = "no"
                    THEN [open[i] EXCEPT !.lost = "noted"] ELSE open[i]]
    /\ todo' = OpenFiles /\ seen' = {} /\ pc' = "consume"
    /\ UNCHANGED <<system, saved, handled, cps, cur, limit, stops, faults>>

\* A minute passes before the next poll reads the time.
MinutePasses(i) ==
    /\ pc = "idle" /\ open[i] # None /\ open[i].lost = "noted"
    /\ open' = [open EXCEPT ![i].lost = "minute"]
    /\ UNCHANGED <<system, saved, handled, cps, poll, stops, faults>>

Polled ==
    /\ pc = "consume" /\ todo = {} /\ pc' = "idle"
    /\ UNCHANGED <<system, saved, handled, cps, open, todo, seen, cur, limit, stops, faults>>

-----------------------------------------------------------------------------
(* consume.                                                                 *)

NextFile == pc' = "consume" /\ todo' = todo \ {cur} /\ cur' = None /\ limit' = 0 /\ UNCHANGED seen
Goto(p) == pc' = p /\ UNCHANGED <<todo, seen, cur, limit>>
File == open[cur]
Update(o) == open' = [open EXCEPT ![cur] = o]

\* Mutation: a lost file is closed with its pending record.
KeptOrClosedPending(o) == IF o.lost = "minute" THEN None ELSE o

\* However consume ended, a file that has been lost for a minute is closed unless
\* a record is pending.
KeptOrClosed(o) == IF o.lost = "minute" /\ Pending(o) = 0 THEN None ELSE o
Leave(o) == NextFile /\ Update(KeptOrClosed(o))

\* A file that was replaced and is not shorter than what was committed is taken
\* for the old one: what it holds before the read position is not read, for good
\* once it has grown past that position or when no flush will commit more.
Regrown(i) == Len(content[i]) >= open[i].read
Unnoticed(i) == open[i].epoch # epoch[i] /\ (Regrown(i) \/ Pending(open[i]) = 0)

Consume(i) ==
    /\ pc = "consume" /\ i \in todo /\ Len(content[i]) >= open[i].committed
    /\ cur' = i /\ limit' = Len(content[i]) /\ pc' = "lines"
    /\ open' = IF Regrown(i) THEN [open EXCEPT ![i].epoch = epoch[i]] ELSE open
    /\ excused' = IF Unnoticed(i) THEN excused \cup Lines(i, open[i].read) ELSE excused
    /\ UNCHANGED <<system, saved, spooled, rejected, before, cps, todo, seen, stops, faults>>

\* The file is shorter than what was committed: a new generation, from zero.
ConsumeTruncated(i) ==
    /\ pc = "consume" /\ i \in todo /\ Len(content[i]) < open[i].committed
    /\ LET g == open[i].gen + 1
           c == [cps EXCEPT ![i] = Checkpoint(0, g, Fingerprint(i), epoch[i])]
           o == [open[i] EXCEPT !.gen = g, !.fp = Fingerprint(i), !.read = 0,
                                !.committed = 0, !.pend = NoPending, !.epoch = epoch[i]]
       IN  \/ /\ cps' = c /\ Save(c) /\ open' = [open EXCEPT ![i] = o]
              /\ cur' = i /\ limit' = Len(content[i]) /\ pc' = "lines" /\ UNCHANGED todo
           \/ /\ SaveFails(c) /\ open' = [open EXCEPT ![i] = KeptOrClosed(o)]
              /\ todo' = todo \ {i} /\ UNCHANGED <<cps, cur, limit, pc>>
    /\ UNCHANGED <<system, handled, seen, stops>>

\* Mutation: the last line of the file is left for a later poll.
HasLineLate == pc = "lines" /\ File.read + 1 < limit /\ File.read < Len(content[cur])

\* readLine hits the end of the file when it was truncated meanwhile.
HasLine == pc = "lines" /\ File.read < limit /\ File.read < Len(content[cur])
Line == content[cur][File.read + 1]

Committed(o, offset) == [cps EXCEPT ![cur] = Checkpoint(offset, o.gen, o.fp, o.epoch)]

\* An oversized line, or an empty one in single-line mode: passed with an empty
\* admission.
RejectLine ==
    /\ HasLine /\ Line.kind = "big"
    /\ rejected' = rejected \cup {Line.n}
    /\ LET c == Committed(File, File.read + 1)
       IN  \/ /\ cps' = c /\ Save(c) /\ Goto("lines")
              /\ Update([File EXCEPT !.read = @ + 1, !.committed = File.read + 1,
                                     !.pend.passed = File.pend.lines])
           \/ /\ SaveFails(c) /\ UNCHANGED cps
              /\ Leave([File EXCEPT !.read = @ + 1,
                           !.pend.passed = IF saved' = c THEN File.pend.lines ELSE @])
    /\ UNCHANGED <<system, spooled, before, excused, stops>>

\* The pending record with the next line.
Extended ==
    [from |-> IF Pending(File) = 0 THEN File.read ELSE File.pend.from,
     to |-> File.read + 1, lines |-> File.pend.lines \cup {Line.n}, passed |-> File.pend.passed]

\* Single-line mode: a line is a record.
EmitLine ==
    /\ HasLine /\ Line.kind # "big" /\ ~config.multiline
    /\ Update([File EXCEPT !.pend = Extended, !.read = @ + 1])
    /\ Goto("admit")
    /\ UNCHANGED <<system, saved, handled, cps, stops, faults>>

\* The pending record is complete: a new one starts, or it is full.
MustFlush == Pending(File) > 0 /\ (Line.kind = "start" \/ Pending(File) >= MaxPending)

EmitPending ==
    /\ HasLine /\ Line.kind # "big" /\ config.multiline /\ MustFlush
    /\ Goto("admit")
    /\ UNCHANGED <<system, saved, handled, cps, open, stops, faults>>

\* Mutation: an assembled line is committed before its record is flushed.
TakeLineCommits ==
    /\ HasLine /\ Line.kind # "big" /\ config.multiline /\ ~MustFlush
    /\ Update([File EXCEPT !.pend = Extended, !.read = @ + 1, !.committed = File.read + 1])
    /\ cps' = Committed(File, File.read + 1) /\ Save(cps')
    /\ Goto("lines")
    /\ UNCHANGED <<system, handled, stops>>

TakeLine ==
    /\ HasLine /\ Line.kind # "big" /\ config.multiline /\ ~MustFlush
    /\ Update([File EXCEPT !.pend = Extended, !.read = @ + 1])
    /\ Goto("lines")
    /\ UNCHANGED <<system, saved, handled, cps, stops, faults>>

\* The flush timeout has passed for a pending record.
FlushTimeout ==
    /\ pc = "lines" /\ ~HasLine /\ Pending(File) > 0
    /\ Goto("admit")
    /\ UNCHANGED <<system, saved, handled, cps, open, stops, faults>>

FileDone ==
    /\ pc = "lines" /\ ~HasLine
    /\ Leave(File)
    /\ UNCHANGED <<system, saved, handled, cps, stops, faults>>

-----------------------------------------------------------------------------
(* emit: admit, commit, activate.                                           *)

AdmissionID == <<cur, File.gen, File.pend.from, File.pend.to>>

Held == {r \in spooled : r.id = AdmissionID}

\* An identity the spool holds is not stored again, also when it was given to
\* lines of an earlier content of the file.
Admit ==
    /\ pc = "admit" /\ Goto("commit")
    /\ spooled' = IF Held # {} THEN spooled
                  ELSE spooled \cup {[id |-> AdmissionID, lines |-> File.pend.lines, epoch |-> File.epoch]}
    /\ excused' = IF \E r \in Held : r.epoch # File.epoch THEN excused \cup File.pend.lines ELSE excused
    /\ UNCHANGED <<system, saved, rejected, before, cps, open, stops, faults>>

\* Single-line mode goes back to what is committed; a pending record is kept.
EmitFailed(o) ==
    Leave(IF config.multiline THEN o ELSE [o EXCEPT !.read = o.committed, !.pend = NoPending])

AdmitFails ==
    /\ pc = "admit" /\ faults < MaxFaults /\ faults' = faults + 1
    /\ EmitFailed(File)
    /\ UNCHANGED <<system, saved, handled, cps, stops>>

Commit ==
    /\ pc = "commit"
    /\ LET c == Committed(File, File.pend.to)
       IN  \/ cps' = c /\ Save(c) /\ Goto("activate")
              /\ Update([File EXCEPT !.committed = File.pend.to])
           \/ SaveFails(c) /\ UNCHANGED cps /\ EmitFailed(File)
    /\ UNCHANGED <<system, handled, stops>>

Activate ==
    /\ pc = "activate" /\ Goto("lines")
    /\ Update([File EXCEPT !.pend = NoPending])
    /\ UNCHANGED <<system, saved, handled, cps, stops, faults>>

ActivateFails ==
    /\ pc = "activate" /\ faults < MaxFaults /\ faults' = faults + 1
    /\ EmitFailed(File)
    /\ UNCHANGED <<system, saved, handled, cps, stops>>

-----------------------------------------------------------------------------
TailerStep ==
    \/ Start \/ PollBegin \/ Discovered \/ Polled
    \/ \E i \in Inodes : DiscoverKnown(i) \/ Discover(i) \/ Consume(i) \/ ConsumeTruncated(i)
    \/ RejectLine \/ EmitLine \/ EmitPending \/ TakeLine \/ FlushTimeout \/ FileDone
    \/ Admit \/ Commit \/ Activate

Environment ==
    \/ (\E i \in Inodes, k \in config.kinds : Append1(i, k))
    \/ (\E i \in Inodes : Rotate(i) \/ Delete(i) \/ MinutePasses(i)) \/ Truncate
    \/ Stop \/ AdmitFails \/ ActivateFails

Next == TailerStep \/ Environment

Spec == Init /\ [][Next]_vars

Flushes(i) == FlushTimeout /\ cur = i

\* The polling goroutine keeps running, and the agent is started again.  The flush
\* timeout and the minute after which a lost file is closed pass: polls come again
\* and again, and some poll finds them over.
FairSpec ==
    /\ Spec /\ WF_vars(TailerStep)
    /\ \A i \in Inodes : SF_vars(Flushes(i)) /\ SF_vars(MinutePasses(i))

-----------------------------------------------------------------------------
(* Properties.                                                              *)

Handled == rejected \cup before \cup UNION {r.lines : r \in spooled}

\* The type of the variables.
TypeOK ==
    /\ config \in Configs /\ content \in [Inodes -> Seq(LogLines)]
    /\ live \in listed /\ listed \subseteq Inodes /\ lines \in 0..MaxLines /\ epoch \in [Inodes -> Nat]
    /\ saved \in [Inodes -> Checkpoints \cup {None}] /\ cps \in [Inodes -> Checkpoints \cup {None}]
    /\ open \in [Inodes -> FileStates \cup {None}] /\ spooled \subseteq Admissions
    /\ rejected \subseteq 1..MaxLines /\ before \subseteq 1..MaxLines /\ excused \subseteq 1..MaxLines
    /\ pc \in {"down", "idle", "discover", "consume", "lines", "admit", "commit", "activate"}
    /\ todo \subseteq Inodes /\ seen \subseteq Inodes /\ cur \in Inodes \cup {None}
    /\ limit \in Nat /\ stops \in Nat /\ faults \in Nat

\* "The checkpoint never advances when admission fails": what the checkpoint on
\* disk passes of a file the spool holds, was refused locally, or was in the file
\* when start_at: end first saw it, across crashes, rotation, truncation, inode
\* reuse and failing writes.  While the checkpoint speaks of an earlier content
\* nothing is passed yet; the excused lines and those an oversized line overtakes
\* are the gaps that the actions name.
NoSkippedLine ==
    \A i \in Inodes : saved[i] # None /\ saved[i].epoch = epoch[i] =>
        Lines(i, saved[i].offset) \subseteq Handled \cup excused \cup Overtaken(i)

\* "Rename-and-replace retains the renamed descriptor long enough to finish
\* appended data": while the agent runs it lets go of a file only when every line
\* that the Stat of this very poll saw is handled, whoever appended it and when: all
\* that was written within a minute of losing the file, and whatever came later but
\* before that Stat; unless the write it just tried failed, or the file was
\* truncated before and that went unnoticed.  Lines a writer appends between the
\* Stat and the Close, or after it, are not covered: the code never reads them
\* unless the new name matches include.
RotatedFinished ==
    [][\A i \in Inodes :
          /\ open[i] # None /\ open'[i] = None /\ pc' # "down"
          /\ faults' = faults /\ open[i].epoch = epoch[i]
          => Lines(i, limit) \subseteq Handled' \cup excused]_vars

Present == UNION {Lines(i, Len(content[i])) : i \in listed}

\* Every line that stays in a listed file is handled in the end, across
\* restarts, rotation, copytruncate, inode reuse and failing writes, unless it is
\* excused or the source can no longer be started.
EveryLineHandled ==
    \A n \in 1..MaxLines :
        n \in Present ~> n \in Handled \cup excused \/ n \notin Present \/ (pc = "down" /\ ~Loadable)

-----------------------------------------------------------------------------
(* The inductive invariants behind the safety properties.                   *)

Working == pc \in {"lines", "admit", "commit", "activate"}

\* Where pollOnce is: the files it goes through are open, and nothing is open
\* while the agent is down.
ControlInv ==
    /\ Working => cur \in Inodes /\ open[cur] # None
    /\ Working \/ pc = "consume" => todo \subseteq OpenFiles
    /\ pc = "down" => OpenFiles = {}

SInv == TypeOK /\ ControlInv

FromBeginning == config.startAt = "beginning"
Settled == Handled \cup excused

\* The lines of content c behind position a, up to position b.
Span(c, a, b) == {c[j].n : j \in {j \in 1..Len(c) : a < j /\ j <= b}}

\* Lines are numbered as they are written; l were.
ContentOK(c, l) ==
    /\ \A j \in 1..Len(c) : c[j].n <= l
    /\ \A j, k \in 1..Len(c) : c[j].n = c[k].n => j = k

\* An open file o whose inode has content c, its e-th: what was read of it is
\* settled (in S) or pending, and what was committed is settled or overtaken,
\* unless its positions are of an earlier content.
FileOK(o, c, e, l, S) ==
    /\ o.committed <= o.read /\ o.pend.from <= o.pend.to /\ o.pend.to <= o.read
    /\ o.pend.passed \subseteq o.pend.lines /\ \A n \in o.pend.lines : n <= l
    /\ Span(c, 0, Len(c)) \cap o.pend.lines \subseteq Span(c, o.pend.from, o.pend.to)
    /\ o.epoch <= e
    /\ o.epoch = e => /\ o.read <= Len(c)
                      /\ Span(c, 0, o.read) \subseteq S \cup o.pend.lines
                      /\ Span(c, 0, o.committed) \subseteq S \cup o.pend.passed

\* A checkpoint p passes lines that are settled or, in P, overtaken.
PointOK(p, c, e, S, P) ==
    /\ p.epoch <= e
    /\ p.epoch = e => p.offset <= Len(c) /\ Span(c, 0, p.offset) \subseteq S \cup P

\* The positions that the identity of a stored record names are settled, so a
\* record that is found in the spool need not be stored again.
RecordOK(r, c, e, S) ==
    /\ r.epoch <= e
    /\ r.epoch = e => r.id[4] <= Len(c) /\ Span(c, r.id[3], r.id[4]) \subseteq S

\* The lines of an open file that were overtaken in the content it has now.
PassedOf(o, e) == IF o = None THEN {} ELSE IF o.epoch = e THEN o.pend.passed ELSE {}

NumberInv == \A i \in Inodes : ContentOK(content[i], lines)

PositionInv ==
    /\ \A i \in Inodes : open[i] # None => FileOK(open[i], content[i], epoch[i], lines, Settled)
    /\ \A i \in Inodes : saved[i] # None =>
          PointOK(saved[i], content[i], epoch[i], Settled, PassedOf(open[i], epoch[i]))
    /\ \A i \in Inodes : cps[i] # None =>
          PointOK(cps[i], content[i], epoch[i], Settled, PassedOf(open[i], epoch[i]))
    /\ \A r \in spooled : RecordOK(r, content[r.id[1]], epoch[r.id[1]], Settled)

\* In single-line mode a record is pending only while it is emitted.
SingleInv ==
    ~config.multiline => \A i \in Inodes : open[i] # None =>
        /\ open[i].pend.passed = {}
        /\ (i = cur /\ pc \in {"admit", "commit", "activate"}) \/ open[i].pend.lines = {}

\* A record is committed only once its lines are settled.
EmitInv ==
    pc \in {"commit", "activate"} /\ File.epoch = epoch[cur] =>
        Span(content[cur], 0, Len(content[cur])) \cap File.pend.lines \subseteq Settled

TInv == SInv /\ FromBeginning /\ NumberInv /\ PositionInv /\ SingleInv /\ EmitInv

=============================================================================
