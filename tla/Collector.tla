------------------------------ MODULE Collector ------------------------------
(***************************************************************************)
(* A collector from start to stop, over several runs of the agent:         *)
(* Metrics in collectors/metrics.go and the delivery side of Logs in       *)
(* collectors/logs_linux.go.  Start finds out which host this is           *)
(* (cloud/ec2.go, identity/identity.go) and opens the spool that is bound  *)
(* to it; the scraper samples, batches (pipeline/metrics.go) and enqueues  *)
(* while the loop of Sender delivers; Stop cancels and joins both.  The    *)
(* spool itself is MetricsSpool or LogSpool; here it is a bounded sequence *)
(* of records, of which only the host they name matters.                   *)
(*                                                                         *)
(* A measurement is the number of bytes it takes in a request; it is 0 for *)
(* one that the conversion leaves out (not a number, negative, unnamed).   *)
(***************************************************************************)
EXTENDS Sender, SequencesExt, FiniteSetsExt

CONSTANTS
    None,
    Hosts,         \* host identities
    Machines,      \* what the agent may run on, see MachineType
    Samples,       \* what a scrape may read: sequences of measurements
    BatchPoints,   \* batch_points
    RequestBytes,  \* what a request holds besides the resource attributes
    QueueItems,    \* queue_items
    MaxStarts, MaxScrapes, MaxFaults  \* bounds

\* instance, machineID: the identities the machine can tell, or None; enabled and
\* required: ec2_metadata; hinted: the DMI strings name EC2.
MachineType == [instance : Hosts \cup {None}, machineID : Hosts \cup {None},
                enabled : BOOLEAN, required : BOOLEAN, hinted : BOOLEAN]

ASSUME CollectorAssumption ==
    /\ Machines \subseteq MachineType /\ {"unavailable", "invalid"} \cap Hosts = {}
    /\ Samples \subseteq Seq(Nat)
    /\ BatchPoints \in Nat \ {0} /\ RequestBytes \in Nat /\ QueueItems \in Nat \ {0}
    /\ MaxStarts \in Nat /\ MaxScrapes \in Nat /\ MaxFaults \in Nat

\* An error of encode is not a list of batches.
ASSUME ErrorAssumption == None \notin Seq(Seq(Nat))

VARIABLES
    machine,
    host,              \* m.resource["host.id"] of the running collector, or None
    scope,             \* on disk: the host the spool is bound to, or None
    scraper,           \* "off", "idle", "put", "ended"
    sample, batches,   \* of the scrape under way: what is not yet enqueued
    failed,            \* Put failed: m.blocked
    starts, scrapes, faults

scraping == <<scraper, sample, batches, failed>>
vars == <<sender, machine, host, scope, scraping, starts, scrapes, faults>>

Init ==
    /\ SenderInit
    /\ machine \in Machines /\ host = None /\ scope = None
    /\ scraper = "off" /\ sample = <<>> /\ batches = <<>> /\ failed = FALSE
    /\ starts = 0 /\ scrapes = 0 /\ faults = 0

-----------------------------------------------------------------------------
(* Start.                                                                   *)

\* What Detect may answer: the instance of an EC2 host, ErrUnavailable when there
\* is no token, ErrInvalid when what follows is not an identity.
Detect ==
    IF ~machine.enabled THEN {None}
    ELSE {"unavailable", "invalid"} \cup ({machine.instance} \ {None})

\* Start gives up rather than fall back to the machine ID.
Refuses(answer) ==
    \/ answer = "invalid"
    \/ answer = "unavailable" /\ (machine.required \/ machine.hinted)

\* The instance if it was verified, else the machine ID.
Resolve(answer) == IF answer \in {None, "unavailable"} THEN machine.machineID ELSE answer

\* Mutation: the spool opens whatever host it was made for.
OpensAny(h) == TRUE

\* OpenScopedDisk and OpenLogDisk: the scope on disk names this host.
Opens(h) == scope \in {None, h}

Start(answer) ==
    /\ phase = "off" /\ starts < MaxStarts /\ starts' = starts + 1
    /\ answer \in Detect /\ ~Refuses(answer)
    /\ Resolve(answer) # None /\ Opens(Resolve(answer))
    /\ host' = Resolve(answer) /\ scope' = Resolve(answer)
    /\ Reset("next") /\ cancelled' = FALSE
    /\ scraper' = IF signal = "metrics" THEN "idle" ELSE "ended"
    /\ failed' = FALSE
    /\ UNCHANGED <<signal, spool, kept, machine, sample, batches, scrapes, faults>>

\* Metadata, identity, credential or scope: nothing was opened.
StartFails ==
    /\ phase = "off" /\ starts < MaxStarts /\ starts' = starts + 1
    /\ UNCHANGED <<sender, machine, host, scope, scraping, scrapes, faults>>

-----------------------------------------------------------------------------
(* Batches.                                                                 *)

Bytes(points) == FoldSeq(LAMBDA p, n : p + n, 0, points)

\* Mutation: the middle point is in neither half.
HalvesApart(p) == <<SubSeq(p, 1, Len(p) \div 2), SubSeq(p, (Len(p) \div 2) + 2, Len(p))>>

Halves(p) == <<SubSeq(p, 1, Len(p) \div 2), SubSeq(p, (Len(p) \div 2) + 1, Len(p))>>

Both(a, b) == IF None \in {a, b} THEN None ELSE a \o b

\* encode: halve what is too large; one point that is too large is an error.
Encode[p \in Seq(Nat)] ==
    IF Bytes(p) <= RequestBytes THEN <<p>>
    ELSE IF Len(p) <= 1 THEN None
    ELSE Both(Encode[Halves(p)[1]], Encode[Halves(p)[2]])

Batches[p \in Seq(Nat)] ==
    IF p = <<>> THEN <<>>
    ELSE LET n == Smaller(Len(p), BatchPoints)
         IN  Both(Encode[SubSeq(p, 1, n)], Batches[SubSeq(p, n + 1, Len(p))])

-----------------------------------------------------------------------------
(* The scraper, and for Logs the sources.                                   *)

Blocked == failed \/ phase = "paused"

Scrape(s) ==
    /\ scraper = "idle" /\ ~Blocked /\ ~cancelled
    /\ scrapes < MaxScrapes /\ scrapes' = scrapes + 1
    /\ scraper' = "put" /\ sample' = s /\ batches' = Batches[s]
    /\ UNCHANGED <<sender, machine, host, scope, failed, starts, faults>>

EndScrape == scraper' = "idle" /\ sample' = <<>> /\ batches' = <<>>

\* A point is too large: the whole sample is dropped.  Or all is enqueued.
Scraped ==
    /\ scraper = "put" /\ batches \in {None, <<>>}
    /\ EndScrape
    /\ UNCHANGED <<sender, machine, host, scope, failed, starts, scrapes, faults>>

Enqueued == sample' = SubSeq(sample, Len(Head(batches)) + 1, Len(sample)) /\ batches' = Tail(batches)

Put ==
    /\ scraper = "put" /\ batches \notin {None, <<>>}
    /\ ~cancelled /\ Len(spool) < QueueItems
    /\ spool' = Append(spool, host) /\ Enqueued
    /\ UNCHANGED <<signal, progress, hold, kept, cancelled, machine, host, scope, scraper, failed,
                   starts, scrapes, faults>>

\* ErrFull, or the context is done: this batch is lost, the next one is tried.
PutDropped ==
    /\ scraper = "put" /\ batches \notin {None, <<>>}
    /\ cancelled \/ Len(spool) = QueueItems
    /\ Enqueued
    /\ UNCHANGED <<sender, machine, host, scope, scraper, failed, starts, scrapes, faults>>

\* Any other error blocks the collector; the record may be on disk.
PutFails ==
    /\ scraper = "put" /\ batches \notin {None, <<>>} /\ ~cancelled
    /\ faults < MaxFaults /\ faults' = faults + 1
    /\ spool' \in {spool, Append(spool, host)} /\ Len(spool') <= QueueItems
    /\ failed' = TRUE /\ EndScrape
    /\ UNCHANGED <<signal, progress, hold, kept, cancelled, machine, host, scope, starts, scrapes>>

\* A tailer or the journal reader has activated a record.
SourceActivates ==
    /\ signal = "logs" /\ host # None /\ ~cancelled /\ Len(spool) < QueueItems
    /\ scrapes < MaxScrapes /\ scrapes' = scrapes + 1
    /\ spool' = Append(spool, host)
    /\ UNCHANGED <<signal, progress, hold, kept, cancelled, machine, host, scope, scraping, starts, faults>>

ScraperEnds ==
    /\ scraper = "idle" /\ cancelled /\ scraper' = "ended"
    /\ UNCHANGED <<sender, machine, host, scope, sample, batches, failed, starts, scrapes, faults>>

-----------------------------------------------------------------------------
(* Stop.                                                                    *)

Cancel ==
    /\ host # None /\ ~cancelled /\ cancelled' = TRUE
    /\ UNCHANGED <<signal, progress, hold, spool, kept, machine, host, scope, scraping, starts, scrapes, faults>>

Off ==
    /\ Reset("off") /\ cancelled' = FALSE /\ host' = None
    /\ scraper' = "off" /\ sample' = <<>> /\ batches' = <<>> /\ failed' = FALSE
    /\ UNCHANGED <<signal, spool, kept, machine, scope, starts, scrapes, faults>>

\* Both workers are done: the spool is closed with its backlog.
Joined ==
    /\ cancelled /\ phase \in {"paused", "stopped"} /\ scraper = "ended"
    /\ Off

Kill == host # None /\ Off

-----------------------------------------------------------------------------
Scraper == Scraped \/ Put \/ PutDropped \/ ScraperEnds

Next ==
    \/ /\ SenderNext
       /\ UNCHANGED <<machine, host, scope, scraping, starts, scrapes, faults>>
    \/ Scraper \/ PutFails \/ SourceActivates \/ Joined
    \/ \E s \in Samples : Scrape(s)
    \/ StartFails \/ Cancel \/ Kill
    \/ \E answer \in Detect : Start(answer)

Spec == Init /\ [][Next]_vars

Alone(A) == A /\ UNCHANGED <<machine, host, scope, scraping, starts, scrapes, faults>>

\* The goroutines run, time passes, requests are answered or time out, and a
\* backend that is asked again and again takes the record in the end.
FairSpec ==
    /\ Spec /\ WF_vars(Alone(Loop)) /\ WF_vars(Alone(Tick)) /\ WF_vars(Alone(Answers))
    /\ SF_vars(Alone(Accepted)) /\ WF_vars(Scraper) /\ WF_vars(Joined)

-----------------------------------------------------------------------------
(* Properties.                                                              *)

\* "Changing it refuses to replay old state under a different host": all that
\* waits in the spool, whichever run of the agent enqueued it and whatever the
\* metadata service answered then, names the host that the running collector
\* reports for.
OneHost == host # None => \A r \in ToSet(spool) : r = host

\* "Oversize individual samples are explicit errors; never silently truncate a
\* request": the batches still to enqueue are the points still to enqueue, in
\* order and each once, every batch within both limits; a sample is given up only
\* for a point that no request can hold.
BatchesExact ==
    scraper = "put" =>
        IF batches = None THEN \E p \in ToSet(sample) : p > RequestBytes
        ELSE /\ FlattenSeq(batches) = sample
             /\ \A b \in ToSet(batches) : Len(b) \in 1..BatchPoints /\ Bytes(b) <= RequestBytes

\* A record leaves the spool only when the backend keeps all of it; only Logs
\* takes a part for the whole.
AckedAreStored ==
    [][Len(spool') < Len(spool) => kept = "all" \/ (signal = "logs" /\ kept = "part")]_vars

\* "429 / Retry-After: numeric/date server delay honored, including the final
\* attempt in a cycle": while a process runs, no request, for this record or the
\* next, goes out before the delay that was asked for (bounded for Logs) is over.
RetryAfterHonoured == [][phase = "attempt" /\ phase' = "await" => hold = 0]_vars

\* Cancellation ends the loop and the scraper, whatever sleep, request or scrape
\* they are in, and Stop comes back.
CancelEnds == cancelled ~> phase = "off"

\* What is in the spool is delivered unless the loop pauses or the agent stops:
\* exhausted cycles are followed by further ones.
Delivers == spool # <<>> ~> spool = <<>> \/ phase = "paused" \/ cancelled \/ host = None

-----------------------------------------------------------------------------
(* The inductive invariants behind the safety properties.                   *)

\* The type of the variables; that of `sample' and `batches' is in SampleInv.
TypeOK ==
    /\ signal \in Signals /\ phase \in {"off", "next", "attempt", "await", "sleep", "ack", "paused", "stopped"}
    /\ attempt \in 0..(MaxAttempts - 1) /\ after \in {"attempt", "cooldown", "next"}
    /\ timer \in Nat /\ hold \in Nat
    /\ spool \in Seq(Hosts) /\ kept \in {"none", "part", "all"} /\ cancelled \in BOOLEAN
    /\ machine \in Machines /\ host \in Hosts \cup {None} /\ scope \in Hosts \cup {None}
    /\ scraper \in {"off", "idle", "put", "ended"} /\ failed \in BOOLEAN
    /\ starts \in Nat /\ scrapes \in Nat /\ faults \in Nat

\* The running collector reports for the host on disk, and so did whichever one
\* enqueued what is in the spool.
ScopeInv ==
    /\ host # None => scope = host
    /\ phase # "off" \/ scraper # "off" => host # None
    /\ \A i \in 1..Len(spool) : spool[i] = scope /\ scope # None

\* An attempt has a record, and a cycle at most max_attempts of them.
CycleInv ==
    /\ phase \in {"attempt", "await", "ack"} => spool # <<>>
    /\ phase = "sleep" /\ after = "attempt" => spool # <<>> /\ attempt + 1 < MaxAttempts

\* The loop sleeps at least as long as the backend asked for, and is awake only
\* when that time is over.
HoldInv == hold <= timer /\ (phase \notin {"sleep", "stopped"} => hold = 0)

\* Only what the backend answered brings a record to its acknowledgement.
AckInv == phase = "ack" => kept = "all" \/ (signal = "logs" /\ kept = "part")

\* The type of the scrape under way, and that its batches are exact.
SampleInv ==
    /\ sample \in Seq(Nat)
    /\ scraper = "put" => batches = None \/ batches \in Seq(Seq(Nat))
    /\ BatchesExact

CInv == TypeOK /\ ScopeInv /\ CycleInv /\ HoldInv /\ AckInv

=============================================================================
