-------------------------- MODULE Collector_proofs --------------------------
(***************************************************************************)
(* Proofs about Collector and the Sender it contains: for any machines,    *)
(* samples, delays and limits, CInv is inductive.                          *)
(*                                                                         *)
(* The second part is about the batches of a scrape, which recursive       *)
(* functions compute: that these functions exist, what they return for     *)
(* every sample, and with it that SampleInv is inductive.                  *)
(***************************************************************************)
EXTENDS Collector, Sums, SequenceTheorems, TLAPS

-----------------------------------------------------------------------------
(* CInv is inductive: one lemma for each action.  Alone(TRUE) is what the   *)
(* sender's steps leave unchanged.                                          *)

\* The loop takes the head.
LEMMA PeekStep ==
  ASSUME CInv, Peek,
         Alone(TRUE)
  PROVE  CInv'
<1> USE SenderAssumption, CollectorAssumption DEF CInv, TypeOK, Rest, Alone, scraping, Peek
<1>1. TypeOK'
  OBVIOUS
<1>2. ScopeInv'
  BY DEF ScopeInv
<1>3. CycleInv'
  BY DEF CycleInv
<1>4. HoldInv'
  BY DEF HoldInv
<1>5. AckInv'
  BY DEF AckInv
<1>6. QED
  BY <1>1, <1>2, <1>3, <1>4, <1>5 DEF CInv

\* The loop sees that the context is done.
LEMMA StopsStep ==
  ASSUME CInv, Stops,
         Alone(TRUE)
  PROVE  CInv'
<1> USE SenderAssumption, CollectorAssumption DEF CInv, TypeOK, Goto, Rest, Alone, scraping, Stops
<1>1. TypeOK'
  OBVIOUS
<1>2. ScopeInv'
  BY DEF ScopeInv
<1>3. CycleInv'
  BY DEF CycleInv
<1>4. HoldInv'
  BY DEF HoldInv
<1>5. AckInv'
  BY DEF AckInv
<1>6. QED
  BY <1>1, <1>2, <1>3, <1>4, <1>5 DEF CInv

\* A request goes out.
LEMMA AttemptStep ==
  ASSUME CInv, Attempt,
         Alone(TRUE)
  PROVE  CInv'
<1> USE SenderAssumption, CollectorAssumption DEF CInv, TypeOK, Goto, Rest, Alone, scraping, Attempt
<1>1. TypeOK'
  OBVIOUS
<1>2. ScopeInv'
  BY DEF ScopeInv
<1>3. CycleInv'
  BY DEF CycleInv
<1>4. HoldInv'
  BY DEF HoldInv
<1>5. AckInv'
  BY DEF AckInv
<1>6. QED
  BY <1>1, <1>2, <1>3, <1>4, <1>5 DEF CInv

\* A sleep is over.
LEMMA WakeStep ==
  ASSUME CInv, Wake,
         Alone(TRUE)
  PROVE  CInv'
<1> USE SenderAssumption, CollectorAssumption DEF CInv, TypeOK, Sleep, Rest, Alone, scraping, Wake
<1>1. TypeOK'
  BY DEF CycleInv
<1>2. ScopeInv'
  BY DEF ScopeInv
<1>3. CycleInv'
  BY DEF CycleInv
<1>4. HoldInv'
  BY DEF HoldInv
<1>5. AckInv'
  BY DEF AckInv
<1>6. QED
  BY <1>1, <1>2, <1>3, <1>4, <1>5 DEF CInv

\* The record is acknowledged.
LEMMA AckStep ==
  ASSUME CInv, Ack,
         Alone(TRUE)
  PROVE  CInv'
<1> USE SenderAssumption, CollectorAssumption DEF CInv, TypeOK, Goto, Alone, scraping, Ack
<1>1. TypeOK'
  BY HeadTailProperties DEF CycleInv
<1>2. ScopeInv'
  BY DEF ScopeInv
<1>3. CycleInv'
  BY DEF CycleInv
<1>4. HoldInv'
  BY DEF HoldInv
<1>5. AckInv'
  BY DEF AckInv
<1>6. QED
  BY <1>1, <1>2, <1>3, <1>4, <1>5 DEF CInv

\* The context is done before the acknowledgement.
LEMMA AckCancelledStep ==
  ASSUME CInv, AckCancelled,
         Alone(TRUE)
  PROVE  CInv'
<1> USE SenderAssumption, CollectorAssumption DEF CInv, TypeOK, Goto, Rest, Alone, scraping, AckCancelled
<1>1. TypeOK'
  OBVIOUS
<1>2. ScopeInv'
  BY DEF ScopeInv
<1>3. CycleInv'
  BY DEF CycleInv
<1>4. HoldInv'
  BY DEF HoldInv
<1>5. AckInv'
  BY DEF AckInv
<1>6. QED
  BY <1>1, <1>2, <1>3, <1>4, <1>5 DEF CInv

\* The head cannot be read.
LEMMA PeekFailsStep ==
  ASSUME CInv, PeekFails,
         Alone(TRUE)
  PROVE  CInv'
<1> USE SenderAssumption, CollectorAssumption DEF CInv, TypeOK, Goto, Rest, Alone, scraping, PeekFails
<1>1. TypeOK'
  OBVIOUS
<1>2. ScopeInv'
  BY DEF ScopeInv
<1>3. CycleInv'
  BY DEF CycleInv
<1>4. HoldInv'
  BY DEF HoldInv
<1>5. AckInv'
  BY DEF AckInv
<1>6. QED
  BY <1>1, <1>2, <1>3, <1>4, <1>5 DEF CInv

\* The request cannot be made.
LEMMA RequestFailsStep ==
  ASSUME CInv, RequestFails,
         Alone(TRUE)
  PROVE  CInv'
<1> USE SenderAssumption, CollectorAssumption DEF CInv, TypeOK, Goto, Rest, Alone, scraping, RequestFails
<1>1. TypeOK'
  OBVIOUS
<1>2. ScopeInv'
  BY DEF ScopeInv
<1>3. CycleInv'
  BY DEF CycleInv
<1>4. HoldInv'
  BY DEF HoldInv
<1>5. AckInv'
  BY DEF AckInv
<1>6. QED
  BY <1>1, <1>2, <1>3, <1>4, <1>5 DEF CInv

\* The backend accepts.
LEMMA AcceptedStep ==
  ASSUME CInv, Accepted,
         Alone(TRUE)
  PROVE  CInv'
<1> USE SenderAssumption, CollectorAssumption DEF CInv, TypeOK, Goto, Alone, scraping, Accepted
<1>1. TypeOK'
  OBVIOUS
<1>2. ScopeInv'
  BY DEF ScopeInv
<1>3. CycleInv'
  BY DEF CycleInv
<1>4. HoldInv'
  BY DEF HoldInv
<1>5. AckInv'
  BY DEF AckInv
<1>6. QED
  BY <1>1, <1>2, <1>3, <1>4, <1>5 DEF CInv

\* The backend rejects a part.
LEMMA PartialSuccessStep ==
  ASSUME CInv, PartialSuccess,
         Alone(TRUE)
  PROVE  CInv'
<1> USE SenderAssumption, CollectorAssumption DEF CInv, TypeOK, Goto, Most, Alone, scraping, PartialSuccess
<1>1. TypeOK'
  OBVIOUS
<1>2. ScopeInv'
  BY DEF ScopeInv
<1>3. CycleInv'
  BY DEF CycleInv
<1>4. HoldInv'
  BY DEF HoldInv
<1>5. AckInv'
  BY DEF AckInv
<1>6. QED
  BY <1>1, <1>2, <1>3, <1>4, <1>5 DEF CInv

\* The backend refuses for good.
LEMMA RefusedStep ==
  ASSUME CInv, Refused,
         Alone(TRUE)
  PROVE  CInv'
<1> USE SenderAssumption, CollectorAssumption DEF CInv, TypeOK, Goto, Alone, scraping, Refused
<1>1. TypeOK'
  OBVIOUS
<1>2. ScopeInv'
  BY DEF ScopeInv
<1>3. CycleInv'
  BY DEF CycleInv
<1>4. HoldInv'
  BY DEF HoldInv
<1>5. AckInv'
  BY DEF AckInv
<1>6. QED
  BY <1>1, <1>2, <1>3, <1>4, <1>5 DEF CInv

\* The transport fails.
LEMMA LostStep ==
  ASSUME CInv, Lost,
         Alone(TRUE)
  PROVE  CInv'
<1> USE SenderAssumption, CollectorAssumption DEF CInv, TypeOK, Sleep, LastAttempt, Alone, scraping, Lost
<1>1. TypeOK'
  OBVIOUS
<1>2. ScopeInv'
  BY DEF ScopeInv
<1>3. CycleInv'
  BY DEF CycleInv
<1>4. HoldInv'
  BY DEF HoldInv
<1>5. AckInv'
  BY DEF AckInv
<1>6. QED
  BY <1>1, <1>2, <1>3, <1>4, <1>5 DEF CInv

\* A retryable answer without Retry-After.
LEMMA UnavailableStep ==
  ASSUME CInv, Unavailable,
         Alone(TRUE)
  PROVE  CInv'
<1> USE SenderAssumption, CollectorAssumption DEF CInv, TypeOK, Sleep, LastAttempt, Rest, Alone, scraping, Unavailable
<1>1. TypeOK'
  OBVIOUS
<1>2. ScopeInv'
  BY DEF ScopeInv
<1>3. CycleInv'
  BY DEF CycleInv
<1>4. HoldInv'
  BY DEF HoldInv
<1>5. AckInv'
  BY DEF AckInv
<1>6. QED
  BY <1>1, <1>2, <1>3, <1>4, <1>5 DEF CInv

\* A retryable answer with one.
LEMMA ThrottledStep ==
  ASSUME CInv, NEW d \in RetryAfters, Throttled(d),
         Alone(TRUE)
  PROVE  CInv'
<1> USE SenderAssumption, CollectorAssumption DEF CInv, TypeOK, Sleep, LastAttempt, Delay, Smaller, Rest, Alone, scraping, Throttled
<1>1. TypeOK'
  OBVIOUS
<1>2. ScopeInv'
  BY DEF ScopeInv
<1>3. CycleInv'
  BY DEF CycleInv
<1>4. HoldInv'
  BY DEF HoldInv
<1>5. AckInv'
  BY DEF AckInv
<1>6. QED
  BY <1>1, <1>2, <1>3, <1>4, <1>5 DEF CInv

\* Time passes.
LEMMA TickStep ==
  ASSUME CInv, Tick,
         Alone(TRUE)
  PROVE  CInv'
<1> USE SenderAssumption, CollectorAssumption DEF CInv, TypeOK, Less, Rest, Alone, scraping, Tick
<1>1. TypeOK'
  OBVIOUS
<1>2. ScopeInv'
  BY DEF ScopeInv
<1>3. CycleInv'
  BY DEF CycleInv
<1>4. HoldInv'
  BY DEF HoldInv
<1>5. AckInv'
  BY DEF AckInv
<1>6. QED
  BY <1>1, <1>2, <1>3, <1>4, <1>5 DEF CInv

\* The collector starts.
LEMMA StartStep ==
  ASSUME CInv, NEW answer \in Detect, Start(answer)
  PROVE  CInv'
<1> USE SenderAssumption, CollectorAssumption DEF CInv, TypeOK, Reset, Start
<1>1. TypeOK'
  OBVIOUS
<1>2. ScopeInv'
  BY DEF ScopeInv
<1>3. CycleInv'
  BY DEF CycleInv
<1>4. HoldInv'
  BY DEF HoldInv
<1>5. AckInv'
  BY DEF AckInv
<1>6. QED
  BY <1>1, <1>2, <1>3, <1>4, <1>5 DEF CInv

\* The collector does not start.
LEMMA StartFailsStep ==
  ASSUME CInv, StartFails
  PROVE  CInv'
<1> USE SenderAssumption, CollectorAssumption DEF CInv, TypeOK, sender, progress, scraping, StartFails
<1>1. TypeOK'
  OBVIOUS
<1>2. ScopeInv'
  BY DEF ScopeInv
<1>3. CycleInv'
  BY DEF CycleInv
<1>4. HoldInv'
  BY DEF HoldInv
<1>5. AckInv'
  BY DEF AckInv
<1>6. QED
  BY <1>1, <1>2, <1>3, <1>4, <1>5 DEF CInv

\* A scrape begins.
LEMMA ScrapeStep ==
  ASSUME CInv, NEW s \in Samples, Scrape(s)
  PROVE  CInv'
<1> USE SenderAssumption, CollectorAssumption DEF CInv, TypeOK, sender, progress, Scrape
<1>1. TypeOK'
  OBVIOUS
<1>2. ScopeInv'
  BY DEF ScopeInv
<1>3. CycleInv'
  BY DEF CycleInv
<1>4. HoldInv'
  BY DEF HoldInv
<1>5. AckInv'
  BY DEF AckInv
<1>6. QED
  BY <1>1, <1>2, <1>3, <1>4, <1>5 DEF CInv

\* A scrape ends.
LEMMA ScrapedStep ==
  ASSUME CInv, Scraped
  PROVE  CInv'
<1> USE SenderAssumption, CollectorAssumption DEF CInv, TypeOK, EndScrape, sender, progress, Scraped
<1>1. TypeOK'
  OBVIOUS
<1>2. ScopeInv'
  BY DEF ScopeInv
<1>3. CycleInv'
  BY DEF CycleInv
<1>4. HoldInv'
  BY DEF HoldInv
<1>5. AckInv'
  BY DEF AckInv
<1>6. QED
  BY <1>1, <1>2, <1>3, <1>4, <1>5 DEF CInv

\* A batch is enqueued.
LEMMA PutStep ==
  ASSUME CInv, Put
  PROVE  CInv'
<1> USE SenderAssumption, CollectorAssumption DEF CInv, TypeOK, Enqueued, progress, Put
<1>1. TypeOK'
  BY AppendProperties DEF ScopeInv
<1>2. ScopeInv'
  BY DEF ScopeInv
<1>3. CycleInv'
  BY DEF CycleInv
<1>4. HoldInv'
  BY DEF HoldInv
<1>5. AckInv'
  BY DEF AckInv
<1>6. QED
  BY <1>1, <1>2, <1>3, <1>4, <1>5 DEF CInv

\* A batch is dropped.
LEMMA PutDroppedStep ==
  ASSUME CInv, PutDropped
  PROVE  CInv'
<1> USE SenderAssumption, CollectorAssumption DEF CInv, TypeOK, Enqueued, sender, progress, PutDropped
<1>1. TypeOK'
  OBVIOUS
<1>2. ScopeInv'
  BY DEF ScopeInv
<1>3. CycleInv'
  BY DEF CycleInv
<1>4. HoldInv'
  BY DEF HoldInv
<1>5. AckInv'
  BY DEF AckInv
<1>6. QED
  BY <1>1, <1>2, <1>3, <1>4, <1>5 DEF CInv

\* The spool fails, with the record on disk or not.
LEMMA PutFailsStep ==
  ASSUME CInv, PutFails
  PROVE  CInv'
<1> USE SenderAssumption, CollectorAssumption DEF CInv, TypeOK, EndScrape, progress, PutFails
<1>a. host \in Hosts /\ scope = host /\ host # None
  BY DEF ScopeInv
<1>b. spool' = spool \/ spool' = Append(spool, host)
  OBVIOUS
<1>1. TypeOK'
  <2>1. spool \in Seq(Hosts) /\ Append(spool, host) \in Seq(Hosts)
    BY ONLY <1>a, AppendProperties, TypeOK DEF TypeOK
  <2>2. spool' \in Seq(Hosts)
    BY ONLY <1>b, <2>1
  <2>3. failed' \in BOOLEAN /\ faults' \in Nat
    OBVIOUS
  <2>4. QED
    BY <2>2, <2>3
<1>2. ScopeInv'
  <2>1. \A k \in 1..Len(spool') : spool'[k] = scope
    <3>1. spool \in Seq(Hosts) /\ \A k \in 1..Len(spool) : spool[k] = scope
      BY DEF ScopeInv
    <3>2. \A k \in 1..Len(Append(spool, host)) : Append(spool, host)[k] = scope
      BY ONLY <1>a, <3>1, AppendProperties
    <3> QED
      BY ONLY <1>b, <3>1, <3>2
  <2>2. scope' = scope /\ host' = host
    OBVIOUS
  <2> QED
    BY ONLY <1>a, <2>1, <2>2 DEF ScopeInv
<1>3. CycleInv'
  BY DEF CycleInv
<1>4. HoldInv'
  BY DEF HoldInv
<1>5. AckInv'
  BY DEF AckInv
<1>6. QED
  BY <1>1, <1>2, <1>3, <1>4, <1>5 DEF CInv

\* A source activates a record.
LEMMA SourceActivatesStep ==
  ASSUME CInv, SourceActivates
  PROVE  CInv'
<1> USE SenderAssumption, CollectorAssumption DEF CInv, TypeOK, progress, scraping, SourceActivates
<1>1. TypeOK'
  OBVIOUS
<1>2. ScopeInv'
  BY DEF ScopeInv
<1>3. CycleInv'
  BY DEF CycleInv
<1>4. HoldInv'
  BY DEF HoldInv
<1>5. AckInv'
  BY DEF AckInv
<1>6. QED
  BY <1>1, <1>2, <1>3, <1>4, <1>5 DEF CInv

\* The scraper sees that the context is done.
LEMMA ScraperEndsStep ==
  ASSUME CInv, ScraperEnds
  PROVE  CInv'
<1> USE SenderAssumption, CollectorAssumption DEF CInv, TypeOK, sender, progress, ScraperEnds
<1>1. TypeOK'
  OBVIOUS
<1>2. ScopeInv'
  BY DEF ScopeInv
<1>3. CycleInv'
  BY DEF CycleInv
<1>4. HoldInv'
  BY DEF HoldInv
<1>5. AckInv'
  BY DEF AckInv
<1>6. QED
  BY <1>1, <1>2, <1>3, <1>4, <1>5 DEF CInv

\* Stop cancels.
LEMMA CancelStep ==
  ASSUME CInv, Cancel
  PROVE  CInv'
<1> USE SenderAssumption, CollectorAssumption DEF CInv, TypeOK, progress, scraping, Cancel
<1>1. TypeOK'
  OBVIOUS
<1>2. ScopeInv'
  BY DEF ScopeInv
<1>3. CycleInv'
  BY DEF CycleInv
<1>4. HoldInv'
  BY DEF HoldInv
<1>5. AckInv'
  BY DEF AckInv
<1>6. QED
  BY <1>1, <1>2, <1>3, <1>4, <1>5 DEF CInv

\* The collector is off, after a join or a kill.
LEMMA OffStep ==
  ASSUME CInv, Off
  PROVE  CInv'
<1> USE SenderAssumption, CollectorAssumption DEF CInv, TypeOK, Reset, Off
<1>1. TypeOK'
  <2>1. attempt' \in 0..(MaxAttempts - 1)
    OBVIOUS
  <2>2. host' \in Hosts \cup {None} /\ cancelled' \in BOOLEAN /\ failed' \in BOOLEAN
    OBVIOUS
  <2>3. QED
    BY <2>1, <2>2
<1>2. ScopeInv'
  BY DEF ScopeInv
<1>3. CycleInv'
  BY DEF CycleInv
<1>4. HoldInv'
  BY DEF HoldInv
<1>5. AckInv'
  BY DEF AckInv
<1>6. QED
  BY <1>1, <1>2, <1>3, <1>4, <1>5 DEF CInv

\* A step in which nothing changes.
LEMMA StutterStep ==
  ASSUME CInv, UNCHANGED vars
  PROVE  CInv'
<1> USE DEF vars, sender, progress, scraping, CInv
<1>1. TypeOK'
  BY DEF TypeOK
<1>2. ScopeInv' /\ CycleInv' /\ HoldInv' /\ AckInv'
  BY DEF ScopeInv, CycleInv, HoldInv, AckInv
<1>3. QED
  BY <1>1, <1>2

\* Nothing was started yet, and the spool is empty.
LEMMA InitCInv ==
  ASSUME Init
  PROVE  CInv
<1> USE SenderAssumption, CollectorAssumption DEF Init, SenderInit, Loops
<1>1. TypeOK
  <2>1. attempt \in 0..(MaxAttempts - 1) /\ spool \in Seq(Hosts)
    OBVIOUS
  <2>2. cancelled \in BOOLEAN /\ failed \in BOOLEAN
    OBVIOUS
  <2>3. QED
    BY <2>1, <2>2 DEF TypeOK
<1>2. ScopeInv /\ CycleInv /\ HoldInv /\ AckInv
  BY DEF ScopeInv, CycleInv, HoldInv, AckInv
<1>3. QED
  BY <1>1, <1>2 DEF CInv

\* Every step of the sender, the scraper and the collector preserves CInv.
LEMMA NextCInv ==
  ASSUME CInv, [Next]_vars
  PROVE  CInv'
<1>1. CASE SenderNext /\ Alone(TRUE)
  BY <1>1, PeekStep, StopsStep, AttemptStep, WakeStep, AckStep, AckCancelledStep, PeekFailsStep,
     RequestFailsStep, AcceptedStep, PartialSuccessStep, RefusedStep, LostStep, UnavailableStep,
     ThrottledStep, TickStep DEF SenderNext, Loop, Answers
<1>2. CASE Scraper
  BY <1>2, ScrapedStep, PutStep, PutDroppedStep, ScraperEndsStep DEF Scraper
<1>3. CASE Joined \/ Kill
  BY <1>3, OffStep DEF Joined, Kill
<1>4. CASE UNCHANGED vars
  BY <1>4, StutterStep
<1>5. QED
  BY <1>1, <1>2, <1>3, <1>4, PutFailsStep, SourceActivatesStep, ScrapeStep, StartFailsStep,
     CancelStep, StartStep DEF Next, Alone

\* CInv holds in every reachable state.
THEOREM Invariance == Spec => []CInv
BY InitCInv, NextCInv, PTL DEF Spec

-----------------------------------------------------------------------------
(* The properties of the run.                                               *)

\* Every variable but the batches keeps its type.
THEOREM TypeCorrect == Spec => []TypeOK
BY Invariance, PTL DEF CInv

\* The loop never sends or acknowledges without a record, and no cycle makes more
\* than max_attempts attempts.
THEOREM CyclesBounded == Spec => []CycleInv
BY Invariance, PTL DEF CInv

\* Whatever the metadata service answered at each start, all that waits in the
\* spool names the host that the running collector reports for.
THEOREM SpoolOfOneHost == Spec => []OneHost
<1>1. CInv => OneHost
  BY DEF CInv, TypeOK, ScopeInv, OneHost, ToSet
<1>2. QED
  BY <1>1, Invariance, PTL

\* A record leaves the spool in Ack only, and Ack is reached by an acceptance.
LEMMA ShorterMeansStored ==
  ASSUME CInv, [Next]_vars, Len(spool') < Len(spool)
  PROVE  kept = "all" \/ (signal = "logs" /\ kept = "part")
<1>1. spool \in Seq(Hosts) /\ Len(spool) \in Nat
  BY DEF CInv, TypeOK
<1>2. spool' # spool
  BY <1>1
<1>3. CASE SenderNext
  <2>1. Ack
    BY <1>2, <1>3 DEF SenderNext, Loop, Answers, Peek, Stops, Attempt, Wake, AckCancelled,
       PeekFails,
       RequestFails, Accepted, PartialSuccess, Refused, Lost, Unavailable, Throttled, Tick, Rest
  <2>2. QED
    BY <2>1 DEF Ack, CInv, AckInv
<1>4. CASE Put \/ PutFails \/ SourceActivates
  <2>1. host \in Hosts
    BY <1>4 DEF Put, PutFails, SourceActivates, CInv, TypeOK, ScopeInv
  <2>2. spool' = Append(spool, host)
    BY <1>2, <1>4 DEF Put, PutFails, SourceActivates
  <2>3. QED
    BY <1>1, <2>1, <2>2, AppendProperties
<1>5. QED
  BY <1>2, <1>3, <1>4 DEF Next, Scraper, Scraped, PutDropped, ScraperEnds, Joined, Kill, Off,
     Scrape,
     StartFails, Cancel, Start, vars, sender

\* A record leaves the spool only when the backend keeps all of it, or for Logs a
\* part: no exhausted cycle, refusal, cancellation or restart drops one.
THEOREM OnlyStoredLeave == Spec => AckedAreStored
<1>1. CInv /\ [Next]_vars =>
        [Len(spool') < Len(spool) => kept = "all" \/ (signal = "logs" /\ kept = "part")]_vars
  BY ShorterMeansStored
<1>2. QED
  BY <1>1, Invariance, PTL DEF Spec, AckedAreStored

\* No request goes out before the delay that the backend asked for is over.
THEOREM DelayHonoured == Spec => RetryAfterHonoured
<1>1. CInv => [phase = "attempt" /\ phase' = "await" => hold = 0]_vars
  BY DEF CInv, HoldInv
<1>2. QED
  BY <1>1, Invariance, PTL DEF Spec, RetryAfterHonoured

-----------------------------------------------------------------------------
(* Batches.  Encode, Batches and FlattenSeq are recursive functions: what   *)
(* they are at a sequence is found from below, by its length, with the      *)
(* induction on naturals in its set form.                                   *)

\* The steps of FlattenSeq on the first n members of s.
Flattens(s, n, f) == f = [i \in 1..n |-> IF i = 1 THEN s[i] ELSE f[i - 1] \o s[i]]
Flattener(s, n) == CHOOSE f : Flattens(s, n, f)

LEMMA FlattenIsFlattener ==
  ASSUME NEW S, NEW s \in Seq(S)
  PROVE  FlattenSeq(s) = IF Len(s) = 0 THEN s ELSE Flattener(s, Len(s))[Len(s)]
BY DEF FlattenSeq, Flattener, Flattens

LEMMA FlattenerFlattens ==
  ASSUME NEW s, NEW n \in Nat
  PROVE  Flattens(s, n, Flattener(s, n))
<1> DEFINE Good == {k \in Nat : \E f : Flattens(s, k, f)}
<1>1. ASSUME NEW k \in Nat, \A m \in Nat : m < k => m \in Good
      PROVE  k \in Good
  <2>1. CASE k = 0
    <3> DEFINE f == [i \in 1..0 |-> 0]
    <3>1. \A g : f = [i \in 1..0 |-> g[i]]
      OBVIOUS
    <3>2. f = [i \in 1..0 |-> IF i = 1 THEN s[i] ELSE f[i - 1] \o s[i]]
      OBVIOUS
    <3> HIDE DEF f
    <3> QED
      BY <2>1, <3>2 DEF Flattens
  <2>2. CASE k # 0
    <3>1. k - 1 \in Good
      BY <1>1, <2>2
    <3>2. PICK f : Flattens(s, k - 1, f)
      BY <3>1
    <3> DEFINE g == [i \in 1..k |-> IF i = 1 THEN s[i] ELSE f[i - 1] \o s[i]]
    <3>3. \A i \in 1..(k - 1) : f[i] = IF i = 1 THEN s[i] ELSE f[i - 1] \o s[i]
      BY <3>2 DEF Flattens
    <3>4. \A i \in 1..(k - 1) : g[i] = f[i]
      BY <3>3
    <3>5. ASSUME NEW i \in 1..k
          PROVE  (IF i = 1 THEN s[i] ELSE f[i - 1] \o s[i])
                   = (IF i = 1 THEN s[i] ELSE g[i - 1] \o s[i])
      <4>1. i # 1 => i - 1 \in 1..(k - 1)
        OBVIOUS
      <4>2. i # 1 => g[i - 1] = f[i - 1]
        BY <3>4, <4>1
      <4> HIDE DEF g
      <4> QED
        BY <4>2
    <3>6. g = [i \in 1..k |-> IF i = 1 THEN s[i] ELSE g[i - 1] \o s[i]]
      BY <3>5
    <3> HIDE DEF g
    <3> QED
      BY <3>6 DEF Flattens
  <2> QED
    BY <2>1, <2>2
<1>2. \A k \in Nat : k \in Good
  <2> HIDE DEF Good
  <2> QED
    BY <1>1, LessInduction
<1>3. \E f : Flattens(s, n, f)
  BY <1>2
<1> QED
  BY <1>3 DEF Flattener

\* The first i members of s, concatenated.
Prefix(s, i) == Flattener(s, Len(s))[i]

LEMMA PrefixSteps ==
  ASSUME NEW S, NEW s \in Seq(Seq(S)), s # <<>>
  PROVE  /\ FlattenSeq(s) = Prefix(s, Len(s)) /\ Prefix(s, 1) = s[1]
         /\ \A i \in 2..Len(s) : Prefix(s, i) = Prefix(s, i - 1) \o s[i]
         /\ \A i \in 1..Len(s) : Prefix(s, i) \in Seq(S)
<1> DEFINE n == Len(s)
<1>1. n \in Nat \ {0} /\ \A i \in 1..n : s[i] \in Seq(S)
  BY EmptySeq, ElementOfSeq
<1>2. Flattens(s, n, Flattener(s, n))
  BY <1>1, FlattenerFlattens
<1>3. \A i \in 1..n : Prefix(s, i) = IF i = 1 THEN s[i] ELSE Flattener(s, n)[i - 1] \o s[i]
  BY <1>2 DEF Flattens, Prefix
<1>4. \A i \in 1..n : Prefix(s, i) = IF i = 1 THEN s[i] ELSE Prefix(s, i - 1) \o s[i]
  BY <1>3 DEF Prefix
<1>5. FlattenSeq(s) = Prefix(s, n)
  BY <1>1, FlattenIsFlattener DEF Prefix
<1> HIDE DEF n
<1>6. Prefix(s, 1) = s[1] /\ \A i \in 2..n : Prefix(s, i) = Prefix(s, i - 1) \o s[i]
  <2>1. 1 \in 1..n /\ \A i \in 2..n : i \in 1..n /\ i # 1
    BY <1>1
  <2> QED
    BY <1>4, <2>1, Zenon
<1> DEFINE Good == {i \in Nat : i \in 1..n => Prefix(s, i) \in Seq(S)}
<1>7. ASSUME NEW i \in Nat, \A m \in Nat : m < i => m \in Good
      PROVE  i \in Good
  <2> SUFFICES ASSUME i \in 1..n PROVE Prefix(s, i) \in Seq(S)
    OBVIOUS
  <2>1. CASE i = 1
    BY <1>1, <1>6, <2>1
  <2>2. CASE i # 1
    <3>1. i - 1 \in Nat /\ i - 1 < i /\ i - 1 \in 1..n /\ i \in 2..n
      BY <1>1, <2>2
    <3>2. Prefix(s, i - 1) \in Seq(S)
      BY <1>7, <3>1
    <3> HIDE DEF Good
    <3>3. Prefix(s, i - 1) \o s[i] \in Seq(S)
      BY <1>1, <3>2, ConcatProperties
    <3> QED
      BY <1>6, <3>1, <3>3
  <2> QED
    BY <2>1, <2>2
<1>8. \A i \in Nat : i \in Good
  <2> HIDE DEF Good
  <2> QED
    BY <1>7, LessInduction
<1>9. \A i \in 1..n : Prefix(s, i) \in Seq(S)
  <2>1. \A i \in 1..n : i \in Nat
    BY <1>1
  <2> QED
    BY <1>8, <2>1
<1> QED
  BY <1>5, <1>6, <1>9, Zenon DEF n

\* No batches hold nothing, one batch its points.
LEMMA FlattenFew ==
  /\ FlattenSeq(<<>>) = <<>>
  /\ \A S : \A p \in Seq(S) : FlattenSeq(<<p>>) = p
<1>1. FlattenSeq(<<>>) = <<>>
  BY DEF FlattenSeq
<1>2. ASSUME NEW S, NEW p \in Seq(S) PROVE FlattenSeq(<<p>>) = p
  <2>1. <<p>> \in Seq(Seq(S)) /\ <<p>> # <<>> /\ Len(<<p>>) = 1 /\ <<p>>[1] = p
    OBVIOUS
  <2> DEFINE s == <<p>>
  <2> HIDE DEF s
  <2>2. FlattenSeq(s) = s[1]
    BY <2>1, PrefixSteps DEF s
  <2> QED
    BY <2>1, <2>2 DEF s
<1> QED
  BY <1>1, <1>2

LEMMA FlattenType ==
  ASSUME NEW S, NEW s \in Seq(Seq(S)) PROVE FlattenSeq(s) \in Seq(S)
<1>1. CASE s = <<>>
  <2>1. FlattenSeq(s) = <<>>
    BY ONLY <1>1, FlattenFew, Zenon
  <2> QED
    BY <2>1
<1>2. CASE s # <<>>
  <2>1. /\ FlattenSeq(s) = Prefix(s, Len(s))
        /\ \A i \in 1..Len(s) : Prefix(s, i) \in Seq(S)
    BY <1>2, PrefixSteps, Zenon
  <2>2. Len(s) \in 1..Len(s)
    BY <1>2, EmptySeq
  <2> QED
    BY <2>1, <2>2, Zenon
<1> QED
  BY <1>1, <1>2

\* Lists of batches are flattened one after the other.
LEMMA FlattenConcat ==
  ASSUME NEW S, NEW a \in Seq(Seq(S)), NEW b \in Seq(Seq(S))
  PROVE  FlattenSeq(a \o b) = FlattenSeq(a) \o FlattenSeq(b)
<1> DEFINE c == a \o b
           k == Len(a)
           n == Len(b)
<1>1. /\ FlattenSeq(a) \in Seq(S) /\ FlattenSeq(b) \in Seq(S)
      /\ FlattenSeq(<<>>) = <<>>
  BY FlattenType, FlattenFew
<1>2. CASE a = <<>>
  BY <1>1, <1>2, ConcatEmptySeq
<1>3. CASE b = <<>>
  BY <1>1, <1>3, ConcatEmptySeq
<1>4. CASE a # <<>> /\ b # <<>>
  <2>1. k \in Nat \ {0} /\ n \in Nat \ {0}
    BY <1>4, EmptySeq
  <2>2. /\ c \in Seq(Seq(S)) /\ Len(c) = k + n
        /\ \A i \in 1..(k + n) : c[i] = IF i <= k THEN a[i] ELSE b[i - k]
    BY ConcatProperties
  <2>3. c # <<>>
    BY <2>1, <2>2
  <2>4. /\ FlattenSeq(a) = Prefix(a, k) /\ Prefix(a, 1) = a[1]
        /\ \A i \in 2..k : Prefix(a, i) = Prefix(a, i - 1) \o a[i]
        /\ \A i \in 1..k : Prefix(a, i) \in Seq(S)
    BY <1>4, PrefixSteps
  <2>5. /\ FlattenSeq(b) = Prefix(b, n) /\ Prefix(b, 1) = b[1]
        /\ \A i \in 2..n : Prefix(b, i) = Prefix(b, i - 1) \o b[i]
        /\ \A i \in 1..n : Prefix(b, i) \in Seq(S)
    BY <1>4, PrefixSteps
  <2>6. /\ FlattenSeq(c) = Prefix(c, k + n) /\ Prefix(c, 1) = c[1]
        /\ \A i \in 2..(k + n) : Prefix(c, i) = Prefix(c, i - 1) \o c[i]
    BY <2>2, <2>3, PrefixSteps
  <2>7. \A i \in 1..n : b[i] \in Seq(S)
    BY ElementOfSeq
  <2> HIDE DEF c, k, n
  <2> DEFINE Good == {i \in Nat : /\ i \in 1..k => Prefix(c, i) = Prefix(a, i)
                                  /\ i \in (k + 1)..(k + n) =>
                                       Prefix(c, i) = Prefix(a, k) \o Prefix(b, i - k)}
  <2>8. ASSUME NEW i \in Nat, \A m \in Nat : m < i => m \in Good
        PROVE  i \in Good
    <3>1. CASE i = 1
      BY <2>1, <2>2, <2>4, <2>6, <3>1
    <3>2. CASE i \in 2..k
      <4>1. i - 1 \in Nat /\ i - 1 < i /\ i - 1 \in 1..k /\ i \in 2..(k + n) /\ i \in 1..(k + n)
        BY <2>1, <3>2
      <4>2. Prefix(c, i - 1) = Prefix(a, i - 1)
        BY <2>8, <4>1
      <4>3. c[i] = a[i]
        BY <2>1, <2>2, <3>2, <4>1
      <4>4. Prefix(c, i) = Prefix(a, i)
        BY <2>4, <2>6, <3>2, <4>1, <4>2, <4>3
      <4> QED
        BY <2>1, <3>2, <4>4
    <3>3. CASE i = k + 1
      <4>1. k \in Nat /\ k < i /\ k \in 1..k /\ i \in 2..(k + n) /\ i \in 1..(k + n) /\ i - 1 = k
        BY <2>1, <3>3
      <4>2. Prefix(c, k) = Prefix(a, k)
        BY <2>8, <4>1
      <4>3. c[i] = b[1] /\ i - k = 1
        BY <2>1, <2>2, <3>3, <4>1
      <4>4. Prefix(c, i) = Prefix(a, k) \o Prefix(b, i - k)
        BY <2>5, <2>6, <4>1, <4>2, <4>3
      <4> QED
        BY <2>1, <3>3, <4>4
    <3>4. CASE i \in (k + 2)..(k + n)
      <4> DEFINE j == i - k
      <4>1. /\ i - 1 \in Nat /\ i - 1 < i /\ i - 1 \in (k + 1)..(k + n) /\ i \in 2..(k + n)
            /\ i \in 1..(k + n) /\ ~(i <= k) /\ j \in 2..n /\ j - 1 \in 1..n /\ j \in 1..n
            /\ (i - 1) - k = j - 1
        BY <2>1, <3>4
      <4>2. Prefix(c, i - 1) = Prefix(a, k) \o Prefix(b, (i - 1) - k)
        BY <2>8, <4>1
      <4>3. c[i] = b[j]
        BY <2>2, <4>1
      <4> HIDE DEF j
      <4>4. Prefix(c, i) = (Prefix(a, k) \o Prefix(b, j - 1)) \o b[j]
        BY <2>6, <4>1, <4>2, <4>3
      <4>5. Prefix(a, k) \in Seq(S) /\ Prefix(b, j - 1) \in Seq(S) /\ b[j] \in Seq(S)
        BY <2>1, <2>4, <2>5, <2>7, <4>1
      <4>6. Prefix(c, i) = Prefix(a, k) \o (Prefix(b, j - 1) \o b[j])
        <5>1. \A x, y, z \in Seq(S) : (x \o y) \o z = x \o (y \o z)
          BY ConcatAssociative
        <5> QED
          BY ONLY <4>4, <4>5, <5>1
      <4>7. Prefix(c, i) = Prefix(a, k) \o Prefix(b, j)
        BY <2>5, <4>1, <4>6
      <4> QED
        BY <2>1, <3>4, <4>7 DEF j
    <3> QED
      BY <2>1, <3>1, <3>2, <3>3, <3>4
  <2>9. \A i \in Nat : i \in Good
    <3> HIDE DEF Good
    <3> QED
      BY <2>8, LessInduction
  <2>10. Prefix(c, k + n) = Prefix(a, k) \o Prefix(b, n)
    <3>1. k + n \in Good /\ k + n \in (k + 1)..(k + n) /\ (k + n) - k = n
      BY <2>1, <2>9
    <3> QED
      BY <3>1
  <2> QED
    BY <2>4, <2>5, <2>6, <2>10 DEF c
<1> QED
  BY <1>2, <1>3, <1>4

\* What is left when the first batch is taken.
LEMMA FlattenTail ==
  ASSUME NEW S, NEW s \in Seq(Seq(S)), s # <<>>
  PROVE  FlattenSeq(s) = Head(s) \o FlattenSeq(Tail(s))
<1>1. Head(s) \in Seq(S) /\ Tail(s) \in Seq(Seq(S)) /\ s = <<Head(s)>> \o Tail(s)
  OBVIOUS
<1>2. <<Head(s)>> \in Seq(Seq(S))
  BY <1>1
<1> DEFINE h == <<Head(s)>>
<1>3. FlattenSeq(h) = Head(s)
  BY <1>1, FlattenFew
<1> HIDE DEF h
<1>4. FlattenSeq(h \o Tail(s)) = FlattenSeq(h) \o FlattenSeq(Tail(s))
  BY <1>1, <1>2, FlattenConcat DEF h
<1> QED
  BY <1>1, <1>3, <1>4 DEF h

\* What one measurement, or none, takes.
LEMMA BytesOfFew ==
  /\ Bytes(<<>>) = 0
  /\ \A x \in Nat : Bytes(<<x>>) = x
<1>1. ASSUME NEW p PROVE Bytes(p) = SumFunctionOnSet(p, DOMAIN p)
  BY DEF Bytes, FoldSeq, FoldFunction, SumFunctionOnSet, FoldFunctionOnSet
<1>2. IsFiniteSet({}) /\ \A f : SumFunctionOnSet(f, {}) = 0
  BY FS_EmptySet, SumSteps
<1>3. Bytes(<<>>) = 0
  <2>1. DOMAIN <<>> = {}
    OBVIOUS
  <2> QED
    BY ONLY <1>1, <1>2, <2>1, Zenon
<1>4. ASSUME NEW x \in Nat PROVE Bytes(<<x>>) = x
  <2> DEFINE p == <<x>>
  <2>1. DOMAIN p = {1} /\ p[1] = x
    OBVIOUS
  <2> HIDE DEF p
  <2>2. IsFiniteSet({1}) /\ \A y \in {1} : p[y] \in Nat
    BY <2>1, FS_Singleton
  <2>3. SumFunctionOnSet(p, {1}) = p[1] + SumFunctionOnSet(p, {1} \ {1})
    BY <2>2, SumRemove
  <2>4. {1} \ {1} = {}
    OBVIOUS
  <2>5. SumFunctionOnSet(p, {1}) = x + 0
    BY ONLY <1>2, <2>1, <2>3, <2>4, Zenon
  <2>6. Bytes(p) = x + 0
    BY ONLY <1>1, <2>1, <2>5, Zenon
  <2> QED
    BY <2>6 DEF p
<1> QED
  BY <1>3, <1>4

\* A function of a sample that splits it: on R.leaf it is R.val, elsewhere Both
\* of its values at two shorter samples, or of R.first and the one on the right.
Body(R, g, p) ==
  IF p \in R.leaf THEN R.val[p]
  ELSE Both(IF p \in R.once THEN R.first[p] ELSE g[R.left[p]], g[R.right[p]])
UpTo(n) == {p \in Seq(Nat) : Len(p) <= n}
Fits(R, n, g) == g = [p \in UpTo(n) |-> Body(R, g, p)]
Splits(R) == \A p \in Seq(Nat) \ R.leaf :
               /\ R.right[p] \in Seq(Nat) /\ Len(R.right[p]) < Len(p)
               /\ p \notin R.once => R.left[p] \in Seq(Nat) /\ Len(R.left[p]) < Len(p)
Level(R, n) == CHOOSE g : Fits(R, n, g)

\* Two functions that split alike agree where both are defined.
LEMMA FitsAgree ==
  ASSUME NEW R, Splits(R), NEW m \in Nat, NEW n \in Nat, NEW g, NEW h,
         Fits(R, m, g), Fits(R, n, h), NEW p \in UpTo(m) \cap UpTo(n)
  PROVE  g[p] = h[p]
<1> DEFINE Good == {k \in Nat : \A q \in UpTo(m) \cap UpTo(n) : Len(q) = k => g[q] = h[q]}
<1>1. ASSUME NEW k \in Nat, \A j \in Nat : j < k => j \in Good
      PROVE  k \in Good
  <2> SUFFICES ASSUME NEW q \in UpTo(m) \cap UpTo(n), Len(q) = k PROVE g[q] = h[q]
    OBVIOUS
  <2>1. g[q] = Body(R, g, q) /\ h[q] = Body(R, h, q)
    BY DEF Fits
  <2>2. \A r \in Seq(Nat) : Len(r) < Len(q) => g[r] = h[r]
    <3> SUFFICES ASSUME NEW r \in Seq(Nat), Len(r) < Len(q) PROVE g[r] = h[r]
      OBVIOUS
    <3>1. r \in UpTo(m) \cap UpTo(n) /\ Len(r) \in Nat /\ Len(r) < k
      BY DEF UpTo
    <3>2. Len(r) \in Good
      BY <1>1, <3>1
    <3> QED
      BY <3>1, <3>2
  <2>3. q \in Seq(Nat)
    BY DEF UpTo
  <2>4. Body(R, g, q) = Body(R, h, q)
    BY <2>2, <2>3 DEF Body, Splits
  <2> QED
    BY <2>1, <2>4
<1>2. \A k \in Nat : k \in Good
  <2> HIDE DEF Good
  <2> QED
    BY <1>1, LessInduction
<1>3. Len(p) \in Nat
  BY DEF UpTo
<1> QED
  BY <1>2, <1>3

\* There is one up to every length.
LEMMA LevelFits ==
  ASSUME NEW R, Splits(R), NEW n \in Nat
  PROVE  Fits(R, n, Level(R, n))
<1> DEFINE Good == {k \in Nat : \E g : Fits(R, k, g)}
<1>1. ASSUME NEW k \in Nat, \A j \in Nat : j < k => j \in Good
      PROVE  k \in Good
  <2> DEFINE old == Level(R, k - 1)
             g == [p \in UpTo(k) |-> Body(R, old, p)]
  <2>1. ASSUME NEW r \in Seq(Nat), Len(r) < k PROVE g[r] = old[r]
    <3>1. Len(r) \in Nat /\ k - 1 \in Nat /\ k - 1 < k /\ r \in UpTo(k - 1) /\ r \in UpTo(k)
      BY <2>1 DEF UpTo
    <3>2. \E f : Fits(R, k - 1, f)
      BY <1>1, <3>1
    <3>3. Fits(R, k - 1, old)
      BY <3>2 DEF Level
    <3> HIDE DEF old
    <3>4. old[r] = Body(R, old, r)
      BY <3>1, <3>3 DEF Fits
    <3> QED
      BY <3>1, <3>4
  <2>2. ASSUME NEW p \in UpTo(k) PROVE Body(R, old, p) = Body(R, g, p)
    <3>1. p \in Seq(Nat) /\ Len(p) \in Nat /\ Len(p) <= k
      BY DEF UpTo
    <3>2. \A r \in Seq(Nat) : Len(r) < Len(p) => g[r] = old[r]
      <4> HIDE DEF g, old
      <4> QED
        BY <2>1, <3>1
    <3> HIDE DEF g, old
    <3> QED
      BY <3>1, <3>2 DEF Body, Splits
  <2>3. g = [p \in UpTo(k) |-> Body(R, g, p)]
    <3> HIDE DEF old
    <3> QED
      BY <2>2, Zenon
  <2> HIDE DEF g
  <2> QED
    BY <2>3 DEF Fits
<1>2. \A k \in Nat : k \in Good
  <2> HIDE DEF Good
  <2> QED
    BY <1>1, LessInduction
<1>3. \E g : Fits(R, n, g)
  BY <1>2
<1> QED
  BY <1>3 DEF Level

\* So there is one on all samples.
LEMMA SplitterExists ==
  ASSUME NEW R, Splits(R)
  PROVE  \E g : g = [p \in Seq(Nat) |-> Body(R, g, p)]
<1> DEFINE g == [p \in Seq(Nat) |-> Level(R, Len(p))[p]]
<1>1. ASSUME NEW p \in Seq(Nat) PROVE g[p] = Body(R, g, p)
  <2> DEFINE n == Len(p)
             f == Level(R, n)
  <2>1. n \in Nat /\ p \in UpTo(n)
    BY DEF UpTo
  <2>2. Fits(R, n, f)
    BY <2>1, LevelFits
  <2>3. ASSUME NEW r \in Seq(Nat), Len(r) < n PROVE f[r] = g[r]
    <3> DEFINE k == Len(r)
               h == Level(R, k)
    <3>1. k \in Nat /\ r \in UpTo(n) \cap UpTo(k)
      BY <2>1, <2>3 DEF UpTo
    <3>2. Fits(R, k, h)
      BY <3>1, LevelFits
    <3>3. g[r] = h[r]
      OBVIOUS
    <3> HIDE DEF f, h, n, k
    <3>4. f[r] = h[r]
      BY <2>1, <2>2, <3>1, <3>2, FitsAgree
    <3> QED
      BY <3>3, <3>4
  <2>4. g[p] = f[p]
    OBVIOUS
  <2> HIDE DEF f, g
  <2>5. f[p] = Body(R, f, p)
    BY <2>1, <2>2 DEF Fits
  <2>6. Body(R, f, p) = Body(R, g, p)
    BY <2>3 DEF Body, Splits
  <2> QED
    BY <2>4, <2>5, <2>6
<1>2. g = [p \in Seq(Nat) |-> Body(R, g, p)]
  <2>1. \A f : f = [p \in Seq(Nat) |-> Level(R, Len(p))[p]]
               /\ (\A p \in Seq(Nat) : f[p] = Body(R, f, p))
                 => f = [p \in Seq(Nat) |-> Body(R, f, p)]
    OBVIOUS
  <2> HIDE DEF g
  <2> QED
    BY <1>1, <2>1 DEF g
<1> HIDE DEF g
<1> QED
  BY <1>2

\* A sequence cut in two.
LEMMA Cut ==
  ASSUME NEW S, NEW p \in Seq(S), NEW k \in 0..Len(p)
  PROVE  /\ SubSeq(p, 1, k) \in Seq(S) /\ Len(SubSeq(p, 1, k)) = k
         /\ SubSeq(p, k + 1, Len(p)) \in Seq(S) /\ Len(SubSeq(p, k + 1, Len(p))) = Len(p) - k
         /\ SubSeq(p, 1, k) \o SubSeq(p, k + 1, Len(p)) = p
<1>1. Len(p) \in Nat /\ \A i \in 1..Len(p) : p[i] \in S
  BY ElementOfSeq
<1>2. SubSeq(p, 1, k) \in Seq(S) /\ Len(SubSeq(p, 1, k)) = k
  BY <1>1, SubSeqProperties
<1>3. SubSeq(p, k + 1, Len(p)) \in Seq(S) /\ Len(SubSeq(p, k + 1, Len(p))) = Len(p) - k
  BY <1>1, SubSeqProperties
<1>4. SubSeq(p, 1, k) \o SubSeq(p, k + 1, Len(p)) = SubSeq(p, 1, Len(p))
  <2>1. 1 \in 1..(Len(p) + 1) /\ k \in (1 - 1)..Len(p) /\ Len(p) \in k..Len(p)
    BY <1>1
  <2>2. \A m \in 1..(Len(p) + 1) : \A j \in (m - 1)..Len(p) : \A n \in j..Len(p) :
          SubSeq(p, m, j) \o SubSeq(p, j + 1, n) = SubSeq(p, m, n)
    BY ConcatAdjacentSubSeq
  <2> QED
    BY ONLY <2>1, <2>2, Zenon
<1> QED
  BY <1>2, <1>3, <1>4, SubSeqFull

LEMMA HalvesCut ==
  ASSUME NEW p \in Seq(Nat), Len(p) > 1
  PROVE  /\ \A i \in {1, 2} : /\ Halves(p)[i] \in Seq(Nat)
                              /\ Len(Halves(p)[i]) \in 1..(Len(p) - 1)
         /\ Halves(p)[1] \o Halves(p)[2] = p
<1> DEFINE k == Len(p) \div 2
<1>1. Len(p) \in Nat
  OBVIOUS
<1>2. k \in 1..(Len(p) - 1)
  BY <1>1
<1>3. Halves(p)[1] = SubSeq(p, 1, k) /\ Halves(p)[2] = SubSeq(p, k + 1, Len(p))
  BY DEF Halves
<1> HIDE DEF k
<1>4. k \in 0..Len(p)
  BY <1>1, <1>2
<1>5. /\ SubSeq(p, 1, k) \in Seq(Nat) /\ Len(SubSeq(p, 1, k)) = k
      /\ SubSeq(p, k + 1, Len(p)) \in Seq(Nat) /\ Len(SubSeq(p, k + 1, Len(p))) = Len(p) - k
      /\ SubSeq(p, 1, k) \o SubSeq(p, k + 1, Len(p)) = p
  BY <1>4, Cut
<1>6. Len(p) - k \in 1..(Len(p) - 1)
  BY <1>1, <1>2
<1> QED
  BY <1>2, <1>3, <1>5, <1>6, Zenon

\* encode is what it says: its recursion ends.
LEMMA EncodeSteps ==
  ASSUME NEW q \in Seq(Nat)
  PROVE  Encode[q] = IF Bytes(q) <= RequestBytes THEN <<q>>
                     ELSE IF Len(q) <= 1 THEN None
                     ELSE Both(Encode[Halves(q)[1]], Encode[Halves(q)[2]])
<1> DEFINE Step(g, p) == IF Bytes(p) <= RequestBytes THEN <<p>>
                         ELSE IF Len(p) <= 1 THEN None
                         ELSE Both(g[Halves(p)[1]], g[Halves(p)[2]])
           R == [leaf |-> {p \in Seq(Nat) : Bytes(p) <= RequestBytes \/ Len(p) <= 1},
                 val |-> [p \in Seq(Nat) |-> IF Bytes(p) <= RequestBytes THEN <<p>> ELSE None],
                 once |-> {}, first |-> <<>>,
                 left |-> [p \in Seq(Nat) |-> Halves(p)[1]],
                 right |-> [p \in Seq(Nat) |-> Halves(p)[2]]]
<1>1. Splits(R)
  <2> SUFFICES ASSUME NEW p \in Seq(Nat), p \notin R.leaf
               PROVE  /\ R.right[p] \in Seq(Nat) /\ Len(R.right[p]) < Len(p)
                      /\ R.left[p] \in Seq(Nat) /\ Len(R.left[p]) < Len(p)
    BY DEF Splits
  <2>1. Len(p) \in Nat /\ Len(p) > 1
    OBVIOUS
  <2>2. R.left[p] = Halves(p)[1] /\ R.right[p] = Halves(p)[2]
    OBVIOUS
  <2> HIDE DEF R
  <2>3. \A i \in {1, 2} : Halves(p)[i] \in Seq(Nat) /\ Len(Halves(p)[i]) \in 1..(Len(p) - 1)
    BY <2>1, HalvesCut
  <2>4. \A m \in 1..(Len(p) - 1) : m < Len(p)
    BY <2>1
  <2> QED
    BY ONLY <2>2, <2>3, <2>4
<1>2. \A g : \A p \in Seq(Nat) : Body(R, g, p) = Step(g, p)
  BY DEF Body
<1> HIDE DEF R
<1>3. PICK g : g = [p \in Seq(Nat) |-> Body(R, g, p)]
  BY <1>1, SplitterExists
<1>4. g = [p \in Seq(Nat) |-> Step(g, p)]
  <2> HIDE DEF Step
  <2> QED
    BY <1>2, <1>3
<1>5. Encode = CHOOSE f : f = [p \in Seq(Nat) |-> Step(f, p)]
  BY DEF Encode
<1>6. Encode = [p \in Seq(Nat) |-> Step(Encode, p)]
  <2> HIDE DEF Step
  <2> QED
    BY <1>4, <1>5
<1>7. Encode[q] = Step(Encode, q)
  <2> HIDE DEF Step
  <2> QED
    BY <1>6
<1> QED
  BY <1>7

\* So is the loop over the chunks of batch_points.
LEMMA BatchesSteps ==
  ASSUME NEW q \in Seq(Nat)
  PROVE  Batches[q] = IF q = <<>> THEN <<>>
                      ELSE LET n == Smaller(Len(q), BatchPoints)
                           IN  Both(Encode[SubSeq(q, 1, n)], Batches[SubSeq(q, n + 1, Len(q))])
<1> DEFINE n(p) == Smaller(Len(p), BatchPoints)
           Step(g, p) == IF p = <<>> THEN <<>>
                         ELSE Both(Encode[SubSeq(p, 1, n(p))], g[SubSeq(p, n(p) + 1, Len(p))])
           R == [leaf |-> {<<>>}, val |-> [p \in {<<>>} |-> <<>>], once |-> Seq(Nat),
                 first |-> [p \in Seq(Nat) |-> Encode[SubSeq(p, 1, n(p))]], left |-> <<>>,
                 right |-> [p \in Seq(Nat) |-> SubSeq(p, n(p) + 1, Len(p))]]
<1>1. Splits(R)
  <2> SUFFICES ASSUME NEW p \in Seq(Nat), p # <<>>
               PROVE  /\ R.right[p] \in Seq(Nat) /\ Len(R.right[p]) < Len(p) /\ p \in R.once
    BY DEF Splits
  <2>1. p \in R.once /\ R.right[p] = SubSeq(p, n(p) + 1, Len(p))
    OBVIOUS
  <2>2. n(p) \in 1..Len(p) /\ Len(p) \in Nat
    BY EmptySeq, CollectorAssumption DEF Smaller
  <2> HIDE DEF R, n
  <2>3. n(p) \in 0..Len(p) /\ Len(p) - n(p) < Len(p)
    BY <2>2
  <2>4. SubSeq(p, n(p) + 1, Len(p)) \in Seq(Nat)
        /\ Len(SubSeq(p, n(p) + 1, Len(p))) = Len(p) - n(p)
    BY <2>3, Cut
  <2> QED
    BY ONLY <2>1, <2>3, <2>4
<1>2. \A g : \A p \in Seq(Nat) : Body(R, g, p) = Step(g, p)
  BY DEF Body
<1> HIDE DEF R
<1>3. PICK g : g = [p \in Seq(Nat) |-> Body(R, g, p)]
  BY <1>1, SplitterExists
<1>4. g = [p \in Seq(Nat) |-> Step(g, p)]
  <2> HIDE DEF Step
  <2> QED
    BY <1>2, <1>3
<1>5. Batches = CHOOSE f : f = [p \in Seq(Nat) |-> Step(f, p)]
  BY DEF Batches
<1>6. Batches = [p \in Seq(Nat) |-> Step(Batches, p)]
  <2> HIDE DEF Step
  <2> QED
    BY <1>4, <1>5
<1>7. Batches[q] = Step(Batches, q)
  <2> HIDE DEF Step
  <2> QED
    BY <1>6
<1> QED
  BY <1>7

\* bs are the points of p in batches of at most n, or p has a point that fits none.
Splitting(bs, p, n) ==
  IF bs = None THEN \E i \in 1..Len(p) : p[i] > RequestBytes
  ELSE /\ bs \in Seq(Seq(Nat)) /\ FlattenSeq(bs) = p
       /\ \A i \in 1..Len(bs) : Len(bs[i]) \in 1..n /\ Bytes(bs[i]) <= RequestBytes

\* The batches of two parts are batches of the whole.
LEMMA BothSplits ==
  ASSUME NEW p \in Seq(Nat), NEW q \in Seq(Nat), NEW n \in Nat, NEW a, NEW b,
         Splitting(a, p, n), Splitting(b, q, n)
  PROVE  Splitting(Both(a, b), p \o q, n)
<1>1. /\ Len(p) \in Nat /\ Len(q) \in Nat /\ Len(p \o q) = Len(p) + Len(q)
      /\ \A i \in 1..(Len(p) + Len(q)) :
            (p \o q)[i] = IF i <= Len(p) THEN p[i] ELSE q[i - Len(p)]
  BY ConcatProperties
<1>2. CASE a = None
  <2>1. PICK i \in 1..Len(p) : p[i] > RequestBytes
    BY <1>2 DEF Splitting
  <2>2. i \in 1..Len(p \o q) /\ (p \o q)[i] = p[i]
    BY <1>1
  <2> QED
    BY <1>2, <2>1, <2>2, Zenon DEF Splitting, Both
<1>3. CASE b = None
  <2>1. PICK i \in 1..Len(q) : q[i] > RequestBytes
    BY <1>3 DEF Splitting
  <2>2. i + Len(p) \in 1..Len(p \o q) /\ (p \o q)[i + Len(p)] = q[i]
    BY <1>1
  <2> QED
    BY <1>3, <2>1, <2>2, Zenon DEF Splitting, Both
<1>4. CASE a # None /\ b # None
  <2>1. a \in Seq(Seq(Nat)) /\ b \in Seq(Seq(Nat)) /\ FlattenSeq(a) = p /\ FlattenSeq(b) = q
    BY <1>4 DEF Splitting
  <2>2. /\ a \o b \in Seq(Seq(Nat)) /\ Len(a) \in Nat /\ Len(b) \in Nat
        /\ Len(a \o b) = Len(a) + Len(b)
        /\ \A i \in 1..(Len(a) + Len(b)) :
              (a \o b)[i] = IF i <= Len(a) THEN a[i] ELSE b[i - Len(a)]
    BY <2>1, ConcatProperties
  <2>3. FlattenSeq(a \o b) = p \o q
    BY <2>1, FlattenConcat
  <2>4. Both(a, b) = a \o b
    BY <1>4 DEF Both
  <2>5. a \o b # None
    BY <2>2, ErrorAssumption, Zenon
  <2>6. ASSUME NEW i \in 1..Len(a \o b)
        PROVE  Len((a \o b)[i]) \in 1..n /\ Bytes((a \o b)[i]) <= RequestBytes
    <3>1. \/ i \in 1..Len(a) /\ (a \o b)[i] = a[i]
          \/ i - Len(a) \in 1..Len(b) /\ (a \o b)[i] = b[i - Len(a)]
      BY <2>2
    <3>2. /\ \A j \in 1..Len(a) : Len(a[j]) \in 1..n /\ Bytes(a[j]) <= RequestBytes
          /\ \A j \in 1..Len(b) : Len(b[j]) \in 1..n /\ Bytes(b[j]) <= RequestBytes
      BY <1>4, Zenon DEF Splitting
    <3> QED
      BY ONLY <3>1, <3>2, Zenon
  <2> QED
    BY ONLY <2>2, <2>3, <2>4, <2>5, <2>6, Zenon DEF Splitting
<1> QED
  BY <1>2, <1>3, <1>4

\* encode halves a chunk into requests, or finds the point that fits none.
LEMMA EncodeSplits ==
  ASSUME NEW n \in Nat
  PROVE  \A p \in Seq(Nat) : Len(p) \in 1..n => Splitting(Encode[p], p, n)
<1> DEFINE Good == {k \in Nat : \A p \in Seq(Nat) : Len(p) = k /\ k \in 1..n
                                   => Splitting(Encode[p], p, n)}
<1>1. ASSUME NEW k \in Nat, \A j \in Nat : j < k => j \in Good
      PROVE  k \in Good
  <2> SUFFICES ASSUME NEW p \in Seq(Nat), Len(p) = k, k \in 1..n
               PROVE  Splitting(Encode[p], p, n)
    OBVIOUS
  <2>1. CASE Bytes(p) <= RequestBytes
    <3> DEFINE bs == <<p>>
    <3>1. Encode[p] = bs
      BY <2>1, EncodeSteps, Zenon
    <3>2. bs \in Seq(Seq(Nat)) /\ Len(bs) = 1 /\ bs[1] = p
      OBVIOUS
    <3>3. FlattenSeq(bs) = p
      BY FlattenFew
    <3> HIDE DEF bs
    <3>4. bs # None
      BY <3>2, ErrorAssumption, Zenon
    <3>5. \A i \in 1..Len(bs) : bs[i] = p
      BY <3>2
    <3>6. Splitting(bs, p, n)
      BY <2>1, <3>2, <3>3, <3>4, <3>5, Zenon DEF Splitting
    <3> QED
      BY <3>1, <3>6, Zenon
  <2>2. CASE ~(Bytes(p) <= RequestBytes) /\ Len(p) <= 1
    <3>1. Encode[p] = None
      BY <2>2, EncodeSteps, Zenon
    <3>2. Len(p) = 1 /\ p[1] \in Nat
      BY <2>2, ElementOfSeq
    <3>3. p = <<p[1]>>
      BY <3>2
    <3>4. Bytes(p) = p[1]
      BY ONLY <3>2, <3>3, BytesOfFew, Zenon
    <3>5. p[1] > RequestBytes
      BY <2>2, <3>2, <3>4, CollectorAssumption
    <3>6. 1 \in 1..Len(p)
      BY <3>2
    <3> QED
      BY <3>1, <3>5, <3>6, Zenon DEF Splitting
  <2>3. CASE ~(Bytes(p) <= RequestBytes) /\ ~(Len(p) <= 1)
    <3> DEFINE a == Halves(p)[1]
               b == Halves(p)[2]
    <3>1. Encode[p] = Both(Encode[a], Encode[b])
      BY <2>3, EncodeSteps, Zenon
    <3>2. Len(p) > 1 /\ Len(p) \in Nat
      BY <2>3
    <3>3. /\ a \in Seq(Nat) /\ Len(a) \in 1..(Len(p) - 1)
          /\ b \in Seq(Nat) /\ Len(b) \in 1..(Len(p) - 1) /\ a \o b = p
      BY <3>2, HalvesCut
    <3> HIDE DEF a, b
    <3>4. /\ Len(a) \in Nat /\ Len(a) < k /\ Len(a) \in 1..n
          /\ Len(b) \in Nat /\ Len(b) < k /\ Len(b) \in 1..n
      BY <3>2, <3>3
    <3>5. Splitting(Encode[a], a, n) /\ Splitting(Encode[b], b, n)
      BY <1>1, <3>3, <3>4
    <3>6. Splitting(Both(Encode[a], Encode[b]), a \o b, n)
      BY <3>3, <3>5, BothSplits
    <3> QED
      BY <3>1, <3>3, <3>6, Zenon
  <2> QED
    BY <2>1, <2>2, <2>3
<1>2. \A k \in Nat : k \in Good
  <2> HIDE DEF Good
  <2> QED
    BY <1>1, LessInduction
<1> SUFFICES ASSUME NEW p \in Seq(Nat), Len(p) \in 1..n PROVE Splitting(Encode[p], p, n)
  OBVIOUS
<1>3. Len(p) \in Good
  BY <1>2
<1> QED
  BY <1>3

\* A scrape is cut into chunks and the chunks into requests, nothing left out.
LEMMA BatchesSplit ==
  \A p \in Seq(Nat) : Splitting(Batches[p], p, BatchPoints)
<1> DEFINE Good == {k \in Nat : \A p \in Seq(Nat) : Len(p) = k
                                   => Splitting(Batches[p], p, BatchPoints)}
<1>1. ASSUME NEW k \in Nat, \A j \in Nat : j < k => j \in Good
      PROVE  k \in Good
  <2> SUFFICES ASSUME NEW p \in Seq(Nat), Len(p) = k
               PROVE  Splitting(Batches[p], p, BatchPoints)
    OBVIOUS
  <2>1. CASE p = <<>>
    <3> DEFINE bs == <<>>
    <3>1. Batches[p] = bs
      BY <2>1, BatchesSteps, Zenon
    <3>2. bs \in Seq(Seq(Nat)) /\ \A i \in 1..Len(bs) : FALSE
      OBVIOUS
    <3>3. FlattenSeq(bs) = p
      BY <2>1, FlattenFew, Zenon
    <3> HIDE DEF bs
    <3>4. bs # None
      BY <3>2, ErrorAssumption, Zenon
    <3>5. Splitting(bs, p, BatchPoints)
      BY <3>2, <3>3, <3>4, Zenon DEF Splitting
    <3> QED
      BY <3>1, <3>5, Zenon
  <2>2. CASE p # <<>>
    <3> DEFINE m == Smaller(Len(p), BatchPoints)
               a == SubSeq(p, 1, m)
               b == SubSeq(p, m + 1, Len(p))
    <3>1. Batches[p] = Both(Encode[a], Batches[b])
      BY <2>2, BatchesSteps, Zenon
    <3>2. m \in 1..Len(p) /\ m \in 1..BatchPoints /\ Len(p) \in Nat /\ BatchPoints \in Nat
      BY <2>2, EmptySeq, CollectorAssumption DEF Smaller
    <3> HIDE DEF m
    <3>3. m \in 0..Len(p) /\ Len(p) - m \in Nat /\ Len(p) - m < k
      BY <3>2
    <3>4. /\ a \in Seq(Nat) /\ Len(a) = m /\ b \in Seq(Nat) /\ Len(b) = Len(p) - m
          /\ a \o b = p
      BY <3>3, Cut
    <3> HIDE DEF a, b
    <3>5. Splitting(Encode[a], a, BatchPoints)
      BY <3>2, <3>4, EncodeSplits
    <3>6. Splitting(Batches[b], b, BatchPoints)
      BY <1>1, <3>3, <3>4
    <3>7. Splitting(Both(Encode[a], Batches[b]), a \o b, BatchPoints)
      BY <3>2, <3>4, <3>5, <3>6, BothSplits
    <3> QED
      BY <3>1, <3>4, <3>7, Zenon
  <2> QED
    BY <2>1, <2>2
<1>2. \A k \in Nat : k \in Good
  <2> HIDE DEF Good
  <2> QED
    BY <1>1, LessInduction
<1> SUFFICES ASSUME NEW p \in Seq(Nat) PROVE Splitting(Batches[p], p, BatchPoints)
  OBVIOUS
<1>3. Len(p) \in Good /\ Len(p) \in Nat
  BY <1>2
<1> QED
  BY <1>3

\* BatchesExact is about the members of the lists.
LEMMA SplittingIs ==
  ASSUME NEW p \in Seq(Nat), NEW bs
  PROVE  Splitting(bs, p, BatchPoints)
           <=> /\ bs = None \/ bs \in Seq(Seq(Nat))
               /\ IF bs = None THEN \E x \in ToSet(p) : x > RequestBytes
                  ELSE /\ FlattenSeq(bs) = p
                       /\ \A b \in ToSet(bs) : Len(b) \in 1..BatchPoints /\ Bytes(b) <= RequestBytes
<1>1. (\E x \in ToSet(p) : x > RequestBytes) <=> (\E i \in 1..Len(p) : p[i] > RequestBytes)
  BY LenProperties DEF ToSet
<1>2. CASE bs = None
  BY <1>1, <1>2, Zenon DEF Splitting
<1>3. CASE bs # None /\ bs \notin Seq(Seq(Nat))
  BY <1>3, Zenon DEF Splitting
<1>4. CASE bs # None /\ bs \in Seq(Seq(Nat))
  <2>1. DOMAIN bs = 1..Len(bs)
    BY <1>4, LenProperties
  <2>2. (\A b \in ToSet(bs) : Len(b) \in 1..BatchPoints /\ Bytes(b) <= RequestBytes)
          <=> \A i \in 1..Len(bs) : Len(bs[i]) \in 1..BatchPoints /\ Bytes(bs[i]) <= RequestBytes
    BY ONLY <2>1, Zenon DEF ToSet
  <2> QED
    BY <1>4, <2>2, Zenon DEF Splitting
<1> QED
  BY <1>2, <1>3, <1>4

LEMMA SampleNow ==
  ASSUME SampleInv
  PROVE  sample \in Seq(Nat) /\ (scraper = "put" => Splitting(batches, sample, BatchPoints))
BY SplittingIs DEF SampleInv, BatchesExact

LEMMA SampleThen ==
  ASSUME sample' \in Seq(Nat), scraper' = "put" => Splitting(batches', sample', BatchPoints)
  PROVE  SampleInv'
BY SplittingIs DEF SampleInv, BatchesExact

\* A scrape is batched whole.
LEMMA ScrapeSplits ==
  ASSUME NEW s \in Samples, Scrape(s) PROVE SampleInv'
<1>1. s \in Seq(Nat) /\ sample' = s /\ batches' = Batches[s]
  BY CollectorAssumption DEF Scrape
<1>2. Splitting(batches', sample', BatchPoints)
  BY <1>1, BatchesSplit
<1> QED
  BY <1>1, <1>2, SampleThen

\* A batch that was enqueued, or dropped, takes its points with it.
LEMMA EnqueuedSplits ==
  ASSUME SampleInv, scraper = "put", batches \notin {None, <<>>}, Enqueued
  PROVE  SampleInv'
<1>1. /\ sample \in Seq(Nat) /\ batches \in Seq(Seq(Nat)) /\ FlattenSeq(batches) = sample
      /\ \A i \in 1..Len(batches) : Len(batches[i]) \in 1..BatchPoints
                                    /\ Bytes(batches[i]) <= RequestBytes
  BY SampleNow, Zenon DEF Splitting
<1> DEFINE h == Head(batches)
           t == Tail(batches)
           f == FlattenSeq(t)
<1>2. /\ h \in Seq(Nat) /\ t \in Seq(Seq(Nat)) /\ Len(t) = Len(batches) - 1
      /\ Len(batches) \in Nat /\ \A i \in 1..Len(t) : t[i] = batches[i + 1]
  BY <1>1, HeadTailProperties
<1>3. sample = h \o f /\ f \in Seq(Nat)
  <2>1. FlattenSeq(batches) = h \o f
    BY <1>1, FlattenTail
  <2> QED
    BY <1>1, <1>2, <2>1, FlattenType
<1>4. sample' = SubSeq(sample, Len(h) + 1, Len(sample)) /\ batches' = t
  BY DEF Enqueued
<1> HIDE DEF h, t, f
<1>5. sample' = f
  <2>1. Len(h) \in Nat /\ Len(f) \in Nat /\ Len(sample) = Len(h) + Len(f)
    BY <1>2, <1>3
  <2>2. \A i \in 1..Len(f) : sample[Len(h) + 1 + i - 1] = f[i]
    BY <1>2, <1>3, <2>1
  <2>3. /\ sample' \in Seq(Nat) /\ Len(sample') = Len(f)
        /\ \A i \in 1..Len(f) : sample'[i] = f[i]
    <3>1. \A i \in (Len(h) + 1)..Len(sample) : sample[i] \in Nat
      BY <1>1, <2>1, ElementOfSeq
    <3>2. /\ sample' \in Seq(Nat)
          /\ Len(sample') = IF Len(h) + 1 <= Len(sample)
                              THEN Len(sample) - (Len(h) + 1) + 1 ELSE 0
          /\ \A i \in 1..(Len(sample) - (Len(h) + 1) + 1) :
                sample'[i] = sample[Len(h) + 1 + i - 1]
      BY <1>4, <2>1, <3>1, SubSeqProperties
    <3> QED
      BY <2>1, <2>2, <3>2
  <2> QED
    BY <1>3, <2>3, SeqEqual
<1>6. \A i \in 1..Len(t) : Len(t[i]) \in 1..BatchPoints /\ Bytes(t[i]) <= RequestBytes
  <2> SUFFICES ASSUME NEW i \in 1..Len(t)
               PROVE  Len(t[i]) \in 1..BatchPoints /\ Bytes(t[i]) <= RequestBytes
    OBVIOUS
  <2>1. i + 1 \in 1..Len(batches) /\ t[i] = batches[i + 1]
    BY <1>2
  <2> QED
    BY <1>1, <2>1, Zenon
<1>7. t # None
  BY <1>2, ErrorAssumption, Zenon
<1>8. Splitting(t, f, BatchPoints)
  BY <1>2, <1>6, <1>7, Zenon DEF Splitting, f
<1> QED
  BY <1>3, <1>4, <1>5, <1>8, SampleThen

\* Outside a scrape there is nothing to enqueue.
LEMMA NextSample ==
  ASSUME SampleInv, [Next]_vars PROVE SampleInv'
<1>1. CASE UNCHANGED <<scraper, sample, batches>>
  BY <1>1, SampleNow, SampleThen
<1>2. CASE scraper' # "put" /\ sample' \in {sample, <<>>}
  <2>1. sample' \in Seq(Nat)
    BY <1>2, SampleNow, EmptySeq
  <2> QED
    BY <1>2, <2>1, SampleThen
<1>3. ASSUME NEW s \in Samples, Scrape(s) PROVE SampleInv'
  BY <1>3, ScrapeSplits
<1>4. CASE Put \/ PutDropped
  BY <1>4, EnqueuedSplits DEF Put, PutDropped
<1>5. CASE Scraped \/ PutFails
  BY <1>2, <1>5 DEF Scraped, PutFails, EndScrape
<1>6. CASE ScraperEnds \/ Joined \/ Kill
  BY <1>2, <1>6 DEF ScraperEnds, Joined, Kill, Off
<1>7. ASSUME NEW answer \in Detect, Start(answer) PROVE SampleInv'
  BY <1>2, <1>7 DEF Start
<1>8. CASE SourceActivates \/ StartFails \/ Cancel
  BY <1>1, <1>8 DEF SourceActivates, StartFails, Cancel, scraping
<1>9. CASE SenderNext /\ UNCHANGED <<machine, host, scope, scraping, starts, scrapes, faults>>
  BY <1>1, <1>9 DEF scraping
<1>10. CASE UNCHANGED vars
  BY <1>1, <1>10 DEF vars, scraping
<1> QED
  BY <1>3, <1>4, <1>5, <1>6, <1>7, <1>8, <1>9, <1>10 DEF Next, Scraper

\* The batches still to enqueue are the points still to enqueue, in order and each
\* once, every batch within both limits; a sample is given up only for a point
\* that no request can hold.
THEOREM BatchesCorrect == Spec => []BatchesExact
<1>1. Init => SampleInv
  BY SampleThen DEF Init, SampleInv, BatchesExact
<1>2. SampleInv /\ [Next]_vars => SampleInv'
  BY NextSample
<1>3. SampleInv => BatchesExact
  BY DEF SampleInv
<1> QED
  BY <1>1, <1>2, <1>3, PTL DEF Spec

=============================================================================
