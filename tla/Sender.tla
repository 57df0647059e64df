------------------------------- MODULE Sender -------------------------------
(***************************************************************************)
(* exporter.Sender.Send (internal/exporter/sender.go) and the delivery     *)
(* loop around it (collectors/metrics.go and logs_linux.go): attempts,     *)
(* classification of what the backend or the transport answered, backoff,  *)
(* Retry-After, the cooldown between cycles, and cancellation racing all   *)
(* of them.  Collector starts and stops the loop and fills the spool.      *)
(*                                                                         *)
(* Time is relative: `timer' is what is left of the current sleep, `hold'  *)
(* what is left of the delay the backend last asked for.                   *)
(***************************************************************************)
EXTENDS Integers, Sequences

CONSTANTS
    Signals,      \* "metrics", "logs"
    MaxAttempts,  \* max_attempts
    RetryAfters,  \* delays a Retry-After header may ask for
    LogsCap,      \* the 30 minutes that bound a Logs delay
    Backoff,      \* delay after each attempt that came without Retry-After
    Cooldown      \* the 30 seconds between two cycles

Smaller(a, b) == IF a < b THEN a ELSE b

ASSUME SenderAssumption ==
    /\ Signals \subseteq {"metrics", "logs"} /\ MaxAttempts \in Nat \ {0}
    /\ RetryAfters \subseteq Nat /\ LogsCap \in Nat /\ Cooldown \in Nat
    /\ Backoff \in [0..(MaxAttempts - 1) -> Nat]

VARIABLES
    signal,            \* "metrics" or "logs"
    phase, attempt,    \* where the loop is; attempt of the current Send
    after,             \* what follows the current sleep
    timer, hold,
    spool,             \* the records to deliver, oldest first
    kept,              \* what the backend keeps of the oldest: "none", "part", "all"
    cancelled          \* the collector's context is done

progress == <<phase, attempt, after, timer>>
sender == <<signal, progress, hold, spool, kept, cancelled>>

\* The loop of a process that has just been started (or is not running).
Loops(p) == phase = p /\ attempt = 0 /\ after = "attempt" /\ timer = 0 /\ hold = 0
Reset(p) == phase' = p /\ attempt' = 0 /\ after' = "attempt" /\ timer' = 0 /\ hold' = 0

SenderInit ==
    /\ signal \in Signals /\ Loops("off")
    /\ spool = <<>> /\ kept = "none" /\ cancelled = FALSE

-----------------------------------------------------------------------------
(* The loop and the attempts of one Send.                                   *)

Goto(p) == phase' = p /\ UNCHANGED <<attempt, after, timer>>
Rest == UNCHANGED <<signal, spool, kept, cancelled>>

\* Next returns the head, or an error once the context is done.
Peek ==
    /\ phase = "next" /\ ~cancelled /\ spool # <<>>
    /\ phase' = "attempt" /\ attempt' = 0
    /\ UNCHANGED <<after, timer, hold>> /\ Rest

\* Next fails: the head cannot be read, or the spool gave up.
PeekFails ==
    /\ phase = "next" /\ ~cancelled
    /\ Goto("paused") /\ UNCHANGED hold /\ Rest

\* Mutation: an idle loop does not watch the context.
StopsBusy ==
    /\ phase \in {"attempt", "await", "sleep"} /\ cancelled
    /\ Goto("stopped") /\ UNCHANGED hold /\ Rest

\* Every check of the context before, between and after attempts.
Stops ==
    /\ phase \in {"next", "attempt", "await", "sleep"} /\ cancelled
    /\ Goto("stopped") /\ UNCHANGED hold /\ Rest

Attempt ==
    /\ phase = "attempt" /\ ~cancelled
    /\ Goto("await") /\ UNCHANGED hold /\ Rest

\* Request fails: the credential is unavailable or the record breaks a limit.
RequestFails ==
    /\ phase = "attempt"
    /\ Goto("paused") /\ UNCHANGED hold /\ Rest

Sleep(d, next) == phase' = "sleep" /\ timer' = d /\ after' = next /\ UNCHANGED attempt

\* The attempt that ends a cycle.
LastAttempt == attempt + 1 = MaxAttempts

\* retryDelayForSignal: Logs bounds what the header asks for.
Delay(d) == IF signal = "logs" THEN Smaller(d, LogsCap) ELSE d

Most(a, b) == IF "all" \in {a, b} THEN "all" ELSE IF "part" \in {a, b} THEN "part" ELSE "none"

\* A full acceptance.
Accepted ==
    /\ phase = "await" /\ kept' = "all"
    /\ Goto("ack") /\ UNCHANGED <<signal, hold, spool, cancelled>>

\* Mutation: a partial success is final for Metrics too.
PartialSuccessAcked ==
    /\ phase = "await" /\ kept' = Most(kept, "part")
    /\ Goto("ack") /\ UNCHANGED <<signal, hold, spool, cancelled>>

\* Some points or log records were rejected: Metrics pauses with the batch, Logs
\* takes the accepted part as final.
PartialSuccess ==
    /\ phase = "await" /\ kept' = Most(kept, "part")
    /\ Goto(IF signal = "logs" THEN "ack" ELSE "paused")
    /\ UNCHANGED <<signal, hold, spool, cancelled>>

\* 401, 403, a permanent status, an untrusted peer, a refused redirect, or an
\* unreadable answer to an accepted request.
Refused ==
    /\ phase = "await" /\ kept' \in {kept, "all"}
    /\ Goto("paused") /\ UNCHANGED <<signal, hold, spool, cancelled>>

\* The transport failed; the backend may have taken the record.
Lost ==
    /\ phase = "await" /\ ~cancelled /\ kept' \in {kept, "all"}
    /\ IF LastAttempt THEN Sleep(Cooldown, "next") ELSE Sleep(Backoff[attempt], "attempt")
    /\ UNCHANGED <<signal, hold, spool, cancelled>>

\* 429 and retryable 5xx without a usable Retry-After.
Unavailable ==
    /\ phase = "await"
    /\ Sleep(Backoff[attempt], IF LastAttempt THEN "cooldown" ELSE "attempt")
    /\ UNCHANGED hold /\ Rest

\* Mutation: the last attempt of a cycle does not wait.
ThrottledLast(d) ==
    /\ phase = "await"
    /\ hold' = Delay(d)
    /\ IF LastAttempt THEN Sleep(Cooldown, "next") ELSE Sleep(Delay(d), "attempt")
    /\ Rest

\* ... with one: the last attempt of a cycle waits for it too.
Throttled(d) ==
    /\ phase = "await"
    /\ hold' = Delay(d)
    /\ Sleep(Delay(d), IF LastAttempt THEN "cooldown" ELSE "attempt")
    /\ Rest

\* Mutation: an exhausted cycle is the last one.
WakeGivesUp ==
    /\ phase = "sleep" /\ timer = 0
    /\ UNCHANGED <<after, timer, hold>> /\ Rest
    /\ phase' = IF after = "attempt" THEN after ELSE "stopped"
    /\ attempt' = IF after = "attempt" THEN attempt + 1 ELSE attempt

Wake ==
    /\ phase = "sleep" /\ timer = 0
    /\ IF after = "cooldown" THEN Sleep(Cooldown, "next")
       ELSE /\ UNCHANGED <<after, timer>> /\ phase' = after
            /\ attempt' = IF after = "attempt" THEN attempt + 1 ELSE attempt
    /\ UNCHANGED hold /\ Rest

\* Ack looks at the context first: a delivered record may stay in the spool.
Ack ==
    /\ phase = "ack" /\ ~cancelled
    /\ spool' = Tail(spool) /\ kept' = "none" /\ Goto("next")
    /\ UNCHANGED <<signal, hold, cancelled>>

AckCancelled ==
    /\ phase = "ack" /\ cancelled
    /\ Goto("paused") /\ UNCHANGED hold /\ Rest

-----------------------------------------------------------------------------
Less(t) == IF t = 0 THEN 0 ELSE t - 1

Tick ==
    /\ timer + hold > 0
    /\ timer' = Less(timer) /\ hold' = Less(hold)
    /\ UNCHANGED <<phase, attempt, after>> /\ Rest

Loop == Peek \/ Stops \/ Attempt \/ Wake \/ Ack \/ AckCancelled
Answers ==
    \/ Accepted \/ PartialSuccess \/ Refused \/ Lost \/ Unavailable
    \/ \E d \in RetryAfters : Throttled(d)

SenderNext == Loop \/ PeekFails \/ RequestFails \/ Answers \/ Tick

=============================================================================
