---------------------------- MODULE DurableQueue ----------------------------
(***************************************************************************)
(* What the Logs spool promises its callers (the comments and signatures   *)
(* of LogDisk's PutAdmission, Activate, Next and Ack), without files: a    *)
(* first-in first-out queue of records, each under one identity, that      *)
(* survives crashes as far as callers were told.                           *)
(*                                                                         *)
(* A record may be there before its caller knows; whatever a caller was    *)
(* told is kept until the head is acknowledged or the record is damaged.   *)
(* A record being removed may come back: delivery is at least once.        *)
(***************************************************************************)
EXTENDS Naturals

CONSTANT Admissions

VARIABLES
    pos,      \* position of each identity in the queue, 0 when it has none
    ready,    \* identities that may be delivered
    promise,  \* what callers were told: "none", "stored" or "ready"
    damaged,  \* records the medium has spoilt
    leaving   \* records that are out of sight, not yet for good

vars == <<pos, ready, promise, damaged, leaving>>

Queued == {a \in Admissions : pos[a] # 0}

Init ==
    /\ pos = [a \in Admissions |-> 0] /\ ready = {}
    /\ promise = [a \in Admissions |-> "none"]
    /\ damaged = {} /\ leaving = {}

\* A new record goes to the end of the queue.
Store(a) ==
    /\ a \notin Queued
    /\ pos'[a] \in Nat \ {0} /\ \A b \in Queued : pos'[a] > pos[b]
    /\ pos' = [pos EXCEPT ![a] = pos'[a]]
    /\ promise' \in {promise, [promise EXCEPT ![a] = "stored"]}
    /\ UNCHANGED <<ready, damaged, leaving>>

MakeReady(a) ==
    /\ a \in Queued \ leaving
    /\ ready' = ready \cup {a}
    /\ promise' \in {promise, [promise EXCEPT ![a] = "ready"]}
    /\ UNCHANGED <<pos, damaged, leaving>>

IsHead(a) == a \in ready \ leaving /\ \A b \in ready \ leaving : pos[a] <= pos[b]

\* Only the head is acknowledged, and only a sound record.
Acknowledge(a) ==
    /\ IsHead(a) /\ a \notin damaged
    /\ promise' = [promise EXCEPT ![a] = "none"]
    /\ ready' \in {ready, ready \ {a}}
    /\ \/ leaving' = leaving \cup {a} /\ UNCHANGED pos
       \/ pos' = [pos EXCEPT ![a] = 0] /\ UNCHANGED leaving
    /\ UNCHANGED damaged

Damage(a) ==
    /\ a \in Queued \ damaged
    /\ damaged' = damaged \cup {a}
    /\ promise' = [promise EXCEPT ![a] = "none"]
    /\ UNCHANGED <<pos, ready, leaving>>

\* A damaged record is set aside.
SetAside(a) ==
    /\ a \in damaged
    /\ leaving' = leaving \cup {a} /\ damaged' = damaged \ {a}
    /\ ready' \in {ready, ready \ {a}}
    /\ UNCHANGED <<pos, promise>>

\* What nobody was told may be lost, and what was leaving is gone or back.
Settles ==
    /\ \A a \in Admissions :
          \/ pos'[a] = pos[a]
          \/ pos'[a] = 0 /\ promise[a] = "none"
    /\ ready' \subseteq ready /\ leaving' \subseteq leaving
    /\ damaged' \subseteq damaged \cup leaving
    /\ \A a \in Queued : promise[a] = "ready" => a \in ready'

\* A crash, or a recovery that makes the past permanent.
Settle == Settles /\ UNCHANGED promise

\* PutAdmission returns a new receipt.
ConfirmStored(a) ==
    /\ Settles /\ pos'[a] # 0 /\ a \notin leaving'
    /\ promise' = [promise EXCEPT ![a] = "stored"]

\* Activate returns.
ConfirmReady(a) ==
    /\ Settles /\ a \in ready' \ leaving'
    /\ promise' = [promise EXCEPT ![a] = "ready"]

Next ==
    \/ Settle
    \/ \E a \in Admissions :
          \/ Store(a) \/ MakeReady(a) \/ ConfirmStored(a) \/ ConfirmReady(a)
          \/ Acknowledge(a) \/ Damage(a) \/ SetAside(a)

Spec == Init /\ [][Next]_vars

=============================================================================
