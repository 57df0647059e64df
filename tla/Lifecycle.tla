------------------------------ MODULE Lifecycle ------------------------------
(***************************************************************************)
(* The capability lifecycle: app.Manager (internal/app/app.go), its policy *)
(* store and the remote policy gate (internal/fleet/fleet.go).             *)
(*                                                                         *)
(* Apply and Close hold m.mu for their whole run, so one of them is under  *)
(* way at a time: `op' is its current loop and `todo' the capabilities     *)
(* that loop has left.  Each Start and Stop of a collector is one step,    *)
(* with every outcome; the root context may be cancelled between any two.  *)
(***************************************************************************)
EXTENDS Integers, FiniteSets

CONSTANTS
    Capabilities,  \* policy.All()
    Rank,          \* position of a capability in policy.All()
    Registered,    \* capabilities with an implemented registration
    Allowed,       \* remote_allowed: what the gate lets a remote policy enable
    ForgetsCancel, \* collectors whose second Stop returns nil without waiting
    HasStore,      \* whether the manager was given a store
    MaxVersion,    \* bound: policy versions the callers present
    NoPolicy       \* no remote policy is waiting

Policies == [version : 0..MaxVersion, enabled : SUBSET Capabilities]

ASSUME LifecycleAssumption ==
    /\ IsFiniteSet(Capabilities) /\ Rank \in [Capabilities -> Nat]
    /\ \A c, d \in Capabilities : Rank[c] = Rank[d] => c = d
    /\ Registered \subseteq Capabilities /\ Allowed \subseteq Capabilities
    /\ ForgetsCancel \subseteq Capabilities
    /\ HasStore \in BOOLEAN /\ MaxVersion \in Nat
    /\ NoPolicy \notin [version : Nat, enabled : SUBSET Capabilities]

VARIABLES
    active,          \* the keys of m.active
    asked,           \* active collectors whose Stop has failed before
    serving,         \* instances of each capability whose context is live
    leaving,         \* instances that are cancelled and not yet joined
    current, stored, \* m.current and the policy in the store
    degraded, closed,
    rootDone,        \* the root context is cancelled
    op, todo, next,  \* the Apply or Close under way
    bad,             \* restore's flag
    gate, gatePolicy,\* Gate.Accept: idle, waiting for m.mu, applying
    claimed          \* capabilities whose last Stop returned nil

collectors == <<active, asked, serving, leaving, claimed>>
policy == <<current, stored>>
flags == <<degraded, closed, rootDone>>
running == <<op, todo, next, bad>>
remote == <<gate, gatePolicy>>
vars == <<collectors, policy, flags, running, remote>>

NonePolicy == [version |-> 0, enabled |-> {}]

Init ==
    /\ active = {} /\ asked = {} /\ claimed = {}
    /\ serving = [c \in Capabilities |-> 0] /\ leaving = serving
    /\ current = NonePolicy /\ stored = NonePolicy
    /\ degraded = FALSE /\ closed = FALSE /\ rootDone = FALSE
    /\ op = "idle" /\ todo = {} /\ next = NonePolicy /\ bad = FALSE
    /\ gate = "idle" /\ gatePolicy = NoPolicy

-----------------------------------------------------------------------------
(* start and stop.                                                          *)

Plus(f, c) == [f EXCEPT ![c] = @ + 1]
Minus(f, c) == [f EXCEPT ![c] = @ - 1]

\* Construction or Start failed and what Start had begun was stopped.
StartFails(c) == UNCHANGED <<collectors, degraded>>

\* Mutation: the failing Stop after a failed Start is ignored.
StartFailsHangingQuietly(c) ==
    /\ leaving' = Plus(leaving, c)
    /\ claimed' = claimed \ {c}
    /\ UNCHANGED <<active, asked, serving, degraded>>

\* Start failed, and so did the Stop that follows it.
StartFailsHanging(c) ==
    /\ leaving' = Plus(leaving, c) /\ degraded' = TRUE
    /\ claimed' = claimed \ {c}
    /\ UNCHANGED <<active, asked, serving>>

\* A collector started after the root was cancelled has a cancelled context.
StartSucceeds(c) ==
    /\ active' = active \cup {c} /\ claimed' = claimed \ {c}
    /\ IF rootDone THEN leaving' = Plus(leaving, c) /\ UNCHANGED serving
                   ELSE serving' = Plus(serving, c) /\ UNCHANGED leaving
    /\ UNCHANGED <<asked, degraded>>

\* Mutation: a collector that would not stop is forgotten all the same.
StopFailsForgets(c) ==
    /\ degraded' = TRUE /\ active' = active \ {c} /\ asked' = asked \cup {c}
    /\ IF serving[c] > 0 THEN serving' = Minus(serving, c) /\ leaving' = Plus(leaving, c)
                         ELSE UNCHANGED <<serving, leaving>>
    /\ claimed' = claimed \ {c}

\* The collector is cancelled but not joined before the deadline.
StopFails(c) ==
    /\ degraded' = TRUE /\ asked' = asked \cup {c}
    /\ IF serving[c] > 0 THEN serving' = Minus(serving, c) /\ leaving' = Plus(leaving, c)
                         ELSE UNCHANGED <<serving, leaving>>
    /\ claimed' = claimed \ {c}
    /\ UNCHANGED active

\* Stop returned nil.  Logs.Stop forgets its cancel function on the first call,
\* so that a second one returns nil at once; Metrics.Stop waits again.
StopSucceeds(c) ==
    /\ active' = active \ {c} /\ asked' = asked \ {c}
    /\ claimed' = claimed \cup {c}
    /\ \/ IF serving[c] > 0 THEN serving' = Minus(serving, c) /\ UNCHANGED leaving
          ELSE IF leaving[c] > 0 THEN leaving' = Minus(leaving, c) /\ UNCHANGED serving
          ELSE UNCHANGED <<serving, leaving>>
       \/ c \in asked \cap ForgetsCancel /\ UNCHANGED <<serving, leaving>>
    /\ UNCHANGED degraded

\* The loops go through policy.All() in order.
IsFirst(c) == c \in todo /\ \A d \in todo : Rank[c] <= Rank[d]
Pass(c) == todo' = todo \ {c} /\ UNCHANGED <<op, next, bad>>
Loop(o, cs) == op' = o /\ todo' = cs

-----------------------------------------------------------------------------
(* Apply.                                                                   *)

\* Mutation: the version is not compared with the one in force.
ApplyAllowedStale(p) ==
    /\ ~closed /\ ~degraded /\ ~rootDone
    /\ p.version > 0 /\ p # current
    /\ p.enabled \subseteq Registered

\* Mutation: a degraded manager goes on applying.
ApplyAllowedDegraded(p) ==
    /\ ~closed /\ ~rootDone
    /\ p.version > current.version
    /\ p.enabled \subseteq Registered

\* The early returns; an identical policy returns nil and changes nothing.
ApplyAllowed(p) ==
    /\ ~closed /\ ~degraded /\ ~rootDone
    /\ p.version > current.version
    /\ p.enabled \subseteq Registered

ApplyBegin(p) ==
    /\ op = "idle" /\ ApplyAllowed(p)
    /\ next' = p /\ bad' = FALSE
    /\ Loop("stop", active \ p.enabled)
    /\ UNCHANGED <<collectors, policy, flags>>

LocalApply(p) == ApplyBegin(p) /\ UNCHANGED remote

\* fail(): restore stops what the old policy does not enable, then starts what
\* it enables and is not active.
Fail == op' = "rstop" /\ todo' = active \ current.enabled /\ bad' = FALSE
        /\ UNCHANGED next

ApplyStop(c) ==
    /\ op = "stop" /\ IsFirst(c)
    /\ \/ StopSucceeds(c) /\ Pass(c)
       \/ StopFails(c) /\ Fail
    /\ UNCHANGED <<policy, closed, rootDone, remote>>

\* Mutation: the policy is saved before its collectors are started.
ApplyStoppedSaves ==
    /\ op = "stop" /\ todo = {}
    /\ Loop("start", next.enabled \ active)
    /\ stored' = IF HasStore THEN next ELSE stored
    /\ UNCHANGED <<collectors, current, flags, next, bad, remote>>

ApplyStopped ==
    /\ op = "stop" /\ todo = {}
    /\ Loop("start", next.enabled \ active)
    /\ UNCHANGED <<collectors, policy, flags, next, bad, remote>>

ApplyStart(c) ==
    /\ op = "start" /\ IsFirst(c)
    /\ \/ StartSucceeds(c) /\ Pass(c)
       \/ (StartFails(c) \/ StartFailsHanging(c)) /\ Fail
    /\ UNCHANGED <<policy, closed, rootDone, remote>>

ApplyStarted ==
    /\ op = "start" /\ todo = {}
    /\ Loop("save", {})
    /\ UNCHANGED <<collectors, policy, flags, next, bad, remote>>

\* The call returns: m.mu is released, and g.mu when the gate made the call.
Return ==
    /\ Loop("idle", {})
    /\ IF gate = "applying" THEN gate' = "idle" /\ gatePolicy' = NoPolicy
                            ELSE UNCHANGED remote

\* The caller's context was cancelled meanwhile.
ApplyCancelled ==
    /\ op = "save" /\ Fail
    /\ UNCHANGED <<collectors, policy, flags, remote>>

ApplyCommits ==
    /\ op = "save"
    /\ stored' = IF HasStore THEN next ELSE stored
    /\ current' = next
    /\ Return
    /\ UNCHANGED <<collectors, flags, next, bad>>

\* Mutation: a failing save is taken for a clean failure.
SaveFailsQuietly ==
    /\ op = "save" /\ HasStore
    /\ stored' \in {stored, next}
    /\ Fail
    /\ UNCHANGED <<collectors, current, flags, remote>>

\* Save failed, before or after the replacement took effect.
SaveFails ==
    /\ op = "save" /\ HasStore
    /\ stored' \in {stored, next} /\ degraded' = TRUE
    /\ Fail
    /\ UNCHANGED <<collectors, current, closed, rootDone, remote>>

RestoreStop(c) ==
    /\ op = "rstop" /\ IsFirst(c)
    /\ todo' = todo \ {c} /\ UNCHANGED <<op, next>>
    /\ \/ StopSucceeds(c) /\ UNCHANGED bad
       \/ StopFails(c) /\ bad' = TRUE
    /\ UNCHANGED <<policy, closed, rootDone, remote>>

RestoreStopped ==
    /\ op = "rstop" /\ todo = {}
    /\ Loop("rstart", current.enabled \ active)
    /\ UNCHANGED <<collectors, policy, flags, next, bad, remote>>

RestoreStart(c) ==
    /\ op = "rstart" /\ IsFirst(c)
    /\ todo' = todo \ {c} /\ UNCHANGED <<op, next>>
    /\ \/ StartSucceeds(c) /\ UNCHANGED bad
       \/ (StartFails(c) \/ StartFailsHanging(c)) /\ bad' = TRUE
    /\ UNCHANGED <<policy, closed, rootDone, remote>>

\* Mutation: an incomplete rollback is reported but not remembered.
RestoreReturnQuietly ==
    /\ op = "rstart" /\ todo = {}
    /\ Return
    /\ UNCHANGED <<collectors, policy, flags, next, bad>>

RestoreReturn ==
    /\ op = "rstart" /\ todo = {}
    /\ degraded' = (degraded \/ bad)
    /\ Return
    /\ UNCHANGED <<collectors, policy, closed, rootDone, next, bad>>

-----------------------------------------------------------------------------
(* Close, the gate, and the environment.                                    *)

CloseBegin ==
    /\ op = "idle"
    /\ closed' = TRUE /\ Loop("close", active)
    /\ UNCHANGED <<collectors, policy, degraded, rootDone, next, bad, remote>>

CloseStop(c) ==
    /\ op = "close" /\ IsFirst(c)
    /\ StopSucceeds(c) \/ StopFails(c)
    /\ Pass(c)
    /\ UNCHANGED <<policy, closed, rootDone, remote>>

CloseReturn ==
    /\ op = "close" /\ todo = {}
    /\ Loop("idle", {})
    /\ UNCHANGED <<collectors, policy, flags, next, bad, remote>>

\* Accept holds g.mu from its checks until Apply returns.  Authentication,
\* scope and expiry decide whether the action is taken at all.
GateAccept(p) ==
    /\ gate = "idle" /\ p.version > 0 /\ p.enabled \subseteq Allowed
    /\ gate' = "waiting" /\ gatePolicy' = p
    /\ UNCHANGED <<collectors, policy, flags, running>>

GateApply ==
    /\ gate = "waiting" /\ ApplyBegin(gatePolicy)
    /\ gate' = "applying" /\ UNCHANGED gatePolicy

\* One of Apply's early returns, a cancelled context of the caller included.
GateRefused ==
    /\ gate = "waiting" /\ op = "idle"
    /\ gate' = "idle" /\ gatePolicy' = NoPolicy
    /\ UNCHANGED <<collectors, policy, flags, running>>

\* The service is told to stop: every collector's context is cancelled.
RootCancelled ==
    /\ ~rootDone /\ rootDone' = TRUE
    /\ serving' = [c \in Capabilities |-> 0]
    /\ leaving' = [c \in Capabilities |-> leaving[c] + serving[c]]
    /\ UNCHANGED <<active, asked, claimed, policy, degraded, closed, running, remote>>

\* The workers of a cancelled instance end.
WorkersExit(c) ==
    /\ leaving[c] > 0 /\ leaving' = Minus(leaving, c)
    /\ UNCHANGED <<active, asked, serving, claimed, policy, flags, running, remote>>

-----------------------------------------------------------------------------
Apply ==
    \/ \E c \in Capabilities : ApplyStop(c) \/ ApplyStart(c)
    \/ ApplyStopped \/ ApplyStarted \/ ApplyCancelled \/ ApplyCommits \/ SaveFails
Restore ==
    \/ \E c \in Capabilities : RestoreStop(c) \/ RestoreStart(c)
    \/ RestoreStopped \/ RestoreReturn
Close == CloseBegin \/ (\E c \in Capabilities : CloseStop(c)) \/ CloseReturn
Gate == (\E p \in Policies : GateAccept(p)) \/ GateApply \/ GateRefused

Next ==
    \/ \E p \in Policies : LocalApply(p)
    \/ Apply \/ Restore \/ Close \/ Gate
    \/ RootCancelled \/ \E c \in Capabilities : WorkersExit(c)

Spec == Init /\ [][Next]_vars

-----------------------------------------------------------------------------
(* Properties.                                                              *)

\* The type of every variable.
TypeOK ==
    /\ active \subseteq Capabilities /\ asked \subseteq active
    /\ claimed \subseteq Capabilities
    /\ serving \in [Capabilities -> Nat] /\ leaving \in [Capabilities -> Nat]
    /\ current \in Policies /\ stored \in Policies /\ next \in Policies
    /\ degraded \in BOOLEAN /\ closed \in BOOLEAN /\ rootDone \in BOOLEAN
    /\ op \in {"idle", "stop", "start", "save", "rstop", "rstart", "close"}
    /\ todo \subseteq Capabilities /\ bad \in BOOLEAN
    /\ gate \in {"idle", "waiting", "applying"}
    /\ gatePolicy \in Policies \cup {NoPolicy}

Instances(c) == serving[c] + leaving[c]

\* A capability never has two instances at once, cancelled ones included: they
\* would contend for the same spool, checkpoints and host readers.  Rollback
\* starts collectors again, so this rests on what a failure leaves behind.
OneInstance == \A c \in Capabilities : Instances(c) <= 1

\* Between calls, a manager that is neither degraded nor closed runs exactly the
\* collectors of the policy it reports, whatever failed and was rolled back.
PolicyInForce ==
    op = "idle" /\ ~degraded /\ ~closed /\ ~rootDone =>
        /\ active = current.enabled
        /\ \A c \in Capabilities :
              leaving[c] = 0 /\ serving[c] = IF c \in active THEN 1 ELSE 0

\* A worker outlives its entry in m.active only in a degraded manager.
StrayMeansDegraded ==
    \A c \in Capabilities \ active : Instances(c) > 0 => degraded

\* The stored policy is the one in force, or the manager knows it may not be.
StoreKnown == HasStore /\ op = "idle" /\ ~degraded => stored = current

\* "Save successful policy only after lifecycle success": a policy reaches the
\* store only while exactly its collectors are active.
SavedWhenLive == [][stored' # stored => active = stored'.enabled]_vars

\* Neither the policy in force nor the stored one goes back to an older version,
\* with local and remote callers racing for m.mu.
VersionsAdvance ==
    [][/\ current' # current => current'.version > current.version
       /\ stored' # stored => stored'.version > stored.version]_vars

\* collectors.Collector: "Stop joins workers/closes files/listeners".
StopJoins == \A c \in claimed : Instances(c) = 0

-----------------------------------------------------------------------------
(* The inductive invariant behind the theorems of Lifecycle_proofs.         *)

\* Where each loop has got to, in terms of the old and the new policy.  What
\* rollback will start has no instance left, even when the manager is degraded.
PhaseInv ==
    /\ op = "idle" /\ ~degraded /\ ~closed => active = current.enabled
    /\ op \in {"stop", "start", "save"} =>
          /\ ~degraded /\ ~closed /\ next.version > current.version
          /\ current.enabled \cap next.enabled \subseteq active
    /\ op = "stop" => active \subseteq current.enabled /\ todo = active \ next.enabled
    /\ op = "start" => active \subseteq next.enabled /\ todo = next.enabled \ active
    /\ op = "save" => active = next.enabled
    /\ op = "rstop" =>
          /\ todo \subseteq active \ current.enabled
          /\ ~degraded => active \ todo \subseteq current.enabled
          /\ \A c \in current.enabled \ active : Instances(c) = 0
    /\ op = "rstart" =>
          /\ todo \subseteq current.enabled \ active
          /\ \A c \in todo : Instances(c) = 0
          /\ ~degraded /\ ~bad =>
                active \subseteq current.enabled /\ current.enabled \ active \subseteq todo
    /\ op = "close" => closed /\ todo \subseteq active

\* A collector in m.active of a healthy manager has its one live instance.
LiveInv == ~rootDone /\ ~degraded => \A c \in active : serving[c] = 1

LInv ==
    /\ TypeOK /\ OneInstance /\ StrayMeansDegraded /\ PhaseInv /\ LiveInv
    /\ asked # {} => degraded
    /\ gate # "idle" => gatePolicy \in Policies
    /\ HasStore /\ ~degraded => stored = current
    /\ ~HasStore => stored = NonePolicy

=============================================================================
