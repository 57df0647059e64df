-------------------------- MODULE Lifecycle_proofs --------------------------
(***************************************************************************)
(* Proofs about Lifecycle: for any set of capabilities, any registrations  *)
(* and any policies, LInv is inductive.                                    *)
(***************************************************************************)
EXTENDS Lifecycle, TLAPS

-----------------------------------------------------------------------------
(* The primitives: what starting and stopping one collector does.           *)

\* A collector that Stop joined, or whose second Stop did not wait, is out of
\* m.active; it can only be left running if the manager was degraded already.
LEMMA StopSucceedsLemma ==
  ASSUME LInv, NEW c \in active, StopSucceeds(c)
  PROVE  /\ active' = active \ {c} /\ asked' \subseteq active' /\ asked' \subseteq asked
         /\ claimed' \subseteq Capabilities /\ degraded' = degraded
         /\ serving' \in [Capabilities -> Nat] /\ leaving' \in [Capabilities -> Nat]
         /\ \A d \in Capabilities \ {c} : serving'[d] = serving[d] /\ leaving'[d] = leaving[d]
         /\ serving'[c] + leaving'[c] <= 1
         /\ ~degraded => serving'[c] + leaving'[c] = 0
<1> USE DEF LInv, TypeOK, OneInstance, Instances
<1>1. c \in Capabilities /\ serving[c] \in Nat /\ leaving[c] \in Nat
       /\ serving[c] + leaving[c] <= 1
  OBVIOUS
<1>2. CASE c \in asked \cap ForgetsCancel /\ UNCHANGED <<serving, leaving>>
  BY <1>1, <1>2 DEF StopSucceeds
<1>3. CASE IF serving[c] > 0 THEN serving' = Minus(serving, c) /\ UNCHANGED leaving
           ELSE IF leaving[c] > 0 THEN leaving' = Minus(leaving, c) /\ UNCHANGED serving
           ELSE UNCHANGED <<serving, leaving>>
  BY <1>1, <1>3 DEF StopSucceeds, Minus
<1>4. QED
  BY <1>2, <1>3 DEF StopSucceeds

\* A collector that did not stop stays in m.active, cancelled.
LEMMA StopFailsLemma ==
  ASSUME LInv, NEW c \in active, StopFails(c)
  PROVE  /\ active' = active /\ asked' \subseteq active' /\ degraded' = TRUE
         /\ claimed' \subseteq Capabilities
         /\ serving' \in [Capabilities -> Nat] /\ leaving' \in [Capabilities -> Nat]
         /\ \A d \in Capabilities : serving'[d] + leaving'[d] = serving[d] + leaving[d]
<1> USE DEF LInv, TypeOK
<1>1. c \in Capabilities /\ serving[c] \in Nat /\ leaving[c] \in Nat
  OBVIOUS
<1>2. QED
  BY <1>1 DEF StopFails, Plus, Minus

\* A started collector has one instance when it had none.
LEMMA StartSucceedsLemma ==
  ASSUME LInv, NEW c \in Capabilities, Instances(c) = 0, StartSucceeds(c)
  PROVE  /\ active' = active \cup {c} /\ asked' = asked /\ degraded' = degraded
         /\ claimed' \subseteq Capabilities
         /\ serving' \in [Capabilities -> Nat] /\ leaving' \in [Capabilities -> Nat]
         /\ \A d \in Capabilities \ {c} : serving'[d] = serving[d] /\ leaving'[d] = leaving[d]
         /\ serving'[c] + leaving'[c] = 1
         /\ ~rootDone => serving'[c] = 1
<1> USE DEF LInv, TypeOK, Instances
<1>1. serving[c] = 0 /\ leaving[c] = 0
  OBVIOUS
<1>2. CASE rootDone
  BY <1>1, <1>2 DEF StartSucceeds, Plus
<1>3. CASE ~rootDone
  BY <1>1, <1>3 DEF StartSucceeds, Plus
<1>4. QED
  BY <1>2, <1>3

\* A start that failed leaves at most one hanging instance, and says so.
LEMMA StartFailsLemma ==
  ASSUME LInv, NEW c \in Capabilities, Instances(c) = 0,
         StartFails(c) \/ StartFailsHanging(c)
  PROVE  /\ active' = active /\ asked' = asked /\ claimed' \subseteq Capabilities
         /\ serving' = serving /\ leaving' \in [Capabilities -> Nat]
         /\ \A d \in Capabilities \ {c} : leaving'[d] = leaving[d]
         /\ serving'[c] + leaving'[c] <= 1 /\ degraded' \in BOOLEAN
         /\ degraded => degraded'
         /\ ~degraded' => leaving' = leaving
<1> USE DEF LInv, TypeOK, Instances
<1>1. serving[c] = 0 /\ leaving[c] = 0
  OBVIOUS
<1>2. CASE StartFails(c)
  BY <1>1, <1>2 DEF StartFails, collectors
<1>3. CASE StartFailsHanging(c)
  BY <1>1, <1>3 DEF StartFailsHanging, Plus
<1>4. QED
  BY <1>2, <1>3

\* Apply stops a capability.
LEMMA ApplyStopStep ==
  ASSUME LInv, NEW c \in Capabilities, ApplyStop(c)
  PROVE  LInv'
<1> USE DEF LInv
<1>1. op = "stop" /\ c \in todo /\ c \in active /\ ~degraded
      /\ c \in current.enabled /\ c \notin next.enabled
  BY DEF ApplyStop, IsFirst, PhaseInv
<1>10. CASE StopSucceeds(c) /\ Pass(c)
  <2>1. TypeOK'
    BY <1>10, <1>1, StopSucceedsLemma DEF ApplyStop, Pass, TypeOK, Policies,
       policy, remote, flags, collectors
  <2>2. OneInstance'
    BY <1>10, <1>1, StopSucceedsLemma DEF ApplyStop, Pass, OneInstance,
       Instances, TypeOK, collectors
  <2>3. StrayMeansDegraded'
    BY <1>10, <1>1, StopSucceedsLemma DEF ApplyStop, Pass, StrayMeansDegraded,
       OneInstance, Instances, TypeOK, flags, collectors
  <2>4. PhaseInv'
    BY <1>10, <1>1, StopSucceedsLemma DEF ApplyStop, Pass, PhaseInv, TypeOK,
       Policies, Instances, StrayMeansDegraded, policy, flags, collectors
  <2>5. LiveInv'
    BY <1>10, <1>1, StopSucceedsLemma DEF ApplyStop, Pass, LiveInv,
       OneInstance, Instances, TypeOK, flags, collectors
  <2>6. (asked # {} => degraded)'
    BY <1>10, <1>1, StopSucceedsLemma DEF ApplyStop, Pass, PhaseInv, flags,
       collectors
  <2>7. (gate # "idle" => gatePolicy \in Policies)'
    BY <1>10, <1>1, StopSucceedsLemma DEF ApplyStop, Pass, TypeOK, policy,
       remote
  <2>8. (HasStore /\ ~degraded => stored = current)'
    BY <1>10, <1>1, StopSucceedsLemma DEF ApplyStop, Pass, PhaseInv, policy,
       flags, collectors
  <2>9. (~HasStore => stored = NonePolicy)'
    BY <1>10, <1>1, StopSucceedsLemma DEF ApplyStop, Pass, PhaseInv, policy
  <2>10. QED
    BY <2>1, <2>2, <2>3, <2>4, <2>5, <2>6, <2>7, <2>8, <2>9
<1>11. CASE StopFails(c) /\ Fail
  <2>1. TypeOK'
    BY <1>11, <1>1, StopFailsLemma DEF ApplyStop, Fail, TypeOK, Policies,
       policy, remote, flags, collectors
  <2>2. OneInstance'
    BY <1>11, <1>1, StopFailsLemma DEF ApplyStop, Fail, OneInstance,
       Instances, TypeOK, collectors
  <2>3. StrayMeansDegraded'
    BY <1>11, <1>1, StopFailsLemma DEF ApplyStop, Fail, StrayMeansDegraded,
       OneInstance, Instances, TypeOK, flags, collectors
  <2>4. PhaseInv'
    <3>1. op' = "rstop" /\ current' = current
      BY <1>11, <1>1 DEF ApplyStop, Fail, policy
    <3>2. todo' \subseteq active' \ current'.enabled
      BY <1>11, <1>1, StopFailsLemma DEF ApplyStop, Fail, TypeOK, PhaseInv, policy
    <3>3. ~degraded' => active' \ todo' \subseteq current'.enabled
      BY <1>11, <1>1, StopFailsLemma DEF ApplyStop, Fail, TypeOK, PhaseInv, policy
    <3>4. ASSUME NEW d \in current'.enabled \ active'
          PROVE  serving'[d] + leaving'[d] = 0
      <4>1. d \in Capabilities /\ d \in current.enabled /\ d \notin active
        BY <1>11, <1>1, StopFailsLemma, <3>1 DEF TypeOK, Policies
      <4>2. d # c /\ serving[d] \in Nat /\ leaving[d] \in Nat
        BY <1>1, <4>1 DEF TypeOK
      <4>3. serving[d] + leaving[d] = 0
        BY <4>1, <4>2, <1>1 DEF PhaseInv, StrayMeansDegraded, Instances
      <4>4. QED
        BY <4>1, <4>2, <4>3, <1>11, <1>1, StopFailsLemma
    <3>5. QED
      BY <3>1, <3>2, <3>3, <3>4 DEF PhaseInv, Instances
  <2>5. LiveInv'
    BY <1>11, <1>1, StopFailsLemma DEF ApplyStop, Fail, LiveInv, OneInstance,
       Instances, TypeOK, flags, collectors
  <2>6. (asked # {} => degraded)'
    BY <1>11, <1>1, StopFailsLemma DEF ApplyStop, Fail, PhaseInv, flags,
       collectors
  <2>7. (gate # "idle" => gatePolicy \in Policies)'
    BY <1>11, <1>1, StopFailsLemma DEF ApplyStop, Fail, TypeOK, policy, remote
  <2>8. (HasStore /\ ~degraded => stored = current)'
    BY <1>11, <1>1, StopFailsLemma DEF ApplyStop, Fail, PhaseInv, policy,
       flags, collectors
  <2>9. (~HasStore => stored = NonePolicy)'
    BY <1>11, <1>1, StopFailsLemma DEF ApplyStop, Fail, PhaseInv, policy
  <2>10. QED
    BY <2>1, <2>2, <2>3, <2>4, <2>5, <2>6, <2>7, <2>8, <2>9
<1>99. QED
  BY <1>10, <1>11 DEF ApplyStop
\* Apply starts a capability.
LEMMA ApplyStartStep ==
  ASSUME LInv, NEW c \in Capabilities, ApplyStart(c)
  PROVE  LInv'
<1> USE DEF LInv
<1>1. op = "start" /\ c \in todo /\ c \notin active /\ ~degraded
      /\ c \in next.enabled /\ c \notin current.enabled /\ Instances(c) = 0
  BY DEF ApplyStart, IsFirst, PhaseInv, StrayMeansDegraded, TypeOK, Instances
<1>10. CASE StartSucceeds(c) /\ Pass(c)
  <2>1. TypeOK'
    BY <1>10, <1>1, StartSucceedsLemma DEF ApplyStart, Pass, TypeOK, Policies,
       policy, remote, flags, collectors
  <2>2. OneInstance'
    BY <1>10, <1>1, StartSucceedsLemma DEF ApplyStart, Pass, OneInstance,
       Instances, TypeOK, collectors
  <2>3. StrayMeansDegraded'
    BY <1>10, <1>1, StartSucceedsLemma DEF ApplyStart, Pass,
       StrayMeansDegraded, OneInstance, Instances, TypeOK, flags, collectors
  <2>4. PhaseInv'
    BY <1>10, <1>1, StartSucceedsLemma DEF ApplyStart, Pass, PhaseInv, TypeOK,
       Policies, Instances, StrayMeansDegraded, policy, flags, collectors
  <2>5. LiveInv'
    BY <1>10, <1>1, StartSucceedsLemma DEF ApplyStart, Pass, LiveInv,
       OneInstance, Instances, TypeOK, flags, collectors
  <2>6. (asked # {} => degraded)'
    BY <1>10, <1>1, StartSucceedsLemma DEF ApplyStart, Pass, PhaseInv, flags,
       collectors
  <2>7. (gate # "idle" => gatePolicy \in Policies)'
    BY <1>10, <1>1, StartSucceedsLemma DEF ApplyStart, Pass, TypeOK, policy,
       remote
  <2>8. (HasStore /\ ~degraded => stored = current)'
    BY <1>10, <1>1, StartSucceedsLemma DEF ApplyStart, Pass, PhaseInv, policy,
       flags, collectors
  <2>9. (~HasStore => stored = NonePolicy)'
    BY <1>10, <1>1, StartSucceedsLemma DEF ApplyStart, Pass, PhaseInv, policy
  <2>10. QED
    BY <2>1, <2>2, <2>3, <2>4, <2>5, <2>6, <2>7, <2>8, <2>9
<1>11. CASE (StartFails(c) \/ StartFailsHanging(c)) /\ Fail
  <2>1. TypeOK'
    BY <1>11, <1>1, StartFailsLemma DEF ApplyStart, Fail, TypeOK, Policies,
       policy, remote, flags, collectors
  <2>2. OneInstance'
    BY <1>11, <1>1, StartFailsLemma DEF ApplyStart, Fail, OneInstance,
       Instances, TypeOK, collectors
  <2>3. StrayMeansDegraded'
    BY <1>11, <1>1, StartFailsLemma DEF ApplyStart, Fail, StrayMeansDegraded,
       OneInstance, Instances, TypeOK, flags, collectors
  <2>4. PhaseInv'
    <3>1. op' = "rstop" /\ current' = current
      BY <1>11, <1>1 DEF ApplyStart, Fail, policy
    <3>2. todo' \subseteq active' \ current'.enabled
      BY <1>11, <1>1, StartFailsLemma DEF ApplyStart, Fail, TypeOK, PhaseInv, policy
    <3>3. ~degraded' => active' \ todo' \subseteq current'.enabled
      BY <1>11, <1>1, StartFailsLemma DEF ApplyStart, Fail, TypeOK, PhaseInv, policy
    <3>4. ASSUME NEW d \in current'.enabled \ active'
          PROVE  serving'[d] + leaving'[d] = 0
      <4>1. d \in Capabilities /\ d \in current.enabled /\ d \notin active
        BY <1>11, <1>1, StartFailsLemma, <3>1 DEF TypeOK, Policies
      <4>2. d # c /\ serving[d] \in Nat /\ leaving[d] \in Nat
        BY <1>1, <4>1 DEF TypeOK
      <4>3. serving[d] + leaving[d] = 0
        BY <4>1, <4>2, <1>1 DEF PhaseInv, StrayMeansDegraded, Instances
      <4>4. QED
        BY <4>1, <4>2, <4>3, <1>11, <1>1, StartFailsLemma
    <3>5. QED
      BY <3>1, <3>2, <3>3, <3>4 DEF PhaseInv, Instances
  <2>5. LiveInv'
    BY <1>11, <1>1, StartFailsLemma DEF ApplyStart, Fail, LiveInv,
       OneInstance, Instances, TypeOK, flags, collectors
  <2>6. (asked # {} => degraded)'
    BY <1>11, <1>1, StartFailsLemma DEF ApplyStart, Fail, PhaseInv, flags,
       collectors
  <2>7. (gate # "idle" => gatePolicy \in Policies)'
    BY <1>11, <1>1, StartFailsLemma DEF ApplyStart, Fail, TypeOK, policy,
       remote
  <2>8. (HasStore /\ ~degraded => stored = current)'
    BY <1>11, <1>1, StartFailsLemma DEF ApplyStart, Fail, PhaseInv, policy,
       flags, collectors
  <2>9. (~HasStore => stored = NonePolicy)'
    BY <1>11, <1>1, StartFailsLemma DEF ApplyStart, Fail, PhaseInv, policy
  <2>10. QED
    BY <2>1, <2>2, <2>3, <2>4, <2>5, <2>6, <2>7, <2>8, <2>9
<1>99. QED
  BY <1>10, <1>11 DEF ApplyStart
\* Rollback stops a capability.
LEMMA RestoreStopStep ==
  ASSUME LInv, NEW c \in Capabilities, RestoreStop(c)
  PROVE  LInv'
<1> USE DEF LInv
<1>1. op = "rstop" /\ c \in todo /\ c \in active /\ c \notin current.enabled
  BY DEF RestoreStop, IsFirst, PhaseInv
<1>10. CASE StopSucceeds(c) /\ UNCHANGED bad
  <2>1. TypeOK'
    BY <1>10, <1>1, StopSucceedsLemma DEF RestoreStop, TypeOK, Policies,
       policy, remote, flags, collectors
  <2>2. OneInstance'
    BY <1>10, <1>1, StopSucceedsLemma DEF RestoreStop, OneInstance, Instances,
       TypeOK, collectors
  <2>3. StrayMeansDegraded'
    BY <1>10, <1>1, StopSucceedsLemma DEF RestoreStop, StrayMeansDegraded,
       OneInstance, Instances, TypeOK, flags, collectors
  <2>4. PhaseInv'
    <3>1. op' = "rstop" /\ current' = current
      BY <1>10, <1>1 DEF RestoreStop, policy
    <3>2. todo' \subseteq active' \ current'.enabled
      BY <1>10, <1>1, StopSucceedsLemma DEF RestoreStop, TypeOK, PhaseInv, policy
    <3>3. ~degraded' => active' \ todo' \subseteq current'.enabled
      BY <1>10, <1>1, StopSucceedsLemma DEF RestoreStop, TypeOK, PhaseInv, policy
    <3>4. ASSUME NEW d \in current'.enabled \ active'
          PROVE  serving'[d] + leaving'[d] = 0
      <4>1. d \in Capabilities /\ d \in current.enabled /\ d \notin active
        BY <1>10, <1>1, StopSucceedsLemma, <3>1 DEF TypeOK, Policies
      <4>2. d # c /\ serving[d] \in Nat /\ leaving[d] \in Nat
        BY <1>1, <4>1 DEF TypeOK
      <4>3. serving[d] + leaving[d] = 0
        BY <4>1, <4>2, <1>1 DEF PhaseInv, StrayMeansDegraded, Instances
      <4>4. QED
        BY <4>1, <4>2, <4>3, <1>10, <1>1, StopSucceedsLemma
    <3>5. QED
      BY <3>1, <3>2, <3>3, <3>4 DEF PhaseInv, Instances
  <2>5. LiveInv'
    BY <1>10, <1>1, StopSucceedsLemma DEF RestoreStop, LiveInv, OneInstance,
       Instances, TypeOK, flags, collectors
  <2>6. (asked # {} => degraded)'
    BY <1>10, <1>1, StopSucceedsLemma DEF RestoreStop, PhaseInv, flags,
       collectors
  <2>7. (gate # "idle" => gatePolicy \in Policies)'
    BY <1>10, <1>1, StopSucceedsLemma DEF RestoreStop, TypeOK, policy, remote
  <2>8. (HasStore /\ ~degraded => stored = current)'
    BY <1>10, <1>1, StopSucceedsLemma DEF RestoreStop, PhaseInv, policy,
       flags, collectors
  <2>9. (~HasStore => stored = NonePolicy)'
    BY <1>10, <1>1, StopSucceedsLemma DEF RestoreStop, PhaseInv, policy
  <2>10. QED
    BY <2>1, <2>2, <2>3, <2>4, <2>5, <2>6, <2>7, <2>8, <2>9
<1>11. CASE StopFails(c) /\ bad' = TRUE
  <2>1. TypeOK'
    BY <1>11, <1>1, StopFailsLemma DEF RestoreStop, TypeOK, Policies, policy,
       remote, flags, collectors
  <2>2. OneInstance'
    BY <1>11, <1>1, StopFailsLemma DEF RestoreStop, OneInstance, Instances,
       TypeOK, collectors
  <2>3. StrayMeansDegraded'
    BY <1>11, <1>1, StopFailsLemma DEF RestoreStop, StrayMeansDegraded,
       OneInstance, Instances, TypeOK, flags, collectors
  <2>4. PhaseInv'
    <3>1. op' = "rstop" /\ current' = current
      BY <1>11, <1>1 DEF RestoreStop, policy
    <3>2. todo' \subseteq active' \ current'.enabled
      BY <1>11, <1>1, StopFailsLemma DEF RestoreStop, TypeOK, PhaseInv, policy
    <3>3. ~degraded' => active' \ todo' \subseteq current'.enabled
      BY <1>11, <1>1, StopFailsLemma DEF RestoreStop, TypeOK, PhaseInv, policy
    <3>4. ASSUME NEW d \in current'.enabled \ active'
          PROVE  serving'[d] + leaving'[d] = 0
      <4>1. d \in Capabilities /\ d \in current.enabled /\ d \notin active
        BY <1>11, <1>1, StopFailsLemma, <3>1 DEF TypeOK, Policies
      <4>2. d # c /\ serving[d] \in Nat /\ leaving[d] \in Nat
        BY <1>1, <4>1 DEF TypeOK
      <4>3. serving[d] + leaving[d] = 0
        BY <4>1, <4>2, <1>1 DEF PhaseInv, StrayMeansDegraded, Instances
      <4>4. QED
        BY <4>1, <4>2, <4>3, <1>11, <1>1, StopFailsLemma
    <3>5. QED
      BY <3>1, <3>2, <3>3, <3>4 DEF PhaseInv, Instances
  <2>5. LiveInv'
    BY <1>11, <1>1, StopFailsLemma DEF RestoreStop, LiveInv, OneInstance,
       Instances, TypeOK, flags, collectors
  <2>6. (asked # {} => degraded)'
    BY <1>11, <1>1, StopFailsLemma DEF RestoreStop, PhaseInv, flags,
       collectors
  <2>7. (gate # "idle" => gatePolicy \in Policies)'
    BY <1>11, <1>1, StopFailsLemma DEF RestoreStop, TypeOK, policy, remote
  <2>8. (HasStore /\ ~degraded => stored = current)'
    BY <1>11, <1>1, StopFailsLemma DEF RestoreStop, PhaseInv, policy, flags,
       collectors
  <2>9. (~HasStore => stored = NonePolicy)'
    BY <1>11, <1>1, StopFailsLemma DEF RestoreStop, PhaseInv, policy
  <2>10. QED
    BY <2>1, <2>2, <2>3, <2>4, <2>5, <2>6, <2>7, <2>8, <2>9
<1>99. QED
  BY <1>10, <1>11 DEF RestoreStop
\* Rollback starts a capability.
LEMMA RestoreStartStep ==
  ASSUME LInv, NEW c \in Capabilities, RestoreStart(c)
  PROVE  LInv'
<1> USE DEF LInv
<1>1. op = "rstart" /\ c \in todo /\ c \notin active /\ c \in current.enabled /\ Instances(c) = 0
  BY DEF RestoreStart, IsFirst, PhaseInv
<1>10. CASE StartSucceeds(c) /\ UNCHANGED bad
  <2>1. TypeOK'
    BY <1>10, <1>1, StartSucceedsLemma DEF RestoreStart, TypeOK, Policies,
       policy, remote, flags, collectors
  <2>2. OneInstance'
    BY <1>10, <1>1, StartSucceedsLemma DEF RestoreStart, OneInstance,
       Instances, TypeOK, collectors
  <2>3. StrayMeansDegraded'
    BY <1>10, <1>1, StartSucceedsLemma DEF RestoreStart, StrayMeansDegraded,
       OneInstance, Instances, TypeOK, flags, collectors
  <2>4. PhaseInv'
    BY <1>10, <1>1, StartSucceedsLemma DEF RestoreStart, PhaseInv, TypeOK,
       Policies, Instances, StrayMeansDegraded, policy, flags, collectors
  <2>5. LiveInv'
    BY <1>10, <1>1, StartSucceedsLemma DEF RestoreStart, LiveInv, OneInstance,
       Instances, TypeOK, flags, collectors
  <2>6. (asked # {} => degraded)'
    BY <1>10, <1>1, StartSucceedsLemma DEF RestoreStart, PhaseInv, flags,
       collectors
  <2>7. (gate # "idle" => gatePolicy \in Policies)'
    BY <1>10, <1>1, StartSucceedsLemma DEF RestoreStart, TypeOK, policy,
       remote
  <2>8. (HasStore /\ ~degraded => stored = current)'
    BY <1>10, <1>1, StartSucceedsLemma DEF RestoreStart, PhaseInv, policy,
       flags, collectors
  <2>9. (~HasStore => stored = NonePolicy)'
    BY <1>10, <1>1, StartSucceedsLemma DEF RestoreStart, PhaseInv, policy
  <2>10. QED
    BY <2>1, <2>2, <2>3, <2>4, <2>5, <2>6, <2>7, <2>8, <2>9
<1>11. CASE (StartFails(c) \/ StartFailsHanging(c)) /\ bad' = TRUE
  <2>1. TypeOK'
    BY <1>11, <1>1, StartFailsLemma DEF RestoreStart, TypeOK, Policies,
       policy, remote, flags, collectors
  <2>2. OneInstance'
    BY <1>11, <1>1, StartFailsLemma DEF RestoreStart, OneInstance, Instances,
       TypeOK, collectors
  <2>3. StrayMeansDegraded'
    BY <1>11, <1>1, StartFailsLemma DEF RestoreStart, StrayMeansDegraded,
       OneInstance, Instances, TypeOK, flags, collectors
  <2>4. PhaseInv'
    BY <1>11, <1>1, StartFailsLemma DEF RestoreStart, PhaseInv, TypeOK,
       Policies, Instances, StrayMeansDegraded, policy, flags, collectors
  <2>5. LiveInv'
    BY <1>11, <1>1, StartFailsLemma DEF RestoreStart, LiveInv, OneInstance,
       Instances, TypeOK, flags, collectors
  <2>6. (asked # {} => degraded)'
    BY <1>11, <1>1, StartFailsLemma DEF RestoreStart, PhaseInv, flags,
       collectors
  <2>7. (gate # "idle" => gatePolicy \in Policies)'
    BY <1>11, <1>1, StartFailsLemma DEF RestoreStart, TypeOK, policy, remote
  <2>8. (HasStore /\ ~degraded => stored = current)'
    BY <1>11, <1>1, StartFailsLemma DEF RestoreStart, PhaseInv, policy, flags,
       collectors
  <2>9. (~HasStore => stored = NonePolicy)'
    BY <1>11, <1>1, StartFailsLemma DEF RestoreStart, PhaseInv, policy
  <2>10. QED
    BY <2>1, <2>2, <2>3, <2>4, <2>5, <2>6, <2>7, <2>8, <2>9
<1>99. QED
  BY <1>10, <1>11 DEF RestoreStart
\* Close stops a capability.
LEMMA CloseStopStep ==
  ASSUME LInv, NEW c \in Capabilities, CloseStop(c)
  PROVE  LInv'
<1> USE DEF LInv
<1>1. op = "close" /\ closed /\ c \in active /\ c \in todo
  BY DEF CloseStop, IsFirst, PhaseInv
<1>10. CASE StopSucceeds(c)
  <2>1. TypeOK'
    BY <1>10, <1>1, StopSucceedsLemma DEF CloseStop, Pass, TypeOK, Policies,
       policy, remote, flags, collectors
  <2>2. OneInstance'
    BY <1>10, <1>1, StopSucceedsLemma DEF CloseStop, Pass, OneInstance,
       Instances, TypeOK, collectors
  <2>3. StrayMeansDegraded'
    BY <1>10, <1>1, StopSucceedsLemma DEF CloseStop, Pass, StrayMeansDegraded,
       OneInstance, Instances, TypeOK, flags, collectors
  <2>4. PhaseInv'
    BY <1>10, <1>1, StopSucceedsLemma DEF CloseStop, Pass, PhaseInv, TypeOK,
       Policies, Instances, StrayMeansDegraded, policy, flags, collectors
  <2>5. LiveInv'
    BY <1>10, <1>1, StopSucceedsLemma DEF CloseStop, Pass, LiveInv,
       OneInstance, Instances, TypeOK, flags, collectors
  <2>6. (asked # {} => degraded)'
    BY <1>10, <1>1, StopSucceedsLemma DEF CloseStop, Pass, PhaseInv, flags,
       collectors
  <2>7. (gate # "idle" => gatePolicy \in Policies)'
    BY <1>10, <1>1, StopSucceedsLemma DEF CloseStop, Pass, TypeOK, policy,
       remote
  <2>8. (HasStore /\ ~degraded => stored = current)'
    BY <1>10, <1>1, StopSucceedsLemma DEF CloseStop, Pass, PhaseInv, policy,
       flags, collectors
  <2>9. (~HasStore => stored = NonePolicy)'
    BY <1>10, <1>1, StopSucceedsLemma DEF CloseStop, Pass, PhaseInv, policy
  <2>10. QED
    BY <2>1, <2>2, <2>3, <2>4, <2>5, <2>6, <2>7, <2>8, <2>9
<1>11. CASE StopFails(c)
  <2>1. TypeOK'
    BY <1>11, <1>1, StopFailsLemma DEF CloseStop, Pass, TypeOK, Policies,
       policy, remote, flags, collectors
  <2>2. OneInstance'
    BY <1>11, <1>1, StopFailsLemma DEF CloseStop, Pass, OneInstance,
       Instances, TypeOK, collectors
  <2>3. StrayMeansDegraded'
    BY <1>11, <1>1, StopFailsLemma DEF CloseStop, Pass, StrayMeansDegraded,
       OneInstance, Instances, TypeOK, flags, collectors
  <2>4. PhaseInv'
    BY <1>11, <1>1, StopFailsLemma DEF CloseStop, Pass, PhaseInv, TypeOK,
       Policies, Instances, StrayMeansDegraded, policy, flags, collectors
  <2>5. LiveInv'
    BY <1>11, <1>1, StopFailsLemma DEF CloseStop, Pass, LiveInv, OneInstance,
       Instances, TypeOK, flags, collectors
  <2>6. (asked # {} => degraded)'
    BY <1>11, <1>1, StopFailsLemma DEF CloseStop, Pass, PhaseInv, flags,
       collectors
  <2>7. (gate # "idle" => gatePolicy \in Policies)'
    BY <1>11, <1>1, StopFailsLemma DEF CloseStop, Pass, TypeOK, policy, remote
  <2>8. (HasStore /\ ~degraded => stored = current)'
    BY <1>11, <1>1, StopFailsLemma DEF CloseStop, Pass, PhaseInv, policy,
       flags, collectors
  <2>9. (~HasStore => stored = NonePolicy)'
    BY <1>11, <1>1, StopFailsLemma DEF CloseStop, Pass, PhaseInv, policy
  <2>10. QED
    BY <2>1, <2>2, <2>3, <2>4, <2>5, <2>6, <2>7, <2>8, <2>9
<1>99. QED
  BY <1>10, <1>11 DEF CloseStop
\* A call to Apply passes its early returns, local or from the gate.
LEMMA ApplyBeginStep ==
  ASSUME LInv, NEW p \in Policies, ApplyBegin(p),
         UNCHANGED remote \/ (gate' = "applying" /\ gatePolicy' = gatePolicy /\ gate = "waiting")
  PROVE  LInv'
<1> USE DEF LInv
<1>1. TypeOK'
  BY DEF ApplyBegin, ApplyAllowed, Loop, TypeOK, Policies, policy, remote,
     flags, collectors
<1>2. OneInstance'
  BY DEF ApplyBegin, ApplyAllowed, Loop, OneInstance, Instances, TypeOK,
     collectors
<1>3. StrayMeansDegraded'
  BY DEF ApplyBegin, ApplyAllowed, Loop, StrayMeansDegraded, OneInstance,
     Instances, TypeOK, flags, collectors
<1>4. PhaseInv'
  BY DEF ApplyBegin, ApplyAllowed, Loop, PhaseInv, TypeOK, Policies,
     Instances, StrayMeansDegraded, policy, flags, collectors
<1>5. LiveInv'
  BY DEF ApplyBegin, ApplyAllowed, Loop, LiveInv, OneInstance, Instances,
     TypeOK, flags, collectors
<1>6. (asked # {} => degraded)'
  BY DEF ApplyBegin, ApplyAllowed, Loop, PhaseInv, flags, collectors
<1>7. (gate # "idle" => gatePolicy \in Policies)'
  BY DEF ApplyBegin, ApplyAllowed, Loop, TypeOK, policy, remote
<1>8. (HasStore /\ ~degraded => stored = current)'
  BY DEF ApplyBegin, ApplyAllowed, Loop, PhaseInv, policy, flags, collectors
<1>9. (~HasStore => stored = NonePolicy)'
  BY DEF ApplyBegin, ApplyAllowed, Loop, PhaseInv, policy
<1>10. QED
  BY <1>1, <1>2, <1>3, <1>4, <1>5, <1>6, <1>7, <1>8, <1>9
\* Every removed capability is stopped.
LEMMA ApplyStoppedStep ==
  ASSUME LInv, ApplyStopped
  PROVE  LInv'
<1> USE DEF LInv
<1>1. TypeOK'
  BY DEF ApplyStopped, Loop, TypeOK, Policies, policy, remote, flags,
     collectors
<1>2. OneInstance'
  BY DEF ApplyStopped, Loop, OneInstance, Instances, TypeOK, collectors
<1>3. StrayMeansDegraded'
  BY DEF ApplyStopped, Loop, StrayMeansDegraded, OneInstance, Instances,
     TypeOK, flags, collectors
<1>4. PhaseInv'
  BY DEF ApplyStopped, Loop, PhaseInv, TypeOK, Policies, Instances,
     StrayMeansDegraded, policy, flags, collectors
<1>5. LiveInv'
  BY DEF ApplyStopped, Loop, LiveInv, OneInstance, Instances, TypeOK, flags,
     collectors
<1>6. (asked # {} => degraded)'
  BY DEF ApplyStopped, Loop, PhaseInv, flags, collectors
<1>7. (gate # "idle" => gatePolicy \in Policies)'
  BY DEF ApplyStopped, Loop, TypeOK, policy, remote
<1>8. (HasStore /\ ~degraded => stored = current)'
  BY DEF ApplyStopped, Loop, PhaseInv, policy, flags, collectors
<1>9. (~HasStore => stored = NonePolicy)'
  BY DEF ApplyStopped, Loop, PhaseInv, policy
<1>10. QED
  BY <1>1, <1>2, <1>3, <1>4, <1>5, <1>6, <1>7, <1>8, <1>9
\* Every new capability is started.
LEMMA ApplyStartedStep ==
  ASSUME LInv, ApplyStarted
  PROVE  LInv'
<1> USE DEF LInv
<1>1. TypeOK'
  BY DEF ApplyStarted, Loop, TypeOK, Policies, policy, remote, flags,
     collectors
<1>2. OneInstance'
  BY DEF ApplyStarted, Loop, OneInstance, Instances, TypeOK, collectors
<1>3. StrayMeansDegraded'
  BY DEF ApplyStarted, Loop, StrayMeansDegraded, OneInstance, Instances,
     TypeOK, flags, collectors
<1>4. PhaseInv'
  BY DEF ApplyStarted, Loop, PhaseInv, TypeOK, Policies, Instances,
     StrayMeansDegraded, policy, flags, collectors
<1>5. LiveInv'
  BY DEF ApplyStarted, Loop, LiveInv, OneInstance, Instances, TypeOK, flags,
     collectors
<1>6. (asked # {} => degraded)'
  BY DEF ApplyStarted, Loop, PhaseInv, flags, collectors
<1>7. (gate # "idle" => gatePolicy \in Policies)'
  BY DEF ApplyStarted, Loop, TypeOK, policy, remote
<1>8. (HasStore /\ ~degraded => stored = current)'
  BY DEF ApplyStarted, Loop, PhaseInv, policy, flags, collectors
<1>9. (~HasStore => stored = NonePolicy)'
  BY DEF ApplyStarted, Loop, PhaseInv, policy
<1>10. QED
  BY <1>1, <1>2, <1>3, <1>4, <1>5, <1>6, <1>7, <1>8, <1>9
\* The policy is saved and in force.
LEMMA ApplyCommitsStep ==
  ASSUME LInv, ApplyCommits
  PROVE  LInv'
<1> USE DEF LInv
<1>1. TypeOK'
  BY DEF ApplyCommits, Return, Loop, TypeOK, Policies, policy, remote, flags,
     collectors
<1>2. OneInstance'
  BY DEF ApplyCommits, Return, Loop, OneInstance, Instances, TypeOK,
     collectors
<1>3. StrayMeansDegraded'
  BY DEF ApplyCommits, Return, Loop, StrayMeansDegraded, OneInstance,
     Instances, TypeOK, flags, collectors
<1>4. PhaseInv'
  BY DEF ApplyCommits, Return, Loop, PhaseInv, TypeOK, Policies, Instances,
     StrayMeansDegraded, policy, flags, collectors
<1>5. LiveInv'
  BY DEF ApplyCommits, Return, Loop, LiveInv, OneInstance, Instances, TypeOK,
     flags, collectors
<1>6. (asked # {} => degraded)'
  BY DEF ApplyCommits, Return, Loop, PhaseInv, flags, collectors
<1>7. (gate # "idle" => gatePolicy \in Policies)'
  BY DEF ApplyCommits, Return, Loop, TypeOK, policy, remote
<1>8. (HasStore /\ ~degraded => stored = current)'
  BY DEF ApplyCommits, Return, Loop, PhaseInv, policy, flags, collectors
<1>9. (~HasStore => stored = NonePolicy)'
  BY DEF ApplyCommits, Return, Loop, PhaseInv, policy
<1>10. QED
  BY <1>1, <1>2, <1>3, <1>4, <1>5, <1>6, <1>7, <1>8, <1>9
\* Rollback has stopped what it had to.
LEMMA RestoreStoppedStep ==
  ASSUME LInv, RestoreStopped
  PROVE  LInv'
<1> USE DEF LInv
<1>1. TypeOK'
  BY DEF RestoreStopped, Loop, TypeOK, Policies, policy, remote, flags,
     collectors
<1>2. OneInstance'
  BY DEF RestoreStopped, Loop, OneInstance, Instances, TypeOK, collectors
<1>3. StrayMeansDegraded'
  BY DEF RestoreStopped, Loop, StrayMeansDegraded, OneInstance, Instances,
     TypeOK, flags, collectors
<1>4. PhaseInv'
  BY DEF RestoreStopped, Loop, PhaseInv, TypeOK, Policies, Instances,
     StrayMeansDegraded, policy, flags, collectors
<1>5. LiveInv'
  BY DEF RestoreStopped, Loop, LiveInv, OneInstance, Instances, TypeOK, flags,
     collectors
<1>6. (asked # {} => degraded)'
  BY DEF RestoreStopped, Loop, PhaseInv, flags, collectors
<1>7. (gate # "idle" => gatePolicy \in Policies)'
  BY DEF RestoreStopped, Loop, TypeOK, policy, remote
<1>8. (HasStore /\ ~degraded => stored = current)'
  BY DEF RestoreStopped, Loop, PhaseInv, policy, flags, collectors
<1>9. (~HasStore => stored = NonePolicy)'
  BY DEF RestoreStopped, Loop, PhaseInv, policy
<1>10. QED
  BY <1>1, <1>2, <1>3, <1>4, <1>5, <1>6, <1>7, <1>8, <1>9
\* Rollback ends.
LEMMA RestoreReturnStep ==
  ASSUME LInv, RestoreReturn
  PROVE  LInv'
<1> USE DEF LInv
<1>1. TypeOK'
  BY DEF RestoreReturn, Return, Loop, TypeOK, Policies, policy, remote, flags,
     collectors
<1>2. OneInstance'
  BY DEF RestoreReturn, Return, Loop, OneInstance, Instances, TypeOK,
     collectors
<1>3. StrayMeansDegraded'
  BY DEF RestoreReturn, Return, Loop, StrayMeansDegraded, OneInstance,
     Instances, TypeOK, flags, collectors
<1>4. PhaseInv'
  BY DEF RestoreReturn, Return, Loop, PhaseInv, TypeOK, Policies, Instances,
     StrayMeansDegraded, policy, flags, collectors
<1>5. LiveInv'
  BY DEF RestoreReturn, Return, Loop, LiveInv, OneInstance, Instances, TypeOK,
     flags, collectors
<1>6. (asked # {} => degraded)'
  BY DEF RestoreReturn, Return, Loop, PhaseInv, flags, collectors
<1>7. (gate # "idle" => gatePolicy \in Policies)'
  BY DEF RestoreReturn, Return, Loop, TypeOK, policy, remote
<1>8. (HasStore /\ ~degraded => stored = current)'
  BY DEF RestoreReturn, Return, Loop, PhaseInv, policy, flags, collectors
<1>9. (~HasStore => stored = NonePolicy)'
  BY DEF RestoreReturn, Return, Loop, PhaseInv, policy
<1>10. QED
  BY <1>1, <1>2, <1>3, <1>4, <1>5, <1>6, <1>7, <1>8, <1>9
\* Close begins.
LEMMA CloseBeginStep ==
  ASSUME LInv, CloseBegin
  PROVE  LInv'
<1> USE DEF LInv
<1>1. TypeOK'
  BY DEF CloseBegin, Loop, TypeOK, Policies, policy, remote, flags, collectors
<1>2. OneInstance'
  BY DEF CloseBegin, Loop, OneInstance, Instances, TypeOK, collectors
<1>3. StrayMeansDegraded'
  BY DEF CloseBegin, Loop, StrayMeansDegraded, OneInstance, Instances, TypeOK,
     flags, collectors
<1>4. PhaseInv'
  BY DEF CloseBegin, Loop, PhaseInv, TypeOK, Policies, Instances,
     StrayMeansDegraded, policy, flags, collectors
<1>5. LiveInv'
  BY DEF CloseBegin, Loop, LiveInv, OneInstance, Instances, TypeOK, flags,
     collectors
<1>6. (asked # {} => degraded)'
  BY DEF CloseBegin, Loop, PhaseInv, flags, collectors
<1>7. (gate # "idle" => gatePolicy \in Policies)'
  BY DEF CloseBegin, Loop, TypeOK, policy, remote
<1>8. (HasStore /\ ~degraded => stored = current)'
  BY DEF CloseBegin, Loop, PhaseInv, policy, flags, collectors
<1>9. (~HasStore => stored = NonePolicy)'
  BY DEF CloseBegin, Loop, PhaseInv, policy
<1>10. QED
  BY <1>1, <1>2, <1>3, <1>4, <1>5, <1>6, <1>7, <1>8, <1>9
\* Close ends.
LEMMA CloseReturnStep ==
  ASSUME LInv, CloseReturn
  PROVE  LInv'
<1> USE DEF LInv
<1>1. TypeOK'
  BY DEF CloseReturn, Loop, TypeOK, Policies, policy, remote, flags,
     collectors
<1>2. OneInstance'
  BY DEF CloseReturn, Loop, OneInstance, Instances, TypeOK, collectors
<1>3. StrayMeansDegraded'
  BY DEF CloseReturn, Loop, StrayMeansDegraded, OneInstance, Instances,
     TypeOK, flags, collectors
<1>4. PhaseInv'
  BY DEF CloseReturn, Loop, PhaseInv, TypeOK, Policies, Instances,
     StrayMeansDegraded, policy, flags, collectors
<1>5. LiveInv'
  BY DEF CloseReturn, Loop, LiveInv, OneInstance, Instances, TypeOK, flags,
     collectors
<1>6. (asked # {} => degraded)'
  BY DEF CloseReturn, Loop, PhaseInv, flags, collectors
<1>7. (gate # "idle" => gatePolicy \in Policies)'
  BY DEF CloseReturn, Loop, TypeOK, policy, remote
<1>8. (HasStore /\ ~degraded => stored = current)'
  BY DEF CloseReturn, Loop, PhaseInv, policy, flags, collectors
<1>9. (~HasStore => stored = NonePolicy)'
  BY DEF CloseReturn, Loop, PhaseInv, policy
<1>10. QED
  BY <1>1, <1>2, <1>3, <1>4, <1>5, <1>6, <1>7, <1>8, <1>9
\* The gate accepts an envelope and waits for m.mu.
LEMMA GateAcceptStep ==
  ASSUME LInv, NEW p \in Policies, GateAccept(p)
  PROVE  LInv'
<1> USE DEF LInv
<1>1. TypeOK'
  BY DEF GateAccept, running, TypeOK, Policies, policy, remote, flags,
     collectors
<1>2. OneInstance'
  BY DEF GateAccept, running, OneInstance, Instances, TypeOK, collectors
<1>3. StrayMeansDegraded'
  BY DEF GateAccept, running, StrayMeansDegraded, OneInstance, Instances,
     TypeOK, flags, collectors
<1>4. PhaseInv'
  BY DEF GateAccept, running, PhaseInv, TypeOK, Policies, Instances,
     StrayMeansDegraded, policy, flags, collectors
<1>5. LiveInv'
  BY DEF GateAccept, running, LiveInv, OneInstance, Instances, TypeOK, flags,
     collectors
<1>6. (asked # {} => degraded)'
  BY DEF GateAccept, running, PhaseInv, flags, collectors
<1>7. (gate # "idle" => gatePolicy \in Policies)'
  BY DEF GateAccept, running, TypeOK, policy, remote
<1>8. (HasStore /\ ~degraded => stored = current)'
  BY DEF GateAccept, running, PhaseInv, policy, flags, collectors
<1>9. (~HasStore => stored = NonePolicy)'
  BY DEF GateAccept, running, PhaseInv, policy
<1>10. QED
  BY <1>1, <1>2, <1>3, <1>4, <1>5, <1>6, <1>7, <1>8, <1>9
\* Apply refuses the policy of the gate.
LEMMA GateRefusedStep ==
  ASSUME LInv, GateRefused
  PROVE  LInv'
<1> USE DEF LInv
<1>1. TypeOK'
  BY DEF GateRefused, running, TypeOK, Policies, policy, remote, flags,
     collectors
<1>2. OneInstance'
  BY DEF GateRefused, running, OneInstance, Instances, TypeOK, collectors
<1>3. StrayMeansDegraded'
  BY DEF GateRefused, running, StrayMeansDegraded, OneInstance, Instances,
     TypeOK, flags, collectors
<1>4. PhaseInv'
  BY DEF GateRefused, running, PhaseInv, TypeOK, Policies, Instances,
     StrayMeansDegraded, policy, flags, collectors
<1>5. LiveInv'
  BY DEF GateRefused, running, LiveInv, OneInstance, Instances, TypeOK, flags,
     collectors
<1>6. (asked # {} => degraded)'
  BY DEF GateRefused, running, PhaseInv, flags, collectors
<1>7. (gate # "idle" => gatePolicy \in Policies)'
  BY DEF GateRefused, running, TypeOK, policy, remote
<1>8. (HasStore /\ ~degraded => stored = current)'
  BY DEF GateRefused, running, PhaseInv, policy, flags, collectors
<1>9. (~HasStore => stored = NonePolicy)'
  BY DEF GateRefused, running, PhaseInv, policy
<1>10. QED
  BY <1>1, <1>2, <1>3, <1>4, <1>5, <1>6, <1>7, <1>8, <1>9
\* The root context is cancelled.
LEMMA RootCancelledStep ==
  ASSUME LInv, RootCancelled
  PROVE  LInv'
<1> USE DEF LInv
<1>0. \A c \in Capabilities : serving'[c] + leaving'[c] = serving[c] + leaving[c]
  BY DEF RootCancelled, TypeOK
<1>1. TypeOK'
  BY <1>0 DEF RootCancelled, running, TypeOK, Policies, policy, remote, flags,
     collectors
<1>2. OneInstance'
  BY <1>0 DEF RootCancelled, running, OneInstance, Instances, TypeOK,
     collectors
<1>3. StrayMeansDegraded'
  BY <1>0 DEF RootCancelled, running, StrayMeansDegraded, OneInstance,
     Instances, TypeOK, flags, collectors
<1>4. PhaseInv'
  BY <1>0 DEF RootCancelled, running, PhaseInv, TypeOK, Policies, Instances,
     StrayMeansDegraded, policy, flags, collectors
<1>5. LiveInv'
  BY <1>0 DEF RootCancelled, running, LiveInv, OneInstance, Instances, TypeOK,
     flags, collectors
<1>6. (asked # {} => degraded)'
  BY <1>0 DEF RootCancelled, running, PhaseInv, flags, collectors
<1>7. (gate # "idle" => gatePolicy \in Policies)'
  BY <1>0 DEF RootCancelled, running, TypeOK, policy, remote
<1>8. (HasStore /\ ~degraded => stored = current)'
  BY <1>0 DEF RootCancelled, running, PhaseInv, policy, flags, collectors
<1>9. (~HasStore => stored = NonePolicy)'
  BY <1>0 DEF RootCancelled, running, PhaseInv, policy
<1>10. QED
  BY <1>1, <1>2, <1>3, <1>4, <1>5, <1>6, <1>7, <1>8, <1>9
\* Workers of a cancelled instance end.
LEMMA WorkersExitStep ==
  ASSUME LInv, NEW c \in Capabilities, WorkersExit(c)
  PROVE  LInv'
<1> USE DEF LInv
<1>1. TypeOK'
  BY DEF WorkersExit, Minus, running, TypeOK, Policies, policy, remote, flags,
     collectors
<1>2. OneInstance'
  BY DEF WorkersExit, Minus, running, OneInstance, Instances, TypeOK,
     collectors
<1>3. StrayMeansDegraded'
  BY DEF WorkersExit, Minus, running, StrayMeansDegraded, OneInstance,
     Instances, TypeOK, flags, collectors
<1>4. PhaseInv'
  BY DEF WorkersExit, Minus, running, PhaseInv, TypeOK, Policies, Instances,
     StrayMeansDegraded, policy, flags, collectors
<1>5. LiveInv'
  BY DEF WorkersExit, Minus, running, LiveInv, OneInstance, Instances, TypeOK,
     flags, collectors
<1>6. (asked # {} => degraded)'
  BY DEF WorkersExit, Minus, running, PhaseInv, flags, collectors
<1>7. (gate # "idle" => gatePolicy \in Policies)'
  BY DEF WorkersExit, Minus, running, TypeOK, policy, remote
<1>8. (HasStore /\ ~degraded => stored = current)'
  BY DEF WorkersExit, Minus, running, PhaseInv, policy, flags, collectors
<1>9. (~HasStore => stored = NonePolicy)'
  BY DEF WorkersExit, Minus, running, PhaseInv, policy
<1>10. QED
  BY <1>1, <1>2, <1>3, <1>4, <1>5, <1>6, <1>7, <1>8, <1>9
\* Nothing changes.
LEMMA StutterStep ==
  ASSUME LInv, UNCHANGED vars
  PROVE  LInv'
<1> USE DEF LInv
<1>1. TypeOK'
  BY DEF vars, running, TypeOK, Policies, policy, remote, flags, collectors
<1>2. OneInstance'
  BY DEF vars, running, OneInstance, Instances, TypeOK, collectors
<1>3. StrayMeansDegraded'
  BY DEF vars, running, StrayMeansDegraded, OneInstance, Instances, TypeOK,
     flags, collectors
<1>4. PhaseInv'
  BY DEF vars, running, PhaseInv, TypeOK, Policies, Instances,
     StrayMeansDegraded, policy, flags, collectors
<1>5. LiveInv'
  BY DEF vars, running, LiveInv, OneInstance, Instances, TypeOK, flags,
     collectors
<1>6. (asked # {} => degraded)'
  BY DEF vars, running, PhaseInv, flags, collectors
<1>7. (gate # "idle" => gatePolicy \in Policies)'
  BY DEF vars, running, TypeOK, policy, remote
<1>8. (HasStore /\ ~degraded => stored = current)'
  BY DEF vars, running, PhaseInv, policy, flags, collectors
<1>9. (~HasStore => stored = NonePolicy)'
  BY DEF vars, running, PhaseInv, policy
<1>10. QED
  BY <1>1, <1>2, <1>3, <1>4, <1>5, <1>6, <1>7, <1>8, <1>9
\* The caller gave up: rollback begins.
LEMMA ApplyCancelledStep ==
  ASSUME LInv, ApplyCancelled
  PROVE  LInv'
<1> USE DEF LInv
<1>1. TypeOK'
  BY DEF ApplyCancelled, Fail, TypeOK, Policies, policy, remote, flags,
     collectors
<1>2. OneInstance'
  BY DEF ApplyCancelled, Fail, OneInstance, Instances, TypeOK, collectors
<1>3. StrayMeansDegraded'
  BY DEF ApplyCancelled, Fail, StrayMeansDegraded, OneInstance, Instances,
     TypeOK, flags, collectors
<1>4. PhaseInv'
  <2>1. op' = "rstop" /\ current' = current
    BY DEF ApplyCancelled, Fail, policy
  <2>2. todo' \subseteq active' \ current'.enabled
    BY DEF ApplyCancelled, Fail, collectors, policy
  <2>3. ~degraded' => active' \ todo' \subseteq current'.enabled
    BY DEF ApplyCancelled, Fail, collectors, policy
  <2>4. ASSUME NEW d \in current'.enabled \ active'
        PROVE  serving'[d] + leaving'[d] = 0
    BY <2>1 DEF ApplyCancelled, Fail, TypeOK, PhaseInv, StrayMeansDegraded,
       Instances, collectors, policy, Policies
  <2>5. QED
    BY <2>1, <2>2, <2>3, <2>4 DEF PhaseInv, Instances
<1>5. LiveInv'
  BY DEF ApplyCancelled, Fail, LiveInv, OneInstance, Instances, TypeOK, flags,
     collectors
<1>6. (asked # {} => degraded)'
  BY DEF ApplyCancelled, Fail, PhaseInv, flags, collectors
<1>7. (gate # "idle" => gatePolicy \in Policies)'
  BY DEF ApplyCancelled, Fail, TypeOK, policy, remote
<1>8. (HasStore /\ ~degraded => stored = current)'
  BY DEF ApplyCancelled, Fail, PhaseInv, policy, flags, collectors
<1>9. (~HasStore => stored = NonePolicy)'
  BY DEF ApplyCancelled, Fail, PhaseInv, policy
<1>10. QED
  BY <1>1, <1>2, <1>3, <1>4, <1>5, <1>6, <1>7, <1>8, <1>9
\* The store failed: rollback begins, degraded.
LEMMA SaveFailsStep ==
  ASSUME LInv, SaveFails
  PROVE  LInv'
<1> USE DEF LInv
<1>1. TypeOK'
  BY DEF SaveFails, Fail, TypeOK, Policies, policy, remote, flags, collectors
<1>2. OneInstance'
  BY DEF SaveFails, Fail, OneInstance, Instances, TypeOK, collectors
<1>3. StrayMeansDegraded'
  BY DEF SaveFails, Fail, StrayMeansDegraded, OneInstance, Instances, TypeOK,
     flags, collectors
<1>4. PhaseInv'
  <2>1. op' = "rstop" /\ current' = current
    BY DEF SaveFails, Fail, policy
  <2>2. todo' \subseteq active' \ current'.enabled
    BY DEF SaveFails, Fail, collectors, policy
  <2>3. ~degraded' => active' \ todo' \subseteq current'.enabled
    BY DEF SaveFails, Fail, collectors, policy
  <2>4. ASSUME NEW d \in current'.enabled \ active'
        PROVE  serving'[d] + leaving'[d] = 0
    BY <2>1 DEF SaveFails, Fail, TypeOK, PhaseInv, StrayMeansDegraded,
       Instances, collectors, policy, Policies
  <2>5. QED
    BY <2>1, <2>2, <2>3, <2>4 DEF PhaseInv, Instances
<1>5. LiveInv'
  BY DEF SaveFails, Fail, LiveInv, OneInstance, Instances, TypeOK, flags,
     collectors
<1>6. (asked # {} => degraded)'
  BY DEF SaveFails, Fail, PhaseInv, flags, collectors
<1>7. (gate # "idle" => gatePolicy \in Policies)'
  BY DEF SaveFails, Fail, TypeOK, policy, remote
<1>8. (HasStore /\ ~degraded => stored = current)'
  BY DEF SaveFails, Fail, PhaseInv, policy, flags, collectors
<1>9. (~HasStore => stored = NonePolicy)'
  BY DEF SaveFails, Fail, PhaseInv, policy
<1>10. QED
  BY <1>1, <1>2, <1>3, <1>4, <1>5, <1>6, <1>7, <1>8, <1>9
-----------------------------------------------------------------------------
\* LInv holds initially.
LEMMA InitInv == Init => LInv
<1> SUFFICES ASSUME Init PROVE LInv
  OBVIOUS
<1>1. NonePolicy \in Policies
  BY LifecycleAssumption DEF NonePolicy, Policies
<1>2. TypeOK
  BY <1>1 DEF Init, TypeOK
<1>3. QED
  BY <1>1, <1>2 DEF Init, LInv, OneInstance, StrayMeansDegraded, PhaseInv, LiveInv,
     Instances, NonePolicy

\* Every step preserves LInv.
LEMMA NextInv == LInv /\ [Next]_vars => LInv'
<1> SUFFICES ASSUME LInv, [Next]_vars PROVE LInv'
  OBVIOUS
<1>1. CASE \E p \in Policies : LocalApply(p)
  BY <1>1, ApplyBeginStep DEF LocalApply
<1>2. CASE Apply
  BY <1>2, ApplyStopStep, ApplyStartStep, ApplyStoppedStep, ApplyStartedStep,
     ApplyCancelledStep,
     ApplyCommitsStep, SaveFailsStep DEF Apply
<1>3. CASE Restore
  BY <1>3, RestoreStopStep, RestoreStartStep, RestoreStoppedStep, RestoreReturnStep DEF Restore
<1>4. CASE Close
  BY <1>4, CloseBeginStep, CloseStopStep, CloseReturnStep DEF Close
<1>5. CASE GateApply
  <2>1. gatePolicy \in Policies
    BY <1>5 DEF GateApply, LInv
  <2>2. QED
    BY <1>5, <2>1, ApplyBeginStep DEF GateApply
<1>6. CASE Gate
  BY <1>5, <1>6, GateAcceptStep, GateRefusedStep DEF Gate
<1>7. CASE RootCancelled \/ \E c \in Capabilities : WorkersExit(c)
  BY <1>7, RootCancelledStep, WorkersExitStep
<1>8. CASE UNCHANGED vars
  BY <1>8, StutterStep
<1>9. QED
  BY <1>1, <1>2, <1>3, <1>4, <1>6, <1>7, <1>8 DEF Next

\* LInv holds in every reachable state.
THEOREM LifecycleInductive == Spec => []LInv
<1>1. QED
  BY InitInv, NextInv, PTL DEF Spec

\* Type correctness.
THEOREM TypeCorrect == Spec => []TypeOK
<1>1. LInv => TypeOK
  BY DEF LInv
<1>2. QED
  BY <1>1, LifecycleInductive, PTL

\* Start, stop, rollback and Close never give a capability two instances.
THEOREM SingleInstance == Spec => []OneInstance
<1>1. LInv => OneInstance
  BY DEF LInv
<1>2. QED
  BY <1>1, LifecycleInductive, PTL

\* Workers outlive their entry in m.active only when the manager is degraded.
THEOREM StraysKnown == Spec => []StrayMeansDegraded
<1>1. LInv => StrayMeansDegraded
  BY DEF LInv
<1>2. QED
  BY <1>1, LifecycleInductive, PTL

\* A manager that reports a policy and is healthy runs exactly that policy.
THEOREM PolicyEnforced == Spec => []PolicyInForce
<1>1. LInv => PolicyInForce
  <2> SUFFICES ASSUME LInv, op = "idle", ~degraded, ~closed, ~rootDone
               PROVE  /\ active = current.enabled
                      /\ \A c \in Capabilities :
                            leaving[c] = 0 /\ serving[c] = IF c \in active THEN 1 ELSE 0
    BY DEF PolicyInForce
  <2>1. active = current.enabled
    BY DEF LInv, PhaseInv
  <2>2. ASSUME NEW c \in Capabilities
        PROVE  leaving[c] = 0 /\ serving[c] = IF c \in active THEN 1 ELSE 0
    BY DEF LInv, TypeOK, LiveInv, OneInstance, StrayMeansDegraded, Instances
  <2>3. QED
    BY <2>1, <2>2
<1>2. QED
  BY <1>1, LifecycleInductive, PTL

\* The store never holds another policy than the one in force unnoticed.
THEOREM StoreTracked == Spec => []StoreKnown
<1>1. LInv => StoreKnown
  BY DEF LInv, StoreKnown
<1>2. QED
  BY <1>1, LifecycleInductive, PTL

\* A step that changes a policy commits or saves `next'.
LEMMA PolicyChange ==
  ASSUME LInv, [Next]_vars
  PROVE  /\ current' = current \/ (op = "save" /\ current' = next)
         /\ stored' = stored \/ (op = "save" /\ HasStore /\ stored' = next)
<1>1. CASE ApplyCommits
  BY <1>1 DEF ApplyCommits
<1>2. CASE SaveFails
  BY <1>2 DEF SaveFails
<1>3. CASE UNCHANGED policy
  BY <1>3 DEF policy
<1>4. ASSUME ~ApplyCommits, ~SaveFails PROVE UNCHANGED policy
  BY <1>4 DEF Next, vars, LocalApply, ApplyBegin, Apply, ApplyStop, ApplyStart, ApplyStopped,
     ApplyStarted, ApplyCancelled, Restore, RestoreStop, RestoreStart, RestoreStopped,
     RestoreReturn, Close, CloseBegin, CloseStop, CloseReturn, Gate, GateAccept, GateApply,
     GateRefused, RootCancelled, WorkersExit
<1>5. QED
  BY <1>1, <1>2, <1>3, <1>4

\* A policy is saved only while exactly its collectors are active.
THEOREM SavedAfterLifecycle == Spec => SavedWhenLive
<1>1. ASSUME LInv, [Next]_vars
      PROVE  [stored' # stored => active = stored'.enabled]_vars
  BY <1>1, PolicyChange DEF LInv, PhaseInv
<1>2. QED
  BY <1>1, LifecycleInductive, PTL DEF Spec, SavedWhenLive

\* Policies in force and in the store only advance in version.
THEOREM VersionsOnlyAdvance == Spec => VersionsAdvance
<1>1. ASSUME LInv, [Next]_vars
      PROVE  [/\ current' # current => current'.version > current.version
              /\ stored' # stored => stored'.version > stored.version]_vars
  <2>1. current' # current => current'.version > current.version
    BY <1>1, PolicyChange DEF LInv, PhaseInv
  <2>2. stored' # stored => stored'.version > stored.version
    BY <1>1, PolicyChange DEF LInv, PhaseInv
  <2>3. QED
    BY <2>1, <2>2
<1>2. QED
  BY <1>1, LifecycleInductive, PTL DEF Spec, VersionsAdvance

=============================================================================
