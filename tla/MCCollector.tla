----------------------------- MODULE MCCollector -----------------------------
(* Collector on an EC2 host whose metadata service comes and goes, with     *)
(* delays that are shorter and longer than the cooldown and the Logs bound. *)
EXTENDS Collector

MCBackoff == [a \in 0..(MaxAttempts - 1) |-> a + 1]
MCRetryAfters == {0, 1, 4}
MCSignals == {"metrics", "logs"}

MCHosts == {"instance", "machine"}

\* An EC2 host that DMI does not give away, the same with metadata required, and
\* a host outside EC2.
Instance == [instance |-> "instance", machineID |-> "machine", enabled |-> TRUE,
             required |-> FALSE, hinted |-> FALSE]
Profile == [Instance EXCEPT !.required = TRUE]
OnPremises == [Instance EXCEPT !.instance = None]
MCMachines == {Instance, Profile, OnPremises}

\* All samples of up to three points, of which one size fits no request, two that
\* take more than one chunk, and two with a point that is left out.
MCSamples == (UNION {[1..n -> {1, 2, 4}] : n \in 1..3}) \cup {<<1, 1, 1, 1>>, <<2, 1, 2, 2>>, <<0, 4>>, <<2, 0, 2>>}
=============================================================================
