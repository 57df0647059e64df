--------------------------- MODULE MCMetricsSpool ---------------------------
(* MetricsSpool with the agent before the upgrade, the upgraded agent of the *)
(* same deployment, the same after its endpoint changed, and an upgraded     *)
(* agent that is set up for another organization.                            *)
EXTENDS MetricsSpool

MCOpeners ==
    {[v2 |-> FALSE, hash |-> "A", legacy |-> "endpoint"],
     [v2 |-> TRUE, hash |-> "A", legacy |-> "endpoint"],
     [v2 |-> TRUE, hash |-> "A", legacy |-> "moved"],
     [v2 |-> TRUE, hash |-> "B", legacy |-> "endpoint"]}
MCCost == [b \in Batches |-> IF b = 1 THEN 2 ELSE 1]
=============================================================================
