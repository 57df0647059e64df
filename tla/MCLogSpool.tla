----------------------------- MODULE MCLogSpool -----------------------------
(* LogSpool with three admissions: one changes its byte charge when it is   *)
(* activated (its ready form fits one 4096-byte unit less), one fills the   *)
(* budget together with the first, and one exceeds it by a unit.            *)
EXTENDS LogSpool, TLC

CONSTANTS a1, a2, a3

MCAdmissions == {a1, a2, a3}
MCPutCost == (a1 :> 2) @@ (a2 :> 1) @@ (a3 :> 4)
MCReadyCost == (a1 :> 1) @@ (a2 :> 1) @@ (a3 :> 4)

\* Two states are the same when they differ only in what no later step and no
\* property of the run reads: the operation that last held q.mu, the receipt of a
\* loop that holds nothing, the count of damaged records, `existing'.
View ==
    <<disk, durable, next, ready, admissions, bytes, count, closed, wake,
      IF op \in {"idle", "down", "refused"} THEN <<op>> ELSE running,
      consumer, IF consumer = "holds" THEN held ELSE 0,
      fsynced, activated, released, budget>>

\* Bound: crashes and faults together.
FewMishaps == crashes + faults <= 3
=============================================================================
