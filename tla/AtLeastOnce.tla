----------------------------- MODULE AtLeastOnce -----------------------------
(***************************************************************************)
(* What the Logs capability promises (docs/LINUX_FILE_LOGS.md, "Durability *)
(* and delivery"): the agent takes a record over from its source when it   *)
(* moves the source's checkpoint past it, keeps every record it took over  *)
(* until the backend has it, and delivers nothing it has not taken over.   *)
(* No crash, retry or failing write is a step of its own here.             *)
(***************************************************************************)
CONSTANT Records

VARIABLES
    taken,     \* records the sources will not be asked for again
    pending,   \* of those, the ones the agent keeps for delivery
    delivered  \* records the backend has

vars == <<taken, pending, delivered>>

Init == taken = {} /\ pending = {} /\ delivered = {}

TakeOver(r) ==
    /\ r \notin taken
    /\ taken' = taken \cup {r} /\ pending' = pending \cup {r}
    /\ UNCHANGED delivered

Deliver(r) ==
    /\ r \in pending
    /\ pending' = pending \ {r} /\ delivered' = delivered \cup {r}
    /\ UNCHANGED taken

Next == \E r \in Records : TakeOver(r) \/ Deliver(r)

Spec == Init /\ [][Next]_vars

=============================================================================
