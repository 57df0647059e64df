----------------------------- MODULE MCLifecycle -----------------------------
(* Lifecycle with three capabilities, the last of which has no registration *)
(* and the first of which a remote policy may not enable.                   *)
EXTENDS Lifecycle, TLC

CONSTANTS metrics, logs, traces

MCCapabilities == {metrics, logs, traces}
MCRank == (metrics :> 1) @@ (logs :> 2) @@ (traces :> 3)
MCRegistered == {metrics, logs}
MCForgetsCancel == {logs}
MCAllowed == {logs, traces}
=============================================================================
