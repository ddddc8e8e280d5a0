-------------------------- MODULE MCScanLifecycle --------------------------
(***************************************************************************)
(* ScanLifecycle on small instances: which faults happen is each run's.    *)
(***************************************************************************)
EXTENDS ScanLifecycle, TLC

\* Users and URLs are only compared; workers are interchangeable.
MCSymmetry == Permutations(Users) \cup Permutations(Urls) \cup Permutations(Workers)

\* Everything may go wrong, even a message redelivered under a running task.
MCAllFaults == FaultPlaces

\* Whatever the code recovers from: worker crashes, and failures of any step of
\* the task after its first.
MCRecoverable == {"lookup", "api_db", "scan", "options", "persist",
                  "hooks", "dispatch", "cache", "crash"}

\* After the commit of the report only the webhooks fail.
MCLateWebhook == {"dispatch"}
=============================================================================
