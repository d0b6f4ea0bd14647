--------------------- MODULE RemoteActivityProperties ---------------------
(***************************************************************************)
(* What the remote activity protocol must guarantee whatever is lost, late *)
(* or started again.                                                       *)
(***************************************************************************)
EXTENDS RemoteActivity

\* An outcome or a retry that the server stores was produced by the execution that
\* the row's claim started: a completion that comes within the grace of a lease
\* (CompleteRemoteActivityTask, activity_tasks.sql:178) is never taken for a claim
\* that was made since.
OutcomeOfCurrentClaim ==
    \A t \in Tasks :
        \/ task[t].status \in {"completed", "failed"}
        \/ task[t].status = "queued" /\ task[t].attempts > 0
        => task[t].reported = task[t].attempts

\* The retries in a run's history count attempts upwards and leave one to come:
\* claims that were given up do not let a task be retried once more than its
\* max_attempts (FailRemoteActivityTask, engine_activities.go:295).
RetriesLeaveAnAttempt ==
    \A t \in Tasks :
        /\ \A i \in DOMAIN retries[t] : retries[t][i] < MaxAttempts
        /\ \A i, j \in DOMAIN retries[t] : i < j => retries[t][i] < retries[t][j]

\* Every task ends, although workers crash, are shut down and started again, requests
\* and answers get lost and leases run out under a worker.
EveryTaskEnds == \A t \in Tasks : <>IsEnded(t)
=============================================================================
