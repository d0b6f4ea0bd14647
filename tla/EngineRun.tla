----------------------------- MODULE EngineRun ------------------------------
(***************************************************************************)
(* One durable run and everything that acts on it: the workflow workers    *)
(* that claim and activate it, the activity workers that execute its       *)
(* tasks, the maintenance worker that wakes it for due timers, and the     *)
(* control API.  They share only the database, so a variable here is a     *)
(* row or a column, except for the program counters of the processes.      *)
(*                                                                         *)
(* The run's row lock (SELECT ... FOR NO KEY UPDATE) is `lock'.  A control *)
(* request and a retry hold it for one short transaction and are atomic.   *)
(* An activation and the transaction that stores a task's outcome are not: *)
(* everyone else moves between their steps.                                *)
(*                                                                         *)
(* Sources: engine/internal/workflow/{worker,activation}.go,               *)
(* engine/internal/activity/worker.go, engine/internal/worker/             *)
(* maintenance.go, engine/pkg/runtime/runtime.go, engine/db/queries/*.sql, *)
(* internal/api/engine_control.go.                                         *)
(***************************************************************************)
EXTENDS WorkflowReplay

CONSTANTS
    Workers,          \* workflow workers, one per runtime incarnation
    ActivityWorkers,  \* activity workers, one per runtime incarnation
    Deployed,         \* Deployed[w]: the function in the build that w runs
    Registered,       \* the workers whose build registers the run's version
    MaxAttempts,      \* an activity's attempt limit
    SignalNames,      \* the names that clients send signals by
    Allowed           \* bounds on the environment: signals, cancels, controls
                      \* (suspend and terminate requests) and lateLeases (leases
                      \* that run out although their owner is up)

BudgetKinds == {"signals", "cancels", "controls", "lateLeases"}

ASSUME WorkersAreDistinct ==
    /\ Workers \cap ActivityWorkers = {}
    /\ None \notin Workers \cup ActivityWorkers
ASSUME DeployedPrograms == Deployed \in [Workers -> Seq(Command)]
ASSUME RegisteredWorkers == Registered \subseteq Workers
ASSUME SignalNamesAreKeys == SignalNames \subseteq Keys
ASSUME AttemptLimit == MaxAttempts \in Nat \ {0}
ASSUME AllowedBudget == Allowed \in [BudgetKinds -> Nat]

VARIABLES
    status,     \* engine.runs.status
    claimedBy,  \* engine.runs.claimed_by
    leaseLive,  \* engine.runs.lease_expires_at has not passed
    waitingFor, \* engine.runs.waiting_for
    lock,       \* the process whose open transaction holds the run's row lock
    history,    \* engine.history rows of the run, after workflow.started
    tasks,      \* engine.activity_tasks rows of the run, by activity key
    armed,      \* the timer rows of engine.inbox that are not due yet
    wf,         \* the workflow workers
    aw,         \* the activity workers
    dueListed,  \* the maintenance worker has the run in its list of due runs
    budget      \* what the environment may still do

runVars == <<status, claimedBy, leaseLive, waitingFor>>
workVars == <<tasks, armed, inbox>>
vars == <<runVars, lock, history, workVars, runner, wf, aw, dueListed, budget>>

RunStatuses == {"queued", "running", "waiting", "suspended", "quarantined",
                "completed", "failed", "cancelled", "terminated"}
TerminalStatuses == {"completed", "failed", "cancelled", "terminated"}
TaskStatuses == {"none", "queued", "claimed", "completed", "failed", "cancelled"}
Task == [status : TaskStatuses, claimedBy : ActivityWorkers \cup {None},
         leaseLive : BOOLEAN, attempts : 0..MaxAttempts]

\* A workflow worker is between polls (idle), has claimed the run, has begun the
\* activation's transaction, or holds the run's lock and replays (active).  On
\* shutdown its loop has ended (stopping) before its claims are released.
WorkflowWorker == [pc : {"idle", "claimed", "begun", "active", "stopping", "down"},
                   horizon : Nat]

\* An activity worker runs a handler (executing), or is in the transaction that
\* stores the handler's outcome (finishing); `woke' says that transaction has
\* applied its wake and so holds the run's row lock.
ActivityWorker == [pc : {"idle", "executing", "finishing", "stopping", "down"},
                   key : Keys \cup {None}, outcome : Outcomes, woke : BOOLEAN]
IdleActivityWorker == [pc |-> "idle", key |-> None, outcome |-> "none", woke |-> FALSE]

TypeOK ==
    /\ status \in RunStatuses
    /\ claimedBy \in Workers \cup {None}
    /\ leaseLive \in BOOLEAN
    /\ waitingFor \in Wait
    /\ lock \in Workers \cup ActivityWorkers \cup {None}
    /\ history \in Seq(Event)
    /\ tasks \in [Keys -> Task]
    /\ armed \subseteq Keys
    /\ inbox \in Seq(InboxItem)
    /\ runner \in Runner
    /\ wf \in [Workers -> WorkflowWorker]
    /\ aw \in [ActivityWorkers -> ActivityWorker]
    /\ dueListed \in BOOLEAN
    /\ budget \in [BudgetKinds -> Nat]

IsTerminal == status \in TerminalStatuses

OpenTask(k) == tasks[k].status \in {"queued", "claimed"}
NoTask == [status |-> "none", claimedBy |-> None, leaseLive |-> FALSE, attempts |-> 0]

\* Between activations there is no runner.
NoReplay == NewRunner(<<>>, <<>>, {}, [k \in Keys |-> "none"])

Init ==
    /\ status = "queued"
    /\ claimedBy = None
    /\ leaseLive = FALSE
    /\ waitingFor = NoWait
    /\ lock = None
    /\ history = <<>>
    /\ tasks = [k \in Keys |-> NoTask]
    /\ armed = {}
    /\ inbox = <<>>
    /\ runner = NoReplay
    /\ wf = [w \in Workers |-> [pc |-> "idle", horizon |-> 0]]
    /\ aw = [a \in ActivityWorkers |-> IdleActivityWorker]
    /\ dueListed = FALSE
    /\ budget = Allowed

(***************************************************************************)
(* Updates shared by several transactions.                                 *)
(***************************************************************************)

Spend(kind) == budget[kind] > 0 /\ budget' = [budget EXCEPT ![kind] = @ - 1]

\* Every transition of the run's status clears the claim with it.
MoveRun(newStatus, newWait) ==
    /\ status' = newStatus
    /\ waitingFor' = newWait
    /\ claimedBy' = None
    /\ leaseLive' = FALSE

\* The worker's claim, which the transitions out of running compare with the row.
HasClaim(w) == status = "running" /\ claimedBy = w

\* One query per transition.  Only TransitionRunToCancelled does not compare the
\* claim, and TransitionRunToSuspended keeps waiting_for.
TransitionRunToWaiting(w, wait) == HasClaim(w) /\ MoveRun("waiting", wait)
TransitionRunToCompleted(w) == HasClaim(w) /\ MoveRun("completed", NoWait)
TransitionRunToFailed(w) == HasClaim(w) /\ MoveRun("failed", NoWait)
TransitionRunToQuarantined(w, wait) == HasClaim(w) /\ MoveRun("quarantined", wait)
TransitionRunToCancelled == status = "running" /\ MoveRun("cancelled", NoWait)
TransitionRunToTerminated == ~IsTerminal /\ MoveRun("terminated", NoWait)
TransitionRunToSuspended == status \in {"queued", "waiting"} /\ MoveRun("suspended", waitingFor)
TransitionRunToQueuedFromSuspended == status = "suspended" /\ MoveRun("queued", NoWait)
TransitionRunToQueuedFromQuarantined == status = "quarantined" /\ MoveRun("queued", NoWait)

\* WakeWaitingRun: UPDATE ... WHERE status = 'waiting'.
WakeIfWaiting ==
    IF status = "waiting" THEN MoveRun("queued", NoWait) ELSE UNCHANGED runVars

\* Mutated: a run row can be updated under another transaction's lock.
RunNeverLocked == TRUE

\* FOR NO KEY UPDATE waits, and FOR NO KEY UPDATE SKIP LOCKED looks elsewhere,
\* while another transaction holds the run's row.
RunUnlocked == lock = None

\* A task row that an open transaction has updated: other updates wait for it,
\* and claims skip it.
TaskLocked(k) == \E a \in ActivityWorkers : aw[a].pc = "finishing" /\ aw[a].key = k

\* Mutated: the tasks outlive the run.
TasksKept == tasks

\* CancelOpenActivityTasksByRun and DiscardOpenInboxItemsByRun.
CancelledTasks ==
    [k \in Keys |-> IF OpenTask(k)
                    THEN [tasks[k] EXCEPT !.status = "cancelled", !.claimedBy = None,
                                          !.leaseLive = FALSE]
                    ELSE tasks[k]]
DiscardPending(items) ==
    [i \in 1..Len(items) |-> IF items[i].status = "pending"
                             THEN [items[i] EXCEPT !.status = "discarded"]
                             ELSE items[i]]
OpenTasksUnlocked == \A k \in Keys : OpenTask(k) => ~TaskLocked(k)

(***************************************************************************)
(* Workflow workers: claim, activate, commit.                              *)
(***************************************************************************)

SetWorker(w, pc) == wf' = [wf EXCEPT ![w] = [pc |-> pc, horizon |-> 0]]

\* Mutated: a run whose worker is gone is never claimed again.
ClaimableOnce == status = "queued"

\* A lease that has run out is the only sign that a run's worker is gone.
Claimable == status = "queued" \/ (status = "running" /\ ~leaseLive)

\* ClaimNextRun skips a locked row.
ClaimNextRun(w) ==
    /\ wf[w].pc = "idle"
    /\ RunUnlocked
    /\ Claimable
    /\ status' = "running"
    /\ claimedBy' = w
    /\ leaseLive' = TRUE
    /\ SetWorker(w, "claimed")
    /\ UNCHANGED <<waitingFor, lock, history, workVars, runner, aw, dueListed, budget>>

\* Activate begins its transaction.  NOW() is from here on the transaction's
\* start, and ListPendingInboxByRun reads available_at <= NOW(): the rows that
\* become available later are beyond the activation's horizon.
BeginTx(w) ==
    /\ wf[w].pc = "claimed"
    /\ wf' = [wf EXCEPT ![w] = [pc |-> "begun", horizon |-> Len(inbox)]]
    /\ UNCHANGED <<runVars, lock, history, workVars, runner, aw, dueListed, budget>>

ReadOutcome(k) ==
    IF tasks[k].status \in {"completed", "failed"} THEN tasks[k].status ELSE "none"

\* lockRunAfterParent, the fence against a stale claim, and the snapshot.
StartReplay(w) ==
    /\ wf[w].pc = "begun"
    /\ RunUnlocked
    /\ HasClaim(w)
    /\ w \in Registered
    /\ lock' = w
    /\ runner' = NewRunner(Deployed[w], history,
                           {i \in 1..wf[w].horizon : inbox[i].status = "pending"},
                           [k \in Keys |-> ReadOutcome(k)])
    /\ SetWorker(w, "active")
    /\ UNCHANGED <<runVars, history, workVars, aw, dueListed, budget>>

\* ErrStaleClaim: the worker drops the run and polls again.
DropStaleClaim(w) ==
    /\ wf[w].pc = "begun"
    /\ RunUnlocked
    /\ ~HasClaim(w)
    /\ SetWorker(w, "idle")
    /\ UNCHANGED <<runVars, lock, history, workVars, runner, aw, dueListed, budget>>

\* definition_version_mismatch: the run fails without a replay.
FailUnregistered(w) ==
    /\ wf[w].pc = "begun"
    /\ RunUnlocked
    /\ HasClaim(w)
    /\ w \notin Registered
    /\ TransitionRunToFailed(w)
    /\ history' = Append(history, NewEvent("workflow.failed", None, 0))
    /\ SetWorker(w, "idle")
    /\ UNCHANGED <<lock, workVars, runner, aw, dueListed, budget>>

Replay(w) ==
    /\ wf[w].pc = "active"
    /\ ReplayStep
    /\ UNCHANGED <<runVars, lock, history, workVars, wf, aw, dueListed, budget>>

\* commitDecision: the fences (UNIQUE (run_id, sequence_no) and claimed_by), the
\* consumed inbox rows, the new events and the end of the transaction.
Committing(w, decision) ==
    /\ wf[w].pc = "active"
    /\ runner.phase = "decided"
    /\ runner.decision = decision
    /\ Len(history) = Len(runner.log)
    /\ history' = history \o runner.queued
    /\ lock' = None
    /\ runner' = NoReplay
    /\ SetWorker(w, "idle")
    /\ UNCHANGED <<aw, dueListed, budget>>

\* Mutated: the rows stay pending.
NotConsumed == inbox

Consumed ==
    [i \in 1..Len(inbox) |-> IF i \in runner.consumed /\ inbox[i].status = "pending"
                             THEN [inbox[i] EXCEPT !.status = "processed"]
                             ELSE inbox[i]]

\* The new task is inserted with the activity's UNIQUE (run_id, activity_key).
CommitWaiting(w) ==
    /\ Committing(w, "waiting")
    /\ inbox' = Consumed
    /\ \A k \in {runner.newTask} \ {None} : tasks[k].status = "none"
    /\ tasks' = [k \in Keys |-> IF k = runner.newTask
                                THEN [NoTask EXCEPT !.status = "queued"]
                                ELSE tasks[k]]
    /\ armed' = armed \cup ({runner.newTimer} \ {None})
    /\ TransitionRunToWaiting(w, runner.wait)

CommitEnded(w) ==
    /\ \/ Committing(w, "completed") /\ TransitionRunToCompleted(w)
       \/ Committing(w, "failed") /\ TransitionRunToFailed(w)
    /\ inbox' = Consumed
    /\ UNCHANGED <<tasks, armed>>

CommitQuarantined(w) ==
    /\ Committing(w, "quarantined")
    /\ inbox' = Consumed
    /\ TransitionRunToQuarantined(w, runner.wait)
    /\ UNCHANGED <<tasks, armed>>

CommitCancelled(w) ==
    /\ Committing(w, "cancelled")
    /\ OpenTasksUnlocked
    /\ TransitionRunToCancelled
    /\ tasks' = CancelledTasks
    /\ armed' = {}
    /\ inbox' = DiscardPending(Consumed)

\* A process that dies rolls its transaction back; its claim stays until the
\* lease runs out.  Some other worker is up, or is started.
LoseLock(p) == lock' = IF lock = p THEN None ELSE lock
LeaveWorker(w, pc) ==
    /\ \E other \in Workers \ {w} : wf[other].pc \notin {"stopping", "down"}
    /\ wf' = [wf EXCEPT ![w] = [pc |-> pc, horizon |-> 0]]
    /\ LoseLock(w)
    /\ runner' = IF lock = w THEN NoReplay ELSE runner
    /\ UNCHANGED <<runVars, history, workVars, aw, dueListed, budget>>

CrashWorker(w) == wf[w].pc # "down" /\ LeaveWorker(w, "down")

\* Shutdown cancels the loop's context, which ends a transaction in progress.
StopWorker(w) == wf[w].pc \notin {"stopping", "down"} /\ LeaveWorker(w, "stopping")

\* releaseWorkerClaims: ReleaseRunsByClaimant, after the loop has returned.
ReleaseRuns(w) ==
    /\ wf[w].pc = "stopping"
    /\ SetWorker(w, "down")
    /\ IF HasClaim(w)
       THEN /\ RunUnlocked
            /\ status' = "queued" /\ claimedBy' = None /\ leaseLive' = FALSE
            /\ UNCHANGED waitingFor
       ELSE UNCHANGED runVars
    /\ UNCHANGED <<lock, history, workVars, runner, aw, dueListed, budget>>

(***************************************************************************)
(* Activity workers: claim, execute, store the outcome and wake the run.   *)
(***************************************************************************)

\* Only "fewer than MaxAttempts so far" is ever asked of the attempt counter, so
\* it stops counting there.
NextAttempt(n) == IF n < MaxAttempts THEN n + 1 ELSE n

\* ClaimNextActivityTask; the backoff of a retry is not distinguished from a
\* late poll.
ClaimActivityTask(a) ==
    /\ aw[a].pc = "idle"
    /\ \E k \in Keys :
         /\ \/ tasks[k].status = "queued"
            \/ tasks[k].status = "claimed" /\ ~tasks[k].leaseLive
         /\ ~TaskLocked(k)
         /\ tasks' = [tasks EXCEPT ![k] = [status |-> "claimed", claimedBy |-> a, leaseLive |-> TRUE,
                                           attempts |-> NextAttempt(@.attempts)]]
         /\ aw' = [aw EXCEPT ![a] = [IdleActivityWorker EXCEPT !.pc = "executing", !.key = k]]
    /\ UNCHANGED <<runVars, lock, history, armed, inbox, runner, wf, dueListed, budget>>

\* Mutated: the claim's owner is not compared.
TaskClaimed(a) == tasks[aw[a].key].status = "claimed"

\* The compare-and-set on the task row looks at the claim and not at the lease.
HoldsTask(a) == tasks[aw[a].key].status = "claimed" /\ tasks[aw[a].key].claimedBy = a

\* The update of RetryActivityTask, and of its siblings that store an outcome.
TaskSetTo(k, newStatus) ==
    [tasks EXCEPT ![k] = [@ EXCEPT !.status = newStatus, !.claimedBy = None, !.leaseLive = FALSE]]

\* The handler has returned: Complete- or FailActivityTask, then WakeWaitingRun,
\* in a transaction that has not committed yet.  The run is not locked first, so
\* the wake sees the committed status; a waiting run's row it locks.
StartOutcome(a) ==
    /\ aw[a].pc = "executing"
    /\ HoldsTask(a)
    /\ status = "waiting" => RunUnlocked
    /\ \E outcome \in {"completed", "failed"} :
         aw' = [aw EXCEPT ![a].pc = "finishing", ![a].outcome = outcome,
                          ![a].woke = (status = "waiting")]
    /\ lock' = IF status = "waiting" THEN a ELSE lock
    /\ UNCHANGED <<runVars, history, workVars, runner, wf, dueListed, budget>>

CommitOutcome(a) ==
    /\ aw[a].pc = "finishing"
    /\ tasks' = TaskSetTo(aw[a].key, aw[a].outcome)
    /\ IF aw[a].woke
       THEN MoveRun("queued", NoWait) /\ lock' = None
       ELSE UNCHANGED <<runVars, lock>>
    /\ aw' = [aw EXCEPT ![a] = IdleActivityWorker]
    /\ UNCHANGED <<history, armed, inbox, runner, wf, dueListed, budget>>

\* Mutated: one retry too many.
MayRetryOnceMore(a) == tasks[aw[a].key].attempts <= MaxAttempts

\* shouldRetryTask.
MayRetry(a) == tasks[aw[a].key].attempts < MaxAttempts

\* retryTask locks the run before the task, so the event's sequence number is its own.
RetryActivity(a) ==
    /\ aw[a].pc = "executing"
    /\ HoldsTask(a)
    /\ MayRetry(a)
    /\ RunUnlocked
    /\ tasks' = TaskSetTo(aw[a].key, "queued")
    /\ history' = Append(history, NewEvent("activity.retry_scheduled", aw[a].key, 0))
    /\ aw' = [aw EXCEPT ![a] = IdleActivityWorker]
    /\ UNCHANGED <<runVars, lock, armed, inbox, runner, wf, dueListed, budget>>

\* ErrStaleClaim: the result of an attempt that lost its claim is dropped.
DropStaleOutcome(a) ==
    /\ aw[a].pc = "executing"
    /\ ~HoldsTask(a)
    /\ aw' = [aw EXCEPT ![a] = IdleActivityWorker]
    /\ UNCHANGED <<runVars, lock, history, workVars, runner, wf, dueListed, budget>>

LeaveActivityWorker(a, pc) ==
    /\ \E other \in ActivityWorkers \ {a} : aw[other].pc \notin {"stopping", "down"}
    /\ aw' = [aw EXCEPT ![a] = [IdleActivityWorker EXCEPT !.pc = pc]]
    /\ LoseLock(a)
    /\ UNCHANGED <<runVars, history, workVars, runner, wf, dueListed, budget>>

CrashActivityWorker(a) == aw[a].pc # "down" /\ LeaveActivityWorker(a, "down")
StopActivityWorker(a) == aw[a].pc \notin {"stopping", "down"} /\ LeaveActivityWorker(a, "stopping")

\* ReleaseActivityTasksByClaimant.
ReleaseTasks(a) ==
    /\ aw[a].pc = "stopping"
    /\ tasks' = [k \in Keys |-> IF tasks[k].status = "claimed" /\ tasks[k].claimedBy = a
                                 THEN [tasks[k] EXCEPT !.status = "queued", !.claimedBy = None,
                                                       !.leaseLive = FALSE]
                                 ELSE tasks[k]]
    /\ aw' = [aw EXCEPT ![a].pc = "down"]
    /\ UNCHANGED <<runVars, lock, history, armed, inbox, runner, wf, dueListed, budget>>

(***************************************************************************)
(* Time: leases run out, timers become due, maintenance wakes for them.    *)
(***************************************************************************)

\* The lease of a claim whose worker is gone.
ExpireRunLease ==
    /\ status = "running" /\ leaseLive
    /\ wf[claimedBy].pc = "down"
    /\ leaseLive' = FALSE
    /\ UNCHANGED <<status, claimedBy, waitingFor, lock, history, workVars, runner, wf, aw,
                   dueListed, budget>>

\* The lease of a worker that is only slow.
ExpireRunLeaseLate ==
    /\ status = "running" /\ leaseLive
    /\ wf[claimedBy].pc # "down"
    /\ Spend("lateLeases")
    /\ leaseLive' = FALSE
    /\ UNCHANGED <<status, claimedBy, waitingFor, lock, history, workVars, runner, wf, aw, dueListed>>

LoseTaskLease(k) ==
    /\ tasks[k].status = "claimed" /\ tasks[k].leaseLive
    /\ tasks' = [tasks EXCEPT ![k].leaseLive = FALSE]
    /\ UNCHANGED <<runVars, lock, history, armed, inbox, runner, wf, aw, dueListed>>

ExpireTaskLease(k) ==
    /\ LoseTaskLease(k)
    /\ aw[tasks[k].claimedBy].pc = "down"
    /\ UNCHANGED budget

\* The heartbeats of a worker that is up have failed.
ExpireTaskLeaseLate(k) ==
    /\ LoseTaskLease(k)
    /\ aw[tasks[k].claimedBy].pc # "down"
    /\ Spend("lateLeases")

\* A timer row passes its available_at and takes its place among the others.
TimerDue(k) ==
    /\ k \in armed
    /\ armed' = armed \ {k}
    /\ inbox' = Append(inbox, [kind |-> "timer", key |-> k, status |-> "pending"])
    /\ UNCHANGED <<runVars, lock, history, tasks, runner, wf, aw, dueListed, budget>>

\* MaintenanceWorker.PollOnce lists the due runs, then wakes each in a
\* transaction of its own: the list may be out of date by then.
ListDueTimers ==
    /\ ~dueListed
    /\ \E i \in 1..Len(inbox) : inbox[i].kind = "timer" /\ inbox[i].status = "pending"
    /\ dueListed' = TRUE
    /\ UNCHANGED <<runVars, lock, history, workVars, runner, wf, aw, budget>>

WakeDueRun ==
    /\ dueListed
    /\ status = "waiting" => RunUnlocked
    /\ WakeIfWaiting
    /\ dueListed' = FALSE
    /\ UNCHANGED <<lock, history, workVars, runner, wf, aw, budget>>

(***************************************************************************)
(* The control API.  Each request locks the run's row first.               *)
(***************************************************************************)

Controlling == RunUnlocked /\ UNCHANGED <<lock, runner, wf, aw, dueListed>>

Deliver(kind, key) ==
    inbox' = Append(inbox, [kind |-> kind, key |-> key, status |-> "pending"])

SignalRun ==
    /\ Controlling
    /\ ~IsTerminal
    /\ Spend("signals")
    /\ \E name \in SignalNames : Deliver("signal", name)
    /\ WakeIfWaiting
    /\ UNCHANGED <<history, tasks, armed>>

\* The cancel row's dedupe key admits one per run; a repeat only wakes.
CancelRun ==
    /\ Controlling
    /\ ~IsTerminal
    /\ Spend("cancels")
    /\ IF \E i \in 1..Len(inbox) : inbox[i].kind = "cancel"
       THEN UNCHANGED inbox
       ELSE Deliver("cancel", None)
    /\ WakeIfWaiting
    /\ UNCHANGED <<history, tasks, armed>>

SuspendRun ==
    /\ Controlling
    /\ Spend("controls")
    /\ TransitionRunToSuspended
    /\ history' = Append(history, NewEvent("workflow.suspended", None, 0))
    /\ UNCHANGED workVars

ResumeRun ==
    /\ Controlling
    /\ Spend("controls")
    /\ TransitionRunToQueuedFromSuspended \/ TransitionRunToQueuedFromQuarantined
    /\ history' = Append(history, NewEvent("workflow.resumed", None, 0))
    /\ UNCHANGED workVars

\* terminateLockedRun; CancelOpenActivityTasksByRun waits for a locked task row.
TerminateRun ==
    /\ Controlling
    /\ OpenTasksUnlocked
    /\ Spend("controls")
    /\ TransitionRunToTerminated
    /\ history' = Append(history, NewEvent("workflow.terminated", None, 0))
    /\ tasks' = CancelledTasks
    /\ armed' = {}
    /\ inbox' = DiscardPending(inbox)

(***************************************************************************)
(* The specification.                                                      *)
(***************************************************************************)

Activation(w) ==
    \/ ClaimNextRun(w) \/ BeginTx(w) \/ StartReplay(w) \/ DropStaleClaim(w)
    \/ FailUnregistered(w) \/ Replay(w)
    \/ CommitWaiting(w) \/ CommitEnded(w) \/ CommitQuarantined(w) \/ CommitCancelled(w)
    \/ ReleaseRuns(w)

Execution(a) ==
    \/ ClaimActivityTask(a) \/ StartOutcome(a) \/ CommitOutcome(a) \/ RetryActivity(a)
    \/ DropStaleOutcome(a) \/ ReleaseTasks(a)

WorkerFailure ==
    \/ \E w \in Workers : CrashWorker(w) \/ StopWorker(w)
    \/ \E a \in ActivityWorkers : CrashActivityWorker(a) \/ StopActivityWorker(a)

LeaseExpiry == ExpireRunLease \/ \E k \in Keys : ExpireTaskLease(k)
LateLeaseExpiry == ExpireRunLeaseLate \/ \E k \in Keys : ExpireTaskLeaseLate(k)
Timers == (\E k \in Keys : TimerDue(k)) \/ ListDueTimers \/ WakeDueRun
Control == SignalRun \/ CancelRun \/ SuspendRun \/ ResumeRun \/ TerminateRun

Next ==
    \/ \E w \in Workers : Activation(w)
    \/ \E a \in ActivityWorkers : Execution(a)
    \/ WorkerFailure
    \/ LeaseExpiry
    \/ LateLeaseExpiry
    \/ Timers
    \/ Control

Spec == Init /\ [][Next]_vars

\* The poll loops run for as long as their process is up (worker.RunLoop), the
\* workflow function and the handlers return, and time passes.  Nothing obliges a
\* client to send a request, a worker to fail or a lease to run out early.
Fairness ==
    /\ \A w \in Workers : WF_vars(Activation(w))
    /\ \A a \in ActivityWorkers : WF_vars(Execution(a))
    /\ WF_vars(LeaseExpiry)
    /\ \A k \in Keys : WF_vars(TimerDue(k))
    /\ WF_vars(ListDueTimers)
    /\ WF_vars(WakeDueRun)

FairSpec == Spec /\ Fairness
=============================================================================
