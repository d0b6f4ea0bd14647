--------------------------- MODULE RunJournalProofs ---------------------------
(***************************************************************************)
(* Theorems about the activities of a run, about its end, and about its    *)
(* history as the trace of a function, for every function, number of       *)
(* workers and sequence of requests: work is journalled once, an ended run *)
(* is settled, a history fits a build that is deployed, the build that     *)
(* wrote it replays it, and a run implements DurableExecution.             *)
(***************************************************************************)
EXTENDS EngineRunProofs, FiniteSetTheorems

(***************************************************************************)
(* The steps of a run, as far as they concern its history, its tasks and   *)
(* its timers.                                                             *)
(***************************************************************************)

\* A task that is neither created nor undone.
TaskGoesOn(k) ==
    tasks'[k] # tasks[k] =>
       /\ OpenTask(k) /\ tasks'[k].status # "none"
       /\ \/ tasks'[k].attempts = tasks[k].attempts /\ (tasks'[k].status = "claimed" => tasks[k].status = "claimed")
          \/ tasks'[k].attempts = NextAttempt(tasks[k].attempts) /\ tasks'[k].status = "claimed"

TimerRow(k) == [kind |-> "timer", key |-> k, status |-> "pending"]
RowsGoOn ==
    \/ UNCHANGED <<armed, inbox>>
    \/ /\ armed' = armed /\ ~IsTerminal
       /\ \E item \in InboxItem : inbox' = Append(inbox, item) /\ item.kind # "timer"
    \/ \E k \in armed : armed' = armed \ {k} /\ inbox' = Append(inbox, TimerRow(k))

Goes ==
    /\ history' = history
    /\ Replaying' => Replaying /\ runner' = runner
    /\ IsTerminal' = IsTerminal /\ (IsTerminal => status' = status)
    /\ \A k \in Keys : TaskGoesOn(k)
    /\ RowsGoOn

Retried ==
    /\ ~Replaying'
    /\ \E a \in ActivityWorkers :
         /\ aw[a].key \in Keys /\ HoldsTask(a) /\ MayRetry(a)
         /\ tasks' = TaskSetTo(aw[a].key, "queued")
         /\ history' = Append(history, NewEvent("activity.retry_scheduled", aw[a].key, 0))
    /\ UNCHANGED <<status, armed, inbox>>

Interrupted ==
    /\ ~Replaying'
    /\ \E type \in LifecycleEvents : history' = Append(history, NewEvent(type, None, 0))
    /\ ~IsTerminal /\ ~IsTerminal'
    /\ UNCHANGED <<tasks, armed, inbox>>

Stopped ==
    /\ ~Replaying'
    /\ ~IsTerminal /\ IsTerminal'
    /\ history' = Append(history, NewEvent(StatusEvent[status'], None, 0))
    /\ \/ tasks' = CancelledTasks /\ armed' = {} /\ inbox' = DiscardPending(inbox) /\ status' = "terminated"
       \/ UNCHANGED <<tasks, armed, inbox>> /\ status' = "failed" /\ Registered # Workers

Activates ==
    /\ ~IsTerminal /\ ~IsTerminal'
    /\ UNCHANGED <<history, tasks, armed, inbox>>
    /\ \E w \in Workers, frontier \in SUBSET Nat :
         runner' = NewRunner(Deployed[w], history, frontier, [k \in Keys |-> ReadOutcome(k)])

ReplaysOn ==
    /\ Replaying /\ ReplayStep
    /\ UNCHANGED <<history, tasks, armed, inbox, status>>

Committed ==
    /\ Replaying /\ ~Replaying' /\ ~IsTerminal /\ runner.log = history
    /\ history' = history \o runner.queued
    /\ runner.phase = "decided"
    /\ \/ /\ runner.decision = "waiting" /\ ~IsTerminal'
          /\ inbox' = Consumed
          /\ \A k \in {runner.newTask} \ {None} : tasks[k].status = "none"
          /\ tasks' = [k \in Keys |-> IF k = runner.newTask THEN [NoTask EXCEPT !.status = "queued"]
                                      ELSE tasks[k]]
          /\ armed' = armed \cup ({runner.newTimer} \ {None})
       \/ /\ runner.decision \in {"completed", "failed"} /\ status' = runner.decision
          /\ inbox' = Consumed /\ UNCHANGED <<tasks, armed>>
       \/ /\ runner.decision = "quarantined" /\ ~IsTerminal'
          /\ inbox' = Consumed /\ UNCHANGED <<tasks, armed>>
       \/ /\ runner.decision = "cancelled" /\ status' = "cancelled"
          /\ inbox' = DiscardPending(Consumed) /\ tasks' = CancelledTasks /\ armed' = {}

Steps == Goes \/ Retried \/ Interrupted \/ Stopped \/ Activates \/ ReplaysOn \/ Committed

\* The transaction that stores an outcome has one.
FinishingDecides ==
    \A a \in ActivityWorkers : aw[a].pc = "finishing" => aw[a].outcome \in {"completed", "failed"}

LEMMA TasksGoOn ==
  ASSUME UNCHANGED tasks
  PROVE  \A k \in Keys : TaskGoesOn(k)
BY DEF TaskGoesOn

LEMMA ActivationSteps ==
  ASSUME Types, Locking, NEW w \in Workers, Activation(w)
  PROVE  Steps
<1>0. TypeOK /\ ReplayPosition
  BY TypesAreTypeOK
<1>1. /\ RunUnlocked => ~Replaying
      /\ Replaying => ~IsTerminal /\ runner.log = history
  BY ReplayingIsLocked
<1>2. "running" \notin TerminalStatuses /\ "queued" \notin TerminalStatuses /\ "waiting" \notin TerminalStatuses
      /\ "quarantined" \notin TerminalStatuses /\ {"completed", "failed", "cancelled"} \subseteq TerminalStatuses
  BY DEF TerminalStatuses
<1>3. ASSUME UNCHANGED <<history, tasks, armed, inbox, runner>>,
             status' = status \/ (status \in {"queued", "running"} /\ status' \in {"queued", "running"}),
             Replaying' => Replaying
      PROVE  Goes
  <2>1. IsTerminal' = IsTerminal /\ (IsTerminal => status' = status)
    BY <1>2, <1>3 DEF IsTerminal
  <2>2. QED
    BY <1>3, <2>1, TasksGoOn DEF Goes, RowsGoOn
<1>4. CASE ClaimNextRun(w)
  <2>1. Replaying' => Replaying
    BY <1>4, WorkerMoves DEF ClaimNextRun, SetWorker
  <2>2. QED
    BY <1>3, <1>4, <2>1 DEF ClaimNextRun, Claimable, workVars, Steps
<1>5. CASE BeginTx(w)
  <2>1. Replaying' => Replaying
    BY <1>5, WorkerMoves DEF BeginTx
  <2>2. QED
    BY <1>3, <1>5, <2>1 DEF BeginTx, workVars, runVars, Steps
<1>6. CASE DropStaleClaim(w) \/ ReleaseRuns(w)
  <2>1. Replaying' => Replaying
    BY <1>6, WorkerMoves DEF DropStaleClaim, ReleaseRuns, SetWorker
  <2>2. QED
    BY <1>3, <1>6, <2>1 DEF DropStaleClaim, ReleaseRuns, workVars, runVars, HasClaim, Steps
<1>7. CASE StartReplay(w)
  <2> DEFINE frontier == {i \in 1..wf[w].horizon : inbox[i].status = "pending"}
  <2>1. /\ UNCHANGED <<history, tasks, armed, inbox, status>> /\ status = "running"
        /\ runner' = NewRunner(Deployed[w], history, frontier, [k \in Keys |-> ReadOutcome(k)])
    BY <1>7 DEF StartReplay, workVars, runVars, HasClaim
  <2>2. frontier \in SUBSET Nat
    OBVIOUS
  <2> HIDE DEF frontier
  <2>3. ~IsTerminal /\ ~IsTerminal'
    BY <1>2, <2>1 DEF IsTerminal
  <2>4. QED
    BY <2>1, <2>2, <2>3 DEF Activates, Steps
<1>8. CASE FailUnregistered(w)
  <2>1. /\ history' = Append(history, NewEvent("workflow.failed", None, 0))
        /\ UNCHANGED <<tasks, armed, inbox>> /\ RunUnlocked /\ status = "running" /\ status' = "failed"
        /\ wf' = [wf EXCEPT ![w] = [pc |-> "idle", horizon |-> 0]]
        /\ w \notin Registered
    BY <1>8 DEF FailUnregistered, SetWorker, workVars, HasClaim, TransitionRunToFailed, MoveRun
  <2>2. ~Replaying' /\ ~IsTerminal /\ IsTerminal'
    BY <1>1, <1>2, <2>1, WorkerMoves DEF IsTerminal
  <2>3. StatusEvent[status'] = "workflow.failed"
    BY <2>1 DEF StatusEvent
  <2>4. QED
    BY <2>1, <2>2, <2>3 DEF Stopped, Steps
<1>9. CASE Replay(w)
  <2>1. UNCHANGED <<history, tasks, armed, inbox, status>> /\ ReplayStep /\ Replaying
    BY <1>9 DEF Replay, workVars, runVars, Replaying
  <2>2. QED
    BY <2>1 DEF ReplaysOn, Steps
<1>10. ASSUME NEW decision, Committing(w, decision)
       PROVE  /\ Replaying /\ ~Replaying' /\ ~IsTerminal /\ runner.log = history
              /\ history' = history \o runner.queued
              /\ runner.phase = "decided" /\ runner.decision = decision
  <2>1. /\ history' = history \o runner.queued /\ runner.phase = "decided" /\ wf[w].pc = "active"
        /\ runner.decision = decision
        /\ wf' = [wf EXCEPT ![w] = [pc |-> "idle", horizon |-> 0]]
    BY <1>10 DEF Committing, SetWorker
  <2>2. Replaying
    BY <2>1 DEF Replaying
  <2>3. ~Replaying'
    <3>1. \A v \in Workers : wf'[v].pc = "active" => v # w /\ wf[v].pc = "active"
      BY <2>1, WorkerMoves
    <3>2. \A v \in Workers : wf[v].pc = "active" => v = w
      BY <2>1, LockExcludes
    <3>3. QED
      BY <3>1, <3>2 DEF Replaying
  <2>4. QED
    BY <1>1, <2>1, <2>2, <2>3
<1>11. CASE CommitWaiting(w)
  <2>1. /\ Committing(w, "waiting") /\ status' = "waiting" /\ inbox' = Consumed
        /\ \A k \in {runner.newTask} \ {None} : tasks[k].status = "none"
        /\ tasks' = [k \in Keys |-> IF k = runner.newTask THEN [NoTask EXCEPT !.status = "queued"]
                                    ELSE tasks[k]]
        /\ armed' = armed \cup ({runner.newTimer} \ {None})
    BY <1>11 DEF CommitWaiting, TransitionRunToWaiting, MoveRun
  <2>2. ~IsTerminal'
    BY <1>2, <2>1 DEF IsTerminal
  <2>3. QED
    BY <1>10, <2>1, <2>2 DEF Committed, Steps
<1>12. CASE CommitEnded(w)
  <2>1. \E decision \in {"completed", "failed"} : Committing(w, decision) /\ status' = decision
    BY <1>12 DEF CommitEnded, TransitionRunToCompleted, TransitionRunToFailed, MoveRun
  <2>2. inbox' = Consumed /\ UNCHANGED <<tasks, armed>>
    BY <1>12 DEF CommitEnded
  <2>3. QED
    BY <1>10, <2>1, <2>2 DEF Committed, Steps
<1>13. CASE CommitQuarantined(w)
  <2>1. Committing(w, "quarantined") /\ status' = "quarantined" /\ inbox' = Consumed /\ UNCHANGED <<tasks, armed>>
    BY <1>13 DEF CommitQuarantined, TransitionRunToQuarantined, MoveRun
  <2>2. ~IsTerminal'
    BY <1>2, <2>1 DEF IsTerminal
  <2>3. QED
    BY <1>10, <2>1, <2>2 DEF Committed, Steps
<1>14. CASE CommitCancelled(w)
  <2>1. /\ Committing(w, "cancelled") /\ status' = "cancelled" /\ inbox' = DiscardPending(Consumed)
        /\ tasks' = CancelledTasks /\ armed' = {}
    BY <1>14 DEF CommitCancelled, TransitionRunToCancelled, MoveRun
  <2>2. QED
    BY <1>10, <2>1 DEF Committed, Steps
<1>15. QED
  BY <1>4, <1>5, <1>6, <1>7, <1>8, <1>9, <1>11, <1>12, <1>13, <1>14 DEF Activation

LEMMA ExecutionSteps ==
  ASSUME Types, Locking, WokenRunWaits, FinishingHoldsTask, FinishingDecides, NEW a \in ActivityWorkers,
         Execution(a)
  PROVE  Steps
<1>0. TypeOK
  BY TypesAreTypeOK
<1>1. UNCHANGED <<armed, inbox, runner, wf>> /\ Replaying' = Replaying
  BY DEF Execution, ClaimActivityTask, StartOutcome, CommitOutcome, RetryActivity, DropStaleOutcome,
     ReleaseTasks, workVars, Replaying
<1>2. ASSUME UNCHANGED <<status, history>>, \A k \in Keys : TaskGoesOn(k)
      PROVE  Steps
  <2>1. IsTerminal' = IsTerminal
    BY <1>2 DEF IsTerminal
  <2>2. QED
    BY <1>1, <1>2, <2>1 DEF Goes, RowsGoOn, Steps
<1>3. \A k \in Keys : tasks[k] \in Task
  BY <1>0 DEF TypeOK
<1>4. CASE ClaimActivityTask(a)
  <2>1. PICK k \in Keys :
           /\ tasks[k].status \in {"queued", "claimed"}
           /\ tasks' = [tasks EXCEPT ![k] = [status |-> "claimed", claimedBy |-> a, leaseLive |-> TRUE,
                                             attempts |-> NextAttempt(@.attempts)]]
    BY <1>4 DEF ClaimActivityTask
  <2>2. \A j \in Keys \ {k} : tasks'[j] = tasks[j]
    BY <1>0, <2>1 DEF TypeOK
  <2>3. tasks'[k].status = "claimed" /\ tasks'[k].attempts = NextAttempt(tasks[k].attempts)
    BY <1>0, <2>1 DEF TypeOK
  <2>4. \A j \in Keys : TaskGoesOn(j)
    BY <2>1, <2>2, <2>3 DEF TaskGoesOn, OpenTask
  <2>5. QED
    BY <1>2, <1>4, <2>4 DEF ClaimActivityTask, runVars
<1>5. CASE StartOutcome(a) \/ DropStaleOutcome(a)
  BY <1>2, <1>5, TasksGoOn DEF StartOutcome, DropStaleOutcome, runVars, workVars
<1>6. CASE CommitOutcome(a)
  <2> DEFINE k == aw[a].key
  <2>1. k \in Keys /\ HoldsTask(a) /\ aw[a].pc = "finishing"
    BY <1>6 DEF CommitOutcome, FinishingHoldsTask
  <2>2. tasks' = TaskSetTo(k, aw[a].outcome) /\ aw[a].outcome \in Outcomes
    BY <1>0, <1>6 DEF CommitOutcome, TypeOK, ActivityWorker
  <2>3. tasks[k].status = "claimed"
    BY <2>1 DEF HoldsTask
  <2>4. /\ \A j \in Keys \ {k} : tasks'[j] = tasks[j]
        /\ tasks'[k].status = aw[a].outcome /\ tasks'[k].attempts = tasks[k].attempts
    BY <1>0, <1>3, <2>1, <2>2 DEF TaskSetTo, TypeOK, Task
  <2>5. aw[a].outcome # "none"
    BY <2>1 DEF FinishingDecides
  <2>6. \A j \in Keys : TaskGoesOn(j)
    BY <2>3, <2>4, <2>5 DEF TaskGoesOn, OpenTask
  <2>7. UNCHANGED history /\ (UNCHANGED status \/ (aw[a].woke /\ status' = "queued"))
    BY <1>6 DEF CommitOutcome, MoveRun, runVars
  <2>8. IsTerminal' = IsTerminal /\ (IsTerminal => status' = status)
    <3>1. CASE UNCHANGED status
      BY <3>1 DEF IsTerminal
    <3>2. CASE aw[a].woke /\ status' = "queued"
      <4>1. ~IsTerminal /\ ~IsTerminal'
        BY <2>1, <3>2 DEF WokenRunWaits, IsTerminal, TerminalStatuses
      <4>2. QED
        BY <4>1 DEF IsTerminal
    <3>3. QED
      BY <2>7, <3>1, <3>2
  <2>9. QED
    BY <1>1, <2>6, <2>7, <2>8 DEF Goes, RowsGoOn, Steps
<1>7. CASE RetryActivity(a)
  <2>1. /\ aw[a].key \in Keys /\ HoldsTask(a) /\ MayRetry(a) /\ RunUnlocked
        /\ tasks' = TaskSetTo(aw[a].key, "queued")
        /\ history' = Append(history, NewEvent("activity.retry_scheduled", aw[a].key, 0))
        /\ UNCHANGED status
    BY <1>7 DEF RetryActivity, FinishingHoldsTask, runVars
  <2>2. ~Replaying'
    BY <1>1, <2>1, ReplayingIsLocked
  <2>3. QED
    BY <1>1, <2>1, <2>2 DEF Retried, Steps
<1>8. CASE ReleaseTasks(a)
  <2>1. \A k \in Keys :
           \/ tasks'[k] = tasks[k]
           \/ /\ tasks[k].status = "claimed"
              /\ tasks'[k] = [tasks[k] EXCEPT !.status = "queued", !.claimedBy = None, !.leaseLive = FALSE]
    BY <1>8 DEF ReleaseTasks
  <2>2. \A k \in Keys : TaskGoesOn(k)
    BY <1>3, <2>1, ZenonT(60) DEF TaskGoesOn, OpenTask, Task
  <2>3. QED
    BY <1>2, <1>8, <2>2 DEF ReleaseTasks, runVars
<1>9. QED
  BY <1>4, <1>5, <1>6, <1>7, <1>8 DEF Execution

LEMMA EnvironmentSteps ==
  ASSUME Types, Locking, WorkerFailure \/ LeaseExpiry \/ LateLeaseExpiry \/ Timers \/ Control
  PROVE  Steps
<1>0. TypeOK
  BY TypesAreTypeOK
<1>1. RunUnlocked => ~Replaying
  BY ReplayingIsLocked
<1>2. ASSUME UNCHANGED <<status, history, armed, inbox, runner, wf>>, \A k \in Keys : TaskGoesOn(k)
      PROVE  Steps
  BY <1>2 DEF Goes, RowsGoOn, Steps, Replaying, IsTerminal
<1>3. ASSUME WakeIfWaiting
      PROVE  IsTerminal' = IsTerminal /\ (IsTerminal => status' = status)
  <2>1. UNCHANGED status \/ (status = "waiting" /\ status' = "queued")
    BY <1>3 DEF WakeIfWaiting, MoveRun, runVars
  <2>2. CASE UNCHANGED status
    BY <2>2 DEF IsTerminal
  <2>3. CASE status = "waiting" /\ status' = "queued"
    <3>1. ~IsTerminal /\ ~IsTerminal'
      BY <2>3 DEF IsTerminal, TerminalStatuses
    <3>2. QED
      BY <3>1 DEF IsTerminal
  <2>4. QED
    BY <2>1, <2>2, <2>3
<1>4. CASE WorkerFailure
  <2>1. ASSUME NEW w \in Workers, NEW pc \in {"stopping", "down"}, LeaveWorker(w, pc)
        PROVE  Steps
    <3>1. /\ UNCHANGED <<status, history, inbox, tasks, armed>>
          /\ wf' = [wf EXCEPT ![w] = [pc |-> pc, horizon |-> 0]]
      BY <2>1 DEF LeaveWorker, runVars, workVars
    <3>2. \A v \in Workers : wf'[v].pc = "active" => v # w /\ wf[v].pc = "active"
      BY <3>1, WorkerMoves
    <3>3. Replaying' => Replaying /\ runner' = runner
      <4>1. Replaying' => Replaying /\ lock # w
        BY <3>2, LockExcludes DEF Replaying
      <4>2. QED
        BY <2>1, <4>1 DEF LeaveWorker
    <3>4. IsTerminal' = IsTerminal
      BY <3>1 DEF IsTerminal
    <3>5. QED
      BY <3>1, <3>3, <3>4, TasksGoOn DEF Goes, RowsGoOn, Steps
  <2>2. ASSUME NEW a \in ActivityWorkers, NEW pc, LeaveActivityWorker(a, pc)
        PROVE  Steps
    BY <1>2, <2>2, TasksGoOn DEF LeaveActivityWorker, runVars, workVars
  <2>3. QED
    BY <1>4, <2>1, <2>2 DEF WorkerFailure, CrashWorker, StopWorker, CrashActivityWorker, StopActivityWorker
<1>5. CASE LeaseExpiry \/ LateLeaseExpiry
  <2>1. CASE ExpireRunLease \/ ExpireRunLeaseLate
    BY <1>2, <2>1, TasksGoOn DEF ExpireRunLease, ExpireRunLeaseLate, runVars, workVars
  <2>2. ASSUME NEW k \in Keys, LoseTaskLease(k)
        PROVE  Steps
    <3>1. tasks[k] \in Task /\ tasks[k].status = "claimed" /\ tasks' = [tasks EXCEPT ![k] = [tasks[k] EXCEPT !.leaseLive = FALSE]]
      BY <1>0, <2>2 DEF LoseTaskLease, TypeOK
    <3>2. /\ tasks'[k].status = "claimed" /\ tasks'[k].attempts = tasks[k].attempts
          /\ \A j \in Keys \ {k} : tasks'[j] = tasks[j]
      BY <1>0, <3>1 DEF TypeOK, Task
    <3>3. \A j \in Keys : TaskGoesOn(j)
      BY <3>1, <3>2 DEF TaskGoesOn, OpenTask
    <3>4. QED
      BY <1>2, <2>2, <3>3 DEF LoseTaskLease, runVars
  <2>3. QED
    BY <1>5, <2>1, <2>2 DEF LeaseExpiry, LateLeaseExpiry, ExpireTaskLease, ExpireTaskLeaseLate
<1>6. ASSUME UNCHANGED <<history, tasks, runner, wf>>, IsTerminal' = IsTerminal,
             IsTerminal => status' = status, RowsGoOn
      PROVE  Steps
  BY <1>6, TasksGoOn DEF Goes, Steps, Replaying
<1>7. CASE Timers
  <2>1. ASSUME NEW k \in Keys, TimerDue(k)
        PROVE  Steps
    <3>1. /\ k \in armed /\ armed' = armed \ {k} /\ inbox' = Append(inbox, TimerRow(k))
          /\ UNCHANGED <<history, tasks, runner, wf, status>>
      BY <2>1 DEF TimerDue, runVars, TimerRow
    <3>2. RowsGoOn
      BY <3>1 DEF RowsGoOn
    <3>3. IsTerminal' = IsTerminal
      BY <3>1 DEF IsTerminal
    <3>4. QED
      BY <1>6, <3>1, <3>2, <3>3
  <2>2. CASE ListDueTimers
    BY <1>2, <2>2, TasksGoOn DEF ListDueTimers, runVars, workVars
  <2>3. CASE WakeDueRun
    <3>1. UNCHANGED <<history, inbox, armed, tasks, runner, wf>> /\ WakeIfWaiting
      BY <2>3 DEF WakeDueRun, workVars
    <3>2. QED
      BY <1>3, <1>6, <3>1 DEF RowsGoOn
  <2>4. QED
    BY <1>7, <2>1, <2>2, <2>3 DEF Timers
<1>8. ASSUME NEW kind \in {"signal", "cancel"}, NEW key \in Keys \cup {None}, Deliver(kind, key),
             UNCHANGED <<history, tasks, armed, runner, wf>>, WakeIfWaiting, ~IsTerminal
      PROVE  Steps
  <2> DEFINE item == [kind |-> kind, key |-> key, status |-> "pending"]
  <2>1. item \in InboxItem /\ item.kind = kind /\ inbox' = Append(inbox, item)
    BY <1>8 DEF InboxItem, Deliver
  <2> HIDE DEF item
  <2>2. RowsGoOn
    BY <1>8, <2>1 DEF RowsGoOn
  <2>3. QED
    BY <1>3, <1>6, <1>8, <2>2
<1>9. CASE SignalRun
  <2>1. PICK name \in SignalNames : Deliver("signal", name)
    BY <1>9 DEF SignalRun
  <2>2. UNCHANGED <<history, tasks, armed, runner, wf>> /\ WakeIfWaiting /\ ~IsTerminal
    BY <1>9 DEF SignalRun, Controlling
  <2>3. QED
    BY <1>8, <2>1, <2>2, SignalNamesAreKeys
<1>10. CASE CancelRun
  <2>1. UNCHANGED <<history, tasks, armed, runner, wf>> /\ WakeIfWaiting /\ ~IsTerminal
    BY <1>10 DEF CancelRun, Controlling
  <2>2. CASE UNCHANGED inbox
    BY <1>3, <1>6, <2>1, <2>2 DEF RowsGoOn
  <2>3. CASE Deliver("cancel", None)
    BY <1>8, <2>1, <2>3
  <2>4. QED
    BY <1>10, <2>2, <2>3 DEF CancelRun
<1>11. CASE SuspendRun \/ ResumeRun
  <2>1. \E type \in LifecycleEvents : history' = Append(history, NewEvent(type, None, 0))
    BY <1>11 DEF SuspendRun, ResumeRun, LifecycleEvents
  <2>2. ~IsTerminal /\ ~IsTerminal'
    BY <1>11 DEF SuspendRun, ResumeRun, TransitionRunToSuspended, TransitionRunToQueuedFromSuspended,
       TransitionRunToQueuedFromQuarantined, MoveRun, IsTerminal, TerminalStatuses
  <2>3. ~Replaying' /\ UNCHANGED <<tasks, armed, inbox>>
    BY <1>1, <1>11 DEF SuspendRun, ResumeRun, Controlling, Replaying, workVars
  <2>4. QED
    BY <2>1, <2>2, <2>3 DEF Interrupted, Steps
<1>12. CASE TerminateRun
  <2>1. /\ history' = Append(history, NewEvent("workflow.terminated", None, 0))
        /\ tasks' = CancelledTasks /\ armed' = {} /\ inbox' = DiscardPending(inbox)
        /\ ~IsTerminal /\ status' = "terminated"
    BY <1>12 DEF TerminateRun, TransitionRunToTerminated, MoveRun
  <2>2. IsTerminal' /\ StatusEvent[status'] = "workflow.terminated"
    BY <2>1 DEF IsTerminal, TerminalStatuses, StatusEvent
  <2>3. ~Replaying'
    BY <1>1, <1>12 DEF TerminateRun, Controlling, Replaying
  <2>4. QED
    BY <2>1, <2>2, <2>3 DEF Stopped, Steps
<1>13. QED
  BY <1>4, <1>5, <1>7, <1>9, <1>10, <1>11, <1>12 DEF Control

LEMMA FinishingGoesOn ==
  ASSUME Types, FinishingDecides, [Next]_vars
  PROVE  FinishingDecides'
<1>0. TypeOK
  BY TypesAreTypeOK
<1>1. ASSUME UNCHANGED aw
      PROVE  FinishingDecides'
  BY <1>1 DEF FinishingDecides
<1>2. ASSUME NEW a \in ActivityWorkers, NEW p, aw' = [aw EXCEPT ![a] = p],
             p.pc = "finishing" => p.outcome \in {"completed", "failed"}
      PROVE  FinishingDecides'
  BY <1>0, <1>2 DEF FinishingDecides, TypeOK
<1>3. \A pc \in {"idle", "executing", "stopping", "down"} : \A k :
         [IdleActivityWorker EXCEPT !.pc = pc, !.key = k].pc = pc /\ [IdleActivityWorker EXCEPT !.pc = pc].pc = pc
  BY DEF IdleActivityWorker
<1>4. ASSUME NEW a \in ActivityWorkers, Execution(a)
      PROVE  FinishingDecides'
  <2>1. aw[a] \in ActivityWorker /\ IdleActivityWorker.pc = "idle"
    BY <1>0 DEF TypeOK, IdleActivityWorker
  <2>2. CASE ClaimActivityTask(a)
    <3>1. PICK k \in Keys : aw' = [aw EXCEPT ![a] = [IdleActivityWorker EXCEPT !.pc = "executing", !.key = k]]
      BY <2>2 DEF ClaimActivityTask
    <3>2. QED
      BY <1>2, <1>3, <3>1
  <2>3. CASE StartOutcome(a)
    <3>1. PICK outcome \in {"completed", "failed"} :
            aw' = [aw EXCEPT ![a].pc = "finishing", ![a].outcome = outcome, ![a].woke = (status = "waiting")]
      BY <2>3 DEF StartOutcome
    <3> DEFINE p == [aw[a] EXCEPT !.pc = "finishing", !.outcome = outcome, !.woke = (status = "waiting")]
    <3>2. aw' = [aw EXCEPT ![a] = p]
      BY <3>1
    <3>3. p.outcome = outcome
      BY <2>1 DEF ActivityWorker
    <3> HIDE DEF p
    <3>4. QED
      BY <1>2, <3>2, <3>3
  <2>4. CASE CommitOutcome(a) \/ RetryActivity(a) \/ DropStaleOutcome(a)
    BY <1>2, <2>1, <2>4 DEF CommitOutcome, RetryActivity, DropStaleOutcome
  <2>5. CASE ReleaseTasks(a)
    <3>1. aw' = [aw EXCEPT ![a] = [aw[a] EXCEPT !.pc = "down"]]
      BY <2>5 DEF ReleaseTasks
    <3>2. [aw[a] EXCEPT !.pc = "down"].pc = "down"
      BY <2>1 DEF ActivityWorker
    <3>3. QED
      BY <1>2, <3>1, <3>2
  <2>6. QED
    BY <1>4, <2>2, <2>3, <2>4, <2>5 DEF Execution
<1>5. CASE WorkerFailure
  <2>1. ASSUME NEW a \in ActivityWorkers, NEW pc \in {"stopping", "down"}, LeaveActivityWorker(a, pc)
        PROVE  FinishingDecides'
    BY <1>2, <1>3, <2>1 DEF LeaveActivityWorker
  <2>2. QED
    BY <1>1, <1>5, <2>1 DEF WorkerFailure, CrashWorker, StopWorker, LeaveWorker, CrashActivityWorker, StopActivityWorker
<1>6. QED
  BY <1>1, <1>4, <1>5, ZenonT(60) DEF Next, Activation, ClaimNextRun, BeginTx, StartReplay, DropStaleClaim, FailUnregistered, Replay,
     CommitWaiting, CommitEnded, CommitQuarantined, CommitCancelled, Committing, ReleaseRuns,
     LeaseExpiry, LateLeaseExpiry, ExpireRunLease, ExpireRunLeaseLate, ExpireTaskLease,
     ExpireTaskLeaseLate, LoseTaskLease, Timers, TimerDue, ListDueTimers, WakeDueRun,
     Control, SignalRun, CancelRun, SuspendRun, ResumeRun, TerminateRun, Controlling, vars

LEMMA StepsClassified ==
  ASSUME Types, Locking, WokenRunWaits, FinishingHoldsTask, FinishingDecides, [Next]_vars
  PROVE  Steps
<1>1. CASE UNCHANGED vars
  BY <1>1, TasksGoOn DEF vars, workVars, runVars, Goes, RowsGoOn, Steps, Replaying, IsTerminal
<1>2. CASE Next
  BY <1>2, ActivationSteps, ExecutionSteps, EnvironmentSteps DEF Next
<1>3. QED
  BY <1>1, <1>2

(***************************************************************************)
(* Work that is scheduled, and the events until it has ended.              *)
(***************************************************************************)

Opens(event) == event.type \in {"activity.scheduled", "timer.scheduled"}
IsRetry(event) == event.type = "activity.retry_scheduled"
IsOutcome(event) == event.type \in OutcomeEvents
IsCancel(event) == event.type = "cancel.requested"

\* The work that `opening' has scheduled ends with `event' ...
Completes(opening, event) ==
    /\ event.key = opening.key
    /\ \/ opening.type = "activity.scheduled" /\ IsOutcome(event)
       \/ opening.type = "timer.scheduled" /\ event.type = "timer.fired"

\* ... or goes on.
Passes(opening, event) ==
    \/ event.type \in LifecycleEvents
    \/ IsCancel(event) /\ event.key = None
    \/ IsRetry(event) /\ opening.type = "activity.scheduled" /\ event.key = opening.key

\* Nothing but such events after n and before p, and no cancellation after a retry.
NoRetry(events, n, p) == \A m \in n+1..p-1 : ~IsRetry(events[m])
GoesOn(events, n, p) ==
    \A m \in n+1..p-1 :
       Passes(events[n], events[m]) /\ (IsCancel(events[m]) => NoRetry(events, n, m))

StillOpen(events, n) == GoesOn(events, n, Len(events) + 1)
ClosedBy(events, n, last) ==
    \E p \in n+1..last : Completes(events[n], events[p]) /\ GoesOn(events, n, p)

\* Whatever is scheduled is awaited before anything else happens.
Awaited(events) ==
    \A n \in 1..Len(events) : Opens(events[n]) => StillOpen(events, n) \/ ClosedBy(events, n, Len(events))

AllClosed(events, last) ==
    \A n \in 1..last : Opens(events[n]) => ClosedBy(events, n, last)

\* The work scheduled by event n goes on at `last', where all other work has ended.
Awaits(events, n, last) ==
    /\ n \in 1..last
    /\ Opens(events[n]) /\ GoesOn(events, n, last + 1)
    /\ \A m \in 1..last : Opens(events[m]) => m = n \/ ClosedBy(events, m, last)

LEMMA EventKinds ==
  ASSUME NEW opening, NEW event
  PROVE  /\ Completes(opening, event) => ~Passes(opening, event) /\ ~Opens(event)
         /\ Passes(opening, event) => ~Opens(event)
BY DEF Completes, Passes, Opens, IsOutcome, IsRetry, IsCancel, OutcomeEvents, LifecycleEvents

\* Sequences with the same beginning.
Agree(former, latter, last) == \A n \in 1..last : former[n] = latter[n]

LEMMA AgreeingGoesOn ==
  ASSUME NEW former, NEW latter, NEW last \in Nat, Agree(former, latter, last)
  PROVE  /\ \A n \in 1..last, p \in 1..last+1 : GoesOn(former, n, p) => GoesOn(latter, n, p)
         /\ \A n \in 1..last, upto \in 0..last : ClosedBy(former, n, upto) => ClosedBy(latter, n, upto)
         /\ \A upto \in 0..last : AllClosed(former, upto) => AllClosed(latter, upto)
         /\ \A n \in 1..last, upto \in 0..last : Awaits(former, n, upto) => Awaits(latter, n, upto)
<1>1. ASSUME NEW n \in 1..last, NEW p \in 1..last+1, GoesOn(former, n, p)
      PROVE  GoesOn(latter, n, p)
  <2> SUFFICES ASSUME NEW m \in n+1..p-1
               PROVE  Passes(latter[n], latter[m]) /\ (IsCancel(latter[m]) => NoRetry(latter, n, m))
    BY DEF GoesOn
  <2>1. former[n] = latter[n] /\ former[m] = latter[m]
    BY DEF Agree
  <2>2. \A l \in n+1..m-1 : former[l] = latter[l]
    BY DEF Agree
  <2>3. NoRetry(former, n, m) => NoRetry(latter, n, m)
    BY <2>2 DEF NoRetry
  <2>4. QED
    BY <1>1, <2>1, <2>3 DEF GoesOn
<1>2. ASSUME NEW n \in 1..last, NEW upto \in 0..last, ClosedBy(former, n, upto)
      PROVE  ClosedBy(latter, n, upto)
  <2>1. PICK p \in n+1..upto : Completes(former[n], former[p]) /\ GoesOn(former, n, p)
    BY <1>2 DEF ClosedBy
  <2>2. former[n] = latter[n] /\ former[p] = latter[p] /\ p \in 1..last+1
    BY DEF Agree
  <2>3. QED
    BY <1>1, <2>1, <2>2 DEF ClosedBy
<1>3. ASSUME NEW upto \in 0..last, NEW m \in 1..upto, Opens(latter[m])
      PROVE  Opens(former[m]) /\ m \in 1..last
  BY <1>3 DEF Agree
<1>4. \A upto \in 0..last : AllClosed(former, upto) => AllClosed(latter, upto)
  BY <1>2, <1>3 DEF AllClosed
<1>5. ASSUME NEW n \in 1..last, NEW upto \in 0..last, Awaits(former, n, upto)
      PROVE  Awaits(latter, n, upto)
  <2>1. n \in 1..upto /\ Opens(former[n]) /\ GoesOn(former, n, upto + 1)
    BY <1>5 DEF Awaits
  <2>2. Opens(latter[n]) /\ GoesOn(latter, n, upto + 1)
    BY <1>1, <2>1 DEF Agree
  <2>3. \A m \in 1..upto : Opens(latter[m]) => m = n \/ ClosedBy(latter, m, upto)
    BY <1>2, <1>3, <1>5 DEF Awaits
  <2>4. QED
    BY <2>1, <2>2, <2>3 DEF Awaits
<1>6. QED
  BY <1>1, <1>2, <1>4, <1>5

\* What has ended has not gone on, and what has gone on has not ended.
LEMMA EndedOrOpen ==
  ASSUME NEW events, NEW n \in Nat, NEW last \in Nat, GoesOn(events, n, last + 1)
  PROVE  /\ ~ClosedBy(events, n, last)
         /\ \A m \in n+1..last : ~Opens(events[m])
BY EventKinds DEF ClosedBy, GoesOn

LEMMA ClosedStays ==
  ASSUME NEW events, NEW last \in Nat, NEW later \in Nat, last <= later, NEW n \in Nat, ClosedBy(events, n, last)
  PROVE  ClosedBy(events, n, later)
<1>1. PICK p \in n+1..last : Completes(events[n], events[p]) /\ GoesOn(events, n, p)
  BY DEF ClosedBy
<1>2. p \in n+1..later
  OBVIOUS
<1>3. QED
  BY <1>1, <1>2 DEF ClosedBy

LEMMA NoRetryUpTo ==
  ASSUME NEW events, NEW n \in Nat, NEW last \in Nat
  PROVE  NoRetry(events, n, last + 1) <=> \A m \in n+1..last : ~IsRetry(events[m])
<1>1. n+1..(last+1)-1 = n+1..last
  OBVIOUS
<1>2. QED
  BY <1>1 DEF NoRetry

\* The function goes on from `last' to the next event of a history it has to await.
LEMMA NextIsAwaited ==
  ASSUME NEW events \in Seq(Event), Awaited(events), NEW last \in Nat, last < Len(events)
  PROVE  /\ AllClosed(events, last) =>
              IF Opens(events[last + 1]) THEN Awaits(events, last + 1, last + 1)
              ELSE AllClosed(events, last + 1)
         /\ \A n \in 1..last : Awaits(events, n, last) =>
              \/ Completes(events[n], events[last + 1]) /\ AllClosed(events, last + 1)
              \/ /\ Passes(events[n], events[last + 1]) /\ Awaits(events, n, last + 1)
                 /\ IsCancel(events[last + 1]) => NoRetry(events, n, last + 1)
<1> DEFINE next == last + 1
<1>0. Len(events) \in Nat /\ next \in 1..Len(events)
  OBVIOUS
<1>1. \A m \in 1..last : ClosedBy(events, m, last) => ClosedBy(events, m, next)
  BY ClosedStays
<1>2. \A m \in 1..next : m \in 1..last \/ m = next
  OBVIOUS
<1>3. ASSUME AllClosed(events, last)
      PROVE  IF Opens(events[next]) THEN Awaits(events, next, next) ELSE AllClosed(events, next)
  <2>1. CASE ~Opens(events[next])
    BY <1>1, <1>2, <1>3, <2>1 DEF AllClosed
  <2>2. CASE Opens(events[next])
    <3>1. GoesOn(events, next, next + 1)
      BY DEF GoesOn
    <3>2. \A m \in 1..next : Opens(events[m]) => m = next \/ ClosedBy(events, m, next)
      BY <1>1, <1>2, <1>3 DEF AllClosed
    <3>3. next \in 1..next
      OBVIOUS
    <3>4. QED
      BY <2>2, <3>1, <3>2, <3>3 DEF Awaits
  <2>3. QED
    BY <2>1, <2>2
<1>4. ASSUME NEW n \in 1..last, Awaits(events, n, last)
      PROVE  \/ Completes(events[n], events[next]) /\ AllClosed(events, next)
             \/ /\ Passes(events[n], events[next]) /\ Awaits(events, n, next)
                /\ IsCancel(events[next]) => NoRetry(events, n, next)
  <2>1. Opens(events[n]) /\ GoesOn(events, n, last + 1) /\ n \in 1..Len(events)
    BY <1>4 DEF Awaits
  <2>2. \A m \in 1..last : Opens(events[m]) => m = n \/ ClosedBy(events, m, next)
    BY <1>1, <1>4 DEF Awaits
  <2>3. CASE Completes(events[n], events[next])
    <3>1. ~Opens(events[next])
      BY <2>3, EventKinds
    <3>2. next \in n+1..next
      OBVIOUS
    <3>3. ClosedBy(events, n, next)
      BY <2>1, <2>3, <3>2 DEF ClosedBy
    <3>4. QED
      BY <1>2, <2>2, <2>3, <3>1, <3>3 DEF AllClosed
  <2>4. CASE ~Completes(events[n], events[next])
    <3>1. GoesOn(events, n, next + 1)
      <4>1. CASE StillOpen(events, n)
        BY <1>0, <4>1 DEF StillOpen, GoesOn
      <4>2. CASE ClosedBy(events, n, Len(events))
        <5>1. PICK p \in n+1..Len(events) : Completes(events[n], events[p]) /\ GoesOn(events, n, p)
          BY <4>2 DEF ClosedBy
        <5>2. ~(p \in n+1..last)
          BY <2>1, <5>1, EventKinds DEF GoesOn
        <5>3. p # next
          BY <2>4, <5>1
        <5>4. next + 1 <= p
          BY <5>2, <5>3
        <5>5. QED
          BY <5>1, <5>4 DEF GoesOn
      <4>3. QED
        BY <2>1, <4>1, <4>2 DEF Awaited
    <3>2. Passes(events[n], events[next]) /\ (IsCancel(events[next]) => NoRetry(events, n, next))
      BY <3>1 DEF GoesOn
    <3>3. ~Opens(events[next])
      BY <3>2, EventKinds
    <3>4. Awaits(events, n, next)
      BY <1>2, <2>1, <2>2, <3>1, <3>3 DEF Awaits
    <3>5. QED
      BY <3>2, <3>4
  <2>5. QED
    BY <2>3, <2>4
<1>5. QED
  BY <1>3, <1>4

LEMMA AppendedEvents ==
  ASSUME NEW events \in Seq(Event), NEW event \in Event
  PROVE  /\ Append(events, event) \in Seq(Event) /\ Len(Append(events, event)) = Len(events) + 1
         /\ Append(events, event)[Len(events) + 1] = event
         /\ Agree(events, Append(events, event), Len(events))
         /\ Agree(Append(events, event), events, Len(events))
BY DEF Agree

\* An event is appended by which the work that goes on ends or goes on.
LEMMA AppendAwaited ==
  ASSUME NEW events \in Seq(Event), NEW event \in Event, Awaited(events),
         \A n \in 1..Len(events) : Opens(events[n]) /\ StillOpen(events, n) =>
            \/ Completes(events[n], event)
            \/ Passes(events[n], event) /\ (IsCancel(event) => NoRetry(events, n, Len(events) + 1))
  PROVE  Awaited(Append(events, event))
<1> DEFINE last == Len(events)
           later == Append(events, event)
<1>0. /\ later \in Seq(Event) /\ Len(later) = last + 1 /\ later[last + 1] = event /\ last \in Nat
      /\ Agree(events, later, last)
  BY AppendedEvents
<1> SUFFICES Awaited(later)
  OBVIOUS
<1> HIDE DEF later
<1> SUFFICES ASSUME NEW n \in 1..last+1, Opens(later[n])
             PROVE  StillOpen(later, n) \/ ClosedBy(later, n, last + 1)
  BY <1>0 DEF Awaited
<1>1. CASE n = last + 1
  BY <1>0, <1>1 DEF StillOpen, GoesOn
<1>2. CASE n \in 1..last
  <2>1. later[n] = events[n] /\ Opens(events[n])
    BY <1>0, <1>2 DEF Agree
  <2>2. CASE ClosedBy(events, n, last)
    <3>1. ClosedBy(later, n, last)
      BY <1>0, <1>2, <2>2, AgreeingGoesOn
    <3>2. QED
      BY <1>0, <3>1, ClosedStays
  <2>3. CASE StillOpen(events, n)
    <3>1. GoesOn(later, n, last + 1)
      BY <1>0, <1>2, <2>3, AgreeingGoesOn DEF StillOpen
    <3>2. CASE Completes(events[n], event)
      BY <1>0, <1>2, <2>1, <3>1, <3>2 DEF ClosedBy
    <3>3. CASE Passes(events[n], event) /\ (IsCancel(event) => NoRetry(events, n, last + 1))
      <4>1. NoRetry(events, n, last + 1) => NoRetry(later, n, last + 1)
        BY <1>0 DEF NoRetry, Agree
      <4>2. \A m \in n+1..last+1 : m \in n+1..last \/ m = last + 1
        OBVIOUS
      <4>3. \A m \in n+1..last+1 : Passes(later[n], later[m]) /\ (IsCancel(later[m]) => NoRetry(later, n, m))
        BY <1>0, <2>1, <3>1, <3>3, <4>1, <4>2 DEF GoesOn
      <4>4. QED
        BY <1>0, <4>3 DEF StillOpen, GoesOn
    <3>4. QED
      BY <1>2, <2>1, <2>3, <3>2, <3>3
  <2>4. QED
    BY <1>2, <2>1, <2>2, <2>3 DEF Awaited
<1>3. QED
  BY <1>1, <1>2

(***************************************************************************)
(* The steps of a replay, as far as they concern where the function has    *)
(* come, what it writes and what it decides.                               *)
(***************************************************************************)

Track(r) == <<r.program, r.log, r.outcomes>>
Place(r) == <<r.cursor, r.queued>>
Choice(r) == <<r.decision, r.newTask, r.newTimer>>
Point(r) == <<r.pc, r.phase>>

ScheduleOf(op) == IF op = "timer" THEN "timer.scheduled" ELSE "activity.scheduled"

\* The next event of the log is read, or an event is written past its end.
ReadsOn(r, event) == ~AtEnd /\ event = Peek /\ Place(r) = <<runner.cursor + 1, runner.queued>>
WritesOn(r, event) == event \in Event /\ Place(r) = <<runner.cursor, Append(runner.queued, event)>>
Meets(r, event) == ReadsOn(r, event) \/ (AtEnd /\ WritesOn(r, event))

Passing(r) ==
    \E event \in Event :
       /\ Meets(r, event) /\ Choice(r) = Choice(runner) /\ Point(r) = Point(runner)
       /\ runner.phase # "decided"
       /\ \/ ~AtEnd /\ event.type \in LifecycleEvents
          \/ IsCancel(event) /\ event.key = None /\ Advancing

Starting(r) ==
    /\ ReadsOn(r, Peek) /\ Choice(r) = Choice(runner)
    /\ runner.phase = "call" /\ r.phase = "scheduled" /\ r.pc = runner.pc
    /\ Called /\ Call.op \in {"activity", "timer"}
    /\ Peek.type = ScheduleOf(Call.op) /\ Peek.key = Call.key

Retrying(r) ==
    /\ ReadsOn(r, Peek) /\ Choice(r) = Choice(runner)
    /\ runner.phase \in {"scheduled", "outcome"} /\ r.phase = "outcome" /\ r.pc = runner.pc
    /\ Call.op = "activity" /\ IsRetry(Peek) /\ Peek.key = Call.key

\* The next event is not one that the awaited call completes with or ignores.
NothingAwaited ==
    /\ Settled
    /\ Call.op = "activity" => NoRecordedOutcome
    /\ Call.op = "timer" => ~Next1("timer.fired", Call.key)

EndsCall(event) ==
    /\ event.key = Call.key
    /\ \/ Call.op = "activity" /\ IsOutcome(event)
       \/ Call.op = "timer" /\ event.type = "timer.fired"

Ending(r) ==
    \E event \in Event :
       /\ EndsCall(event) /\ Choice(r) = Choice(runner)
       /\ runner.phase \in {"scheduled", "outcome"} /\ r.phase \in {"call", "finish"}
       /\ \/ ReadsOn(r, event)
          \/ /\ WritesOn(r, event) /\ NothingAwaited
             /\ Call.op = "activity" =>
                  /\ runner.outcomes[Call.key] \in {"completed", "failed"}
                  /\ event.type = OutcomeEvent[runner.outcomes[Call.key]]

Noting(r) ==
    \E event \in Event :
       /\ Meets(r, event) /\ Choice(r) = Choice(runner)
       /\ runner.phase = "call" /\ r.phase = "call"
       /\ event.type \in {"signal.received", "marker.recorded"}

Returning(r) ==
    /\ Place(r) = Place(runner) /\ Choice(r) = Choice(runner)
    /\ runner.phase = "call" /\ r.phase \in {"call", "finish"}

Blocking(r) ==
    /\ Place(r) = Place(runner) /\ Choice(r) = <<"waiting", runner.newTask, runner.newTimer>>
    /\ runner.phase # "decided" /\ r.phase = "decided"

Scheduling(r) ==
    /\ AtEnd /\ runner.phase = "call" /\ r.phase = "decided"
    /\ Called /\ Call.op \in {"activity", "timer"}
    /\ \E event \in Event :
         /\ WritesOn(r, event)
         /\ event.type = ScheduleOf(Call.op) /\ event.key = Call.key
    /\ Choice(r) = IF Call.op = "activity" THEN <<"waiting", Call.key, runner.newTimer>>
                   ELSE <<"waiting", runner.newTask, Call.key>>

Finishing(r) ==
    /\ runner.phase = "finish" /\ r.phase = "decided"
    /\ Choice(r) = <<runner.returned, runner.newTask, runner.newTimer>>
    /\ \/ AtEnd /\ WritesOn(r, FinalEvent)
       \/ ~AtEnd /\ Place(r) = Place(runner) /\ Peek.type \in EndingEvents

Leaving(r) ==
    /\ Place(r) = <<runner.cursor, <<>>>> /\ Choice(r) = <<"quarantined", None, None>>
    /\ runner.phase # "decided" /\ r.phase = "decided"

Moves(r) ==
    \/ Passing(r) \/ Starting(r) \/ Retrying(r) \/ Ending(r) \/ Noting(r)
    \/ Returning(r) \/ Blocking(r) \/ Scheduling(r) \/ Finishing(r) \/ Leaving(r)

LEMMA FieldsOf ==
  ASSUME NEW r \in Runner
  PROVE  /\ /\ Track(ReturnTo(r)) = Track(r) /\ Place(ReturnTo(r)) = Place(r)
            /\ Choice(ReturnTo(r)) = Choice(r) /\ ReturnTo(r).phase = "call"
         /\ /\ Track(FailCall(r)) = Track(r) /\ Place(FailCall(r)) = Place(r)
            /\ Choice(FailCall(r)) = Choice(r) /\ FailCall(r).phase \in {"call", "finish"}
         /\ \A event :
            /\ Track(Queue(r, event)) = Track(r) /\ Place(Queue(r, event)) = <<r.cursor, Append(r.queued, event)>>
            /\ Choice(Queue(r, event)) = Choice(r) /\ Point(Queue(r, event)) = Point(r)
<1> USE DEF Track, Place, Choice, Point
<1>1. /\ Track(ReturnTo(r)) = Track(r) /\ Place(ReturnTo(r)) = Place(r)
      /\ Choice(ReturnTo(r)) = Choice(r) /\ ReturnTo(r).phase = "call"
  BY DEF ReturnTo, Runner
<1>2. /\ Track(FailCall(r)) = Track(r) /\ Place(FailCall(r)) = Place(r)
      /\ Choice(FailCall(r)) = Choice(r) /\ FailCall(r).phase \in {"call", "finish"}
  BY <1>1 DEF FailCall, Runner
<1>3. \A event :
      /\ Track(Queue(r, event)) = Track(r) /\ Place(Queue(r, event)) = <<r.cursor, Append(r.queued, event)>>
      /\ Choice(Queue(r, event)) = Choice(r) /\ Point(Queue(r, event)) = Point(r)
  BY DEF Queue, Runner
<1>4. QED
  BY <1>1, <1>2, <1>3

LEMMA FieldsOfBlocked ==
  ASSUME NEW r \in Runner, NEW kind
  PROVE  LET s == Block(r, kind)
         IN /\ Track(s) = Track(r) /\ Place(s) = Place(r)
            /\ Choice(s) = <<"waiting", r.newTask, r.newTimer>> /\ s.phase = "decided"
BY DEF Block, Runner, Track, Place, Choice

LEMMA FieldsOfMatched ==
  ASSUME runner \in Runner, NEW phase \in Phases
  PROVE  LET s == Matched(phase)
         IN /\ s \in Runner /\ Track(s) = Track(runner) /\ Place(s) = <<runner.cursor + 1, runner.queued>>
            /\ Choice(s) = Choice(runner) /\ s.phase = phase /\ s.pc = runner.pc
<1>1. Matched(phase) \in Runner
  BY MatchedType
<1>2. QED
  BY <1>1 DEF Matched, Runner, Track, Place, Choice

LEMMA FieldsOfConsumed ==
  ASSUME NEW r \in Runner, NEW i \in r.frontier, NEW event \in Event
  PROVE  LET s == Consume(r, i, event)
         IN /\ s \in Runner /\ Track(s) = Track(r) /\ Place(s) = <<r.cursor, Append(r.queued, event)>>
            /\ Choice(s) = Choice(r) /\ Point(s) = Point(r)
<1> DEFINE q == Queue(r, event)
<1>1. /\ Track(q) = Track(r) /\ Place(q) = <<r.cursor, Append(r.queued, event)>>
      /\ Choice(q) = Choice(r) /\ Point(q) = Point(r)
  BY FieldsOf
<1>2. q \in Runner
  BY QueueType
<1> HIDE DEF q
<1>3. Consume(r, i, event) = [q EXCEPT !.frontier = q.frontier \ {i}, !.consumed = q.consumed \cup {i}]
  BY DEF Consume, q
<1>4. LET s == [q EXCEPT !.frontier = q.frontier \ {i}, !.consumed = q.consumed \cup {i}]
      IN Track(s) = Track(q) /\ Place(s) = Place(q) /\ Choice(s) = Choice(q) /\ Point(s) = Point(q)
  BY <1>2 DEF Track, Place, Choice, Point, Runner
<1>5. i \in Nat
  BY DEF Runner
<1>6. Consume(r, i, event) \in Runner
  BY <1>5, ConsumeType
<1>7. QED
  BY <1>1, <1>3, <1>4, <1>6

LEMMA PeekType ==
  ASSUME runner \in Runner, runner.cursor <= Len(runner.log), ~AtEnd
  PROVE  /\ Peek \in Event /\ runner.cursor + 1 \in 1..Len(runner.log)
         /\ Peek = runner.log[runner.cursor + 1]
<1>1. runner.log \in Seq(Event) /\ runner.cursor \in Nat /\ Len(runner.log) \in Nat
  BY DEF Runner
<1>2. runner.cursor + 1 \in 1..Len(runner.log)
  BY <1>1 DEF AtEnd
<1>3. QED
  BY <1>1, <1>2 DEF Peek

LEMMA ReplayMoves ==
  ASSUME runner \in Runner, ReplayPosition, runner.cursor <= Len(runner.log), ReplayStep
  PROVE  Track(runner') = Track(runner) /\ Moves(runner')
<1>0. /\ "call" \in Phases /\ "scheduled" \in Phases /\ "outcome" \in Phases
      /\ runner.phase # "decided"
  BY ReplayIsUndecided DEF Phases
<1>C. Called => Call \in Command /\ Call.key \in Keys \cup {None} /\ (Call.op \in {"activity", "timer"} => Call.key \in Keys)
  BY CallType DEF Command
<1>A. runner.phase \in {"scheduled", "outcome"} => Called
  BY DEF ReplayPosition, Called
<1>P. ~AtEnd => Peek \in Event
  BY PeekType
<1>N. \A type, key, item : LET event == NewEvent(type, key, item)
                           IN event.type = type /\ event.key = key /\ event.item = item
  BY DEF NewEvent
<1>1. CASE SkipLifecycleEvent \/ ConsumeRecordedCancel
  <2> DEFINE n == runner.cursor + 1
             past == [runner EXCEPT !.cursor = n]
             pastCancel == [runner EXCEPT !.cursor = n, !.cancelled = TRUE]
  <2>1. runner' \in {past, pastCancel}
    BY <1>1 DEF SkipLifecycleEvent, ConsumeRecordedCancel
  <2>2. ~AtEnd /\ (Peek.type \in LifecycleEvents \/ (IsCancel(Peek) /\ Peek.key = None /\ Advancing))
    BY <1>1 DEF SkipLifecycleEvent, ConsumeRecordedCancel, LifecycleNext, RecordedCancelNext, Next1, IsCancel
  <2> HIDE DEF n
  <2>3. \A r \in {past, pastCancel} : /\ Track(r) = Track(runner) /\ Place(r) = <<n, runner.queued>>
                                      /\ Choice(r) = Choice(runner) /\ Point(r) = Point(runner)
    BY ZenonT(60) DEF Track, Place, Choice, Point, Runner
  <2> HIDE DEF past, pastCancel
  <2>4. /\ Track(runner') = Track(runner) /\ Place(runner') = <<n, runner.queued>>
        /\ Choice(runner') = Choice(runner) /\ Point(runner') = Point(runner)
    BY <2>1, <2>3
  <2>5. Passing(runner')
    BY <1>0, <1>P, <2>2, <2>4 DEF Passing, Meets, ReadsOn, n
  <2>6. QED
    BY <2>4, <2>5 DEF Moves
<1>2. CASE ConsumeFrontierCancel
  <2> DEFINE event(i) == NewEvent("cancel.requested", None, i)
  <2>1. PICK i \in runner.frontier : runner' = [Consume(runner, i, event(i)) EXCEPT !.cancelled = TRUE]
    BY <1>2 DEF ConsumeFrontierCancel
  <2>2. event(i) \in Event
    BY EventType DEF EventTypes, Runner
  <2> DEFINE read == Consume(runner, i, event(i))
  <2>3. /\ read \in Runner /\ Track(read) = Track(runner) /\ Choice(read) = Choice(runner)
        /\ Place(read) = <<runner.cursor, Append(runner.queued, event(i))>> /\ Point(read) = Point(runner)
    BY <2>2, FieldsOfConsumed
  <2>4. AtEnd /\ Advancing
    BY <1>2 DEF ConsumeFrontierCancel, FrontierCancelNext
  <2>5. IsCancel(event(i)) /\ event(i).key = None
    BY <1>N DEF IsCancel
  <2>6. runner' = [read EXCEPT !.cancelled = TRUE]
    BY <2>1
  <2> HIDE DEF read, event
  <2>7. /\ Track(runner') = Track(read) /\ Place(runner') = Place(read)
        /\ Choice(runner') = Choice(read) /\ Point(runner') = Point(read)
    BY <2>3, <2>6 DEF Track, Place, Choice, Point, Runner
  <2>8. Passing(runner')
    BY <1>0, <2>2, <2>3, <2>4, <2>5, <2>7 DEF Passing, Meets, WritesOn
  <2>9. QED
    BY <2>3, <2>7, <2>8 DEF Moves
<1>3. CASE MatchSchedule
  <2>1. /\ runner' = Matched("scheduled") /\ ~AtEnd /\ runner.phase = "call" /\ Called
        /\ Call.op \in {"activity", "timer"} /\ Peek.type = ScheduleOf(Call.op) /\ Peek.key = Call.key
    BY <1>3 DEF MatchSchedule, Calling, Next1, ScheduleOf
  <2>2. /\ Track(runner') = Track(runner) /\ Place(runner') = <<runner.cursor + 1, runner.queued>>
        /\ Choice(runner') = Choice(runner) /\ runner'.phase = "scheduled" /\ runner'.pc = runner.pc
    BY <1>0, <2>1, FieldsOfMatched
  <2>3. QED
    BY <2>1, <2>2 DEF Moves, Starting, ReadsOn
<1>4. CASE SkipActivityRetry
  <2>1. /\ runner' = Matched("outcome") /\ ~AtEnd /\ runner.phase \in {"scheduled", "outcome"}
        /\ Call.op = "activity" /\ IsRetry(Peek) /\ Peek.key = Call.key
    BY <1>4 DEF SkipActivityRetry, AwaitingActivity, Next1, IsRetry
  <2>2. /\ Track(runner') = Track(runner) /\ Place(runner') = <<runner.cursor + 1, runner.queued>>
        /\ Choice(runner') = Choice(runner) /\ runner'.phase = "outcome" /\ runner'.pc = runner.pc
    BY <1>0, <2>1, FieldsOfMatched
  <2>3. QED
    BY <2>1, <2>2 DEF Moves, Retrying, ReadsOn
<1>5. ASSUME NEW r \in Runner, runner' \in {ReturnTo(r), FailCall(r)}
      PROVE  /\ Track(runner') = Track(r) /\ Place(runner') = Place(r)
             /\ Choice(runner') = Choice(r) /\ runner'.phase \in {"call", "finish"}
  BY <1>5, FieldsOf
<1>6. CASE MatchActivityOutcome \/ MatchTimerFired
  <2>1. /\ runner' \in {ReturnTo(Matched("call")), FailCall(Matched("call"))}
        /\ ~AtEnd /\ runner.phase \in {"scheduled", "outcome"} /\ EndsCall(Peek)
    BY <1>6 DEF MatchActivityOutcome, MatchTimerFired, AwaitingActivity, AwaitingTimer, RecordedOutcome, Next1,
       EndsCall, IsOutcome, OutcomeEvents
  <2>2. LET s == Matched("call")
        IN /\ s \in Runner /\ Track(s) = Track(runner) /\ Place(s) = <<runner.cursor + 1, runner.queued>>
           /\ Choice(s) = Choice(runner)
    BY <1>0, FieldsOfMatched
  <2>3. /\ Track(runner') = Track(runner) /\ Place(runner') = <<runner.cursor + 1, runner.queued>>
        /\ Choice(runner') = Choice(runner) /\ runner'.phase \in {"call", "finish"}
    BY <1>5, <2>1, <2>2
  <2>4. Ending(runner')
    BY <1>P, <2>1, <2>3 DEF Ending, ReadsOn
  <2>5. QED
    BY <2>3, <2>4 DEF Moves
<1>7. CASE MatchSignal \/ MatchMarker
  <2>1. /\ runner' = ReturnTo(Matched("call")) /\ ~AtEnd /\ runner.phase = "call"
        /\ Peek.type \in {"signal.received", "marker.recorded"}
    BY <1>7 DEF MatchSignal, MatchMarker, Calling, Next1
  <2>2. LET s == Matched("call")
        IN /\ s \in Runner /\ Track(s) = Track(runner) /\ Place(s) = <<runner.cursor + 1, runner.queued>>
           /\ Choice(s) = Choice(runner)
    BY <1>0, FieldsOfMatched
  <2>3. /\ Track(runner') = Track(runner) /\ Place(runner') = <<runner.cursor + 1, runner.queued>>
        /\ Choice(runner') = Choice(runner) /\ runner'.phase = "call"
    BY <2>1, <2>2, FieldsOf
  <2>4. Noting(runner')
    BY <1>P, <2>1, <2>3 DEF Noting, Meets, ReadsOn
  <2>5. QED
    BY <2>3, <2>4 DEF Moves
<1>8. ASSUME NEW event \in Event
      PROVE  LET s == Queue(runner, event)
             IN /\ s \in Runner /\ Track(s) = Track(runner) /\ Choice(s) = Choice(runner)
                /\ Place(s) = <<runner.cursor, Append(runner.queued, event)>> /\ Point(s) = Point(runner)
  BY FieldsOf, QueueType
<1>9. CASE ScheduleActivity \/ ScheduleTimer
  <2> DEFINE event == NewEvent(ScheduleOf(Call.op), Call.key, 0)
             queue == Queue(runner, event)
             blocked == Block(queue, Call.op)
  <2>1. AtEnd /\ runner.phase = "call" /\ Called /\ Call.op \in {"activity", "timer"}
    BY <1>9 DEF ScheduleActivity, ScheduleTimer, Calling
  <2>2. \/ Call.op = "activity" /\ runner' = [blocked EXCEPT !.newTask = Call.key]
        \/ Call.op = "timer" /\ runner' = [blocked EXCEPT !.newTimer = Call.key]
    BY <1>9 DEF ScheduleActivity, ScheduleTimer, Calling, ScheduleOf
  <2>3. event \in Event /\ Call.op \in WaitKinds
    BY <1>C, <2>1, EventType DEF EventTypes, WaitKinds, ScheduleOf
  <2>4. event.type = ScheduleOf(Call.op) /\ event.key = Call.key
    BY <1>N
  <2> HIDE DEF event
  <2>5. /\ queue \in Runner /\ Track(queue) = Track(runner) /\ Choice(queue) = Choice(runner)
        /\ Place(queue) = <<runner.cursor, Append(runner.queued, event)>>
    BY <1>8, <2>3
  <2> HIDE DEF queue
  <2>6. blocked \in Runner
    BY <1>C, <2>1, <2>3, <2>5, BlockType
  <2>7. /\ Track(blocked) = Track(queue) /\ Place(blocked) = Place(queue) /\ blocked.phase = "decided"
        /\ Choice(blocked) = <<"waiting", queue.newTask, queue.newTimer>>
    BY <2>5, FieldsOfBlocked DEF blocked
  <2>8. queue.newTask = runner.newTask /\ queue.newTimer = runner.newTimer
    BY <2>5 DEF Choice
  <2>9. /\ blocked.newTask = runner.newTask /\ blocked.newTimer = runner.newTimer
        /\ blocked.decision = "waiting"
    BY <2>7, <2>8 DEF Choice
  <2> HIDE DEF blocked
  <2>10. /\ Track(runner') = Track(blocked) /\ Place(runner') = Place(blocked) /\ runner'.phase = "decided"
         /\ Choice(runner') = IF Call.op = "activity" THEN <<"waiting", Call.key, runner.newTimer>>
                              ELSE <<"waiting", runner.newTask, Call.key>>
    <3>1. CASE Call.op = "activity" /\ runner' = [blocked EXCEPT !.newTask = Call.key]
      BY <2>6, <2>7, <2>9, <3>1 DEF Track, Place, Choice, Runner
    <3>2. CASE Call.op = "timer" /\ runner' = [blocked EXCEPT !.newTimer = Call.key]
      BY <2>6, <2>7, <2>9, <3>2 DEF Track, Place, Choice, Runner
    <3>3. QED
      BY <2>2, <3>1, <3>2
  <2>11. Scheduling(runner')
    BY <2>1, <2>3, <2>4, <2>5, <2>7, <2>10 DEF Scheduling, WritesOn
  <2>12. QED
    BY <2>5, <2>7, <2>10, <2>11 DEF Moves
<1>10. CASE RecordActivityOutcome
  <2> DEFINE outcome == runner.outcomes[Call.key]
             event == NewEvent(OutcomeEvent[outcome], Call.key, 0)
             queue == Queue(runner, event)
  <2>1. /\ runner.phase \in {"scheduled", "outcome"} /\ Call.op = "activity" /\ NothingAwaited
        /\ outcome \in {"completed", "failed"}
    BY <1>10 DEF RecordActivityOutcome, AwaitingActivity, NothingAwaited
  <2>2. OutcomeEvent[outcome] = IF outcome = "completed" THEN "activity.completed" ELSE "activity.failed"
    BY <2>1 DEF OutcomeEvent
  <2>3. runner' \in {ReturnTo(queue), FailCall(queue)}
    BY <1>10, <2>1, <2>2 DEF RecordActivityOutcome
  <2>4. event \in Event
    BY <1>A, <1>C, <2>1, <2>2, EventType DEF EventTypes
  <2>5. event.type = OutcomeEvent[outcome] /\ event.key = Call.key
    BY <1>N
  <2>6. IsOutcome(event)
    BY <2>2, <2>5 DEF IsOutcome, OutcomeEvents
  <2> HIDE DEF event
  <2>7. /\ queue \in Runner /\ Track(queue) = Track(runner) /\ Choice(queue) = Choice(runner)
        /\ Place(queue) = <<runner.cursor, Append(runner.queued, event)>>
    BY <1>8, <2>4
  <2> HIDE DEF queue
  <2>8. /\ Track(runner') = Track(queue) /\ Place(runner') = Place(queue)
        /\ Choice(runner') = Choice(queue) /\ runner'.phase \in {"call", "finish"}
    BY <1>5, <2>3, <2>7
  <2>9. Ending(runner')
    BY <2>1, <2>4, <2>5, <2>6, <2>7, <2>8 DEF Ending, WritesOn, EndsCall
  <2>10. QED
    BY <2>7, <2>8, <2>9 DEF Moves
<1>11. CASE AwaitActivity \/ AwaitTimer \/ AwaitSignal
  <2>1. \E kind : runner' = Block(runner, kind)
    BY <1>11 DEF AwaitActivity, AwaitTimer, AwaitSignal
  <2>2. /\ Track(runner') = Track(runner) /\ Place(runner') = Place(runner) /\ runner'.phase = "decided"
        /\ Choice(runner') = <<"waiting", runner.newTask, runner.newTimer>>
    BY <2>1, FieldsOfBlocked
  <2>3. QED
    BY <1>0, <2>2 DEF Blocking, Moves
<1>12. CASE FireTimer
  <2> DEFINE event(i) == NewEvent("timer.fired", Call.key, i)
             read(i) == Consume(runner, i, event(i))
  <2>1. PICK i \in TimerItems : runner' = ReturnTo(read(i))
    BY <1>12 DEF FireTimer
  <2>2. i \in runner.frontier /\ runner.phase \in {"scheduled", "outcome"} /\ Call.op = "timer" /\ NothingAwaited
    BY <1>12 DEF FireTimer, AwaitingTimer, TimerItems, NothingAwaited
  <2>3. event(i) \in Event
    BY <1>A, <1>C, <2>2, EventType DEF EventTypes, Runner
  <2>4. EndsCall(event(i))
    BY <1>N, <2>2 DEF EndsCall
  <2>5. /\ read(i) \in Runner /\ Track(read(i)) = Track(runner) /\ Choice(read(i)) = Choice(runner)
        /\ Place(read(i)) = <<runner.cursor, Append(runner.queued, event(i))>>
    BY <2>2, <2>3, FieldsOfConsumed
  <2> HIDE DEF read, event
  <2>6. /\ Track(runner') = Track(read(i)) /\ Place(runner') = Place(read(i))
        /\ Choice(runner') = Choice(read(i)) /\ runner'.phase \in {"call", "finish"}
    BY <1>5, <2>1, <2>5
  <2>7. Ending(runner')
    BY <2>2, <2>3, <2>4, <2>5, <2>6 DEF Ending, WritesOn
  <2>8. QED
    BY <2>5, <2>6, <2>7 DEF Moves
<1>13. ASSUME NEW event \in Event, event.type \in {"signal.received", "marker.recorded"}, AtEnd, runner.phase = "call",
              NEW r \in Runner, Track(r) = Track(runner), Choice(r) = Choice(runner),
              Place(r) = <<runner.cursor, Append(runner.queued, event)>>, runner' = ReturnTo(r)
       PROVE  Track(runner') = Track(runner) /\ Moves(runner')
  <2>1. /\ Track(runner') = Track(r) /\ Place(runner') = Place(r)
        /\ Choice(runner') = Choice(r) /\ runner'.phase = "call"
    BY <1>13, FieldsOf
  <2>2. Noting(runner')
    BY <1>13, <2>1 DEF Noting, Meets, WritesOn
  <2>3. QED
    BY <1>13, <2>1, <2>2 DEF Moves
<1>14. CASE ReceiveSignal
  <2> DEFINE event(i) == NewEvent("signal.received", Call.key, i)
             read(i) == Consume(runner, i, event(i))
  <2>1. PICK i \in SignalItems : runner' = ReturnTo(read(i))
    BY <1>14 DEF ReceiveSignal
  <2>2. i \in runner.frontier /\ runner.phase = "call" /\ Called /\ AtEnd
    BY <1>14 DEF ReceiveSignal, Calling, SignalItems
  <2>3. event(i) \in Event
    BY <1>C, <2>2, EventType DEF EventTypes, Runner
  <2>4. event(i).type \in {"signal.received", "marker.recorded"}
    BY <1>N
  <2>5. /\ read(i) \in Runner /\ Track(read(i)) = Track(runner) /\ Choice(read(i)) = Choice(runner)
        /\ Place(read(i)) = <<runner.cursor, Append(runner.queued, event(i))>>
    BY <2>2, <2>3, FieldsOfConsumed
  <2> HIDE DEF read, event
  <2>6. QED
    BY <1>13, <2>1, <2>2, <2>3, <2>4, <2>5
<1>15. CASE RecordMarker
  <2> DEFINE event == NewEvent("marker.recorded", Call.key, 0)
             queue == Queue(runner, event)
  <2>1. runner' = ReturnTo(queue) /\ runner.phase = "call" /\ Called /\ AtEnd
    BY <1>15 DEF RecordMarker, Calling
  <2>2. event \in Event
    BY <1>C, <2>1, EventType DEF EventTypes
  <2>3. event.type \in {"signal.received", "marker.recorded"}
    BY <1>N
  <2> HIDE DEF event
  <2>4. /\ queue \in Runner /\ Track(queue) = Track(runner) /\ Choice(queue) = Choice(runner)
        /\ Place(queue) = <<runner.cursor, Append(runner.queued, event)>>
    BY <1>8, <2>2
  <2> HIDE DEF queue
  <2>5. QED
    BY <1>13, <2>1, <2>2, <2>3, <2>4
<1>16. CASE CheckCancel \/ ReturnNil
  <2>1. runner.phase = "call"
    BY <1>16 DEF CheckCancel, Calling, ReturnNil
  <2>2. \/ runner' = ReturnTo(runner)
        \/ \E d : runner' = [runner EXCEPT !.phase = "finish", !.returned = d]
    BY <1>16 DEF CheckCancel, ReturnNil
  <2>3. /\ Track(runner') = Track(runner) /\ Place(runner') = Place(runner)
        /\ Choice(runner') = Choice(runner) /\ runner'.phase \in {"call", "finish"}
    <3>1. CASE runner' = ReturnTo(runner)
      BY <3>1, FieldsOf
    <3>2. CASE \E d : runner' = [runner EXCEPT !.phase = "finish", !.returned = d]
      BY <3>2 DEF Track, Place, Choice, Runner
    <3>3. QED
      BY <2>2, <3>1, <3>2
  <2>4. QED
    BY <2>1, <2>3 DEF Returning, Moves
<1>17. CASE Finish
  <2>1. runner.phase = "finish" /\ runner.returned \in {"completed", "failed", "cancelled"} /\ EndsAsRecorded
    BY <1>17 DEF Finish, ReplayPosition
  <2>2. EndingEvent[runner.returned] \in EndingEvents /\ EndingEvent[runner.returned] \in EventTypes
    BY <2>1 DEF EndingEvent, EndingEvents, EventTypes
  <2> DEFINE type == EndingEvent[runner.returned]
  <2>3. FinalEvent \in Event /\ FinalEvent.type \in EndingEvents
    <3>1. FinalEvent = NewEvent(type, None, 0) /\ type \in EndingEvents /\ type \in EventTypes
      BY <2>2 DEF FinalEvent
    <3> HIDE DEF type
    <3>2. QED
      BY <1>N, <3>1, EventType, ZenonT(60)
  <2> DEFINE events == IF AtEnd THEN Append(runner.queued, FinalEvent) ELSE runner.queued
  <2>4. runner' = [runner EXCEPT !.phase = "decided", !.decision = runner.returned, !.queued = events]
    BY <1>17 DEF Finish
  <2> HIDE DEF events
  <2>5. /\ Track(runner') = Track(runner) /\ Place(runner') = <<runner.cursor, events>>
        /\ Choice(runner') = <<runner.returned, runner.newTask, runner.newTimer>> /\ runner'.phase = "decided"
    BY <2>4 DEF Track, Place, Choice, Runner
  <2>6. AtEnd \/ Peek.type \in EndingEvents
    BY <2>1, <2>3 DEF EndsAsRecorded, Next1
  <2>7. Finishing(runner')
    BY <2>1, <2>3, <2>5, <2>6 DEF Finishing, WritesOn, events, Place
  <2>8. QED
    BY <2>5, <2>7 DEF Moves
<1>18. CASE Diverge
  <2>1. runner' = Quarantine(runner)
    BY <1>18 DEF Diverge
  <2>2. /\ Track(runner') = Track(runner) /\ Place(runner') = <<runner.cursor, <<>>>>
        /\ Choice(runner') = <<"quarantined", None, None>> /\ runner'.phase = "decided"
    BY <2>1 DEF Quarantine, Track, Place, Choice, Runner
  <2>3. QED
    BY <1>0, <2>2 DEF Leaving, Moves
<1>19. QED
  BY <1>1, <1>2, <1>3, <1>4, <1>6, <1>7, <1>9, <1>10, <1>11, <1>12, <1>14, <1>15, <1>16, <1>17, <1>18 DEF ReplayStep

(***************************************************************************)
(* The function awaits what it has scheduled.                              *)
(***************************************************************************)

\* The history as the activation would leave it, and how far the function has come in it.
Written(r) == r.log \o r.queued
Position(r) == r.cursor + Len(r.queued)

\* The call that the function is at has scheduled the work that goes on.
AwaitsCall(r) ==
    \E n \in 1..Position(r) :
       LET opening == Written(r)[n]
           call == r.program[r.pc]
       IN /\ Awaits(Written(r), n, Position(r))
          /\ call.op \in {"activity", "timer"}
          /\ opening.type = ScheduleOf(call.op) /\ opening.key = call.key
          /\ r.phase = "outcome" <=> ~NoRetry(Written(r), n, Position(r) + 1)

Reached(r) ==
    /\ r.cursor <= Len(r.log)
    /\ r.queued # <<>> => r.cursor = Len(r.log)
    /\ r.phase \in {"call", "finish"} => AllClosed(Written(r), Position(r))
    /\ r.phase \in {"scheduled", "outcome"} => AwaitsCall(r)

LEMMA ConcatEvents ==
  ASSUME NEW former \in Seq(Event), NEW latter \in Seq(Event)
  PROVE  /\ former \o latter \in Seq(Event) /\ Len(former \o latter) = Len(former) + Len(latter)
         /\ \A n \in 1..Len(former) : (former \o latter)[n] = former[n]
         /\ \A p \in 1..Len(latter) : (former \o latter)[Len(former) + p] = latter[p]
         /\ former \o <<>> = former
         /\ \A event \in Event : former \o Append(latter, event) = Append(former \o latter, event)
<1>1. Len(former) \in Nat /\ Len(latter) \in Nat
  OBVIOUS
<1>2. \A i \in 1..Len(former) + Len(latter) :
         (former \o latter)[i] = IF i <= Len(former) THEN former[i] ELSE latter[i - Len(former)]
  BY ConcatProperties
<1>3. \A n \in 1..Len(former) : (former \o latter)[n] = former[n]
  BY <1>1, <1>2
<1>4. \A p \in 1..Len(latter) : (former \o latter)[Len(former) + p] = latter[p]
  BY <1>1, <1>2
<1>5. former \o latter \in Seq(Event) /\ Len(former \o latter) = Len(former) + Len(latter)
  OBVIOUS
<1>6. former \o <<>> = former
  BY ConcatEmptySeq
<1>7. ASSUME NEW event \in Event
      PROVE  former \o Append(latter, event) = Append(former \o latter, event)
  <2> DEFINE both == former \o latter
             longer == Append(latter, event)
             left == former \o longer
             right == Append(both, event)
  <2>1. longer \in Seq(Event) /\ Len(longer) = Len(latter) + 1
    OBVIOUS
  <2>2. \A i \in 1..Len(latter) + 1 : longer[i] = IF i <= Len(latter) THEN latter[i] ELSE event
    OBVIOUS
  <2> HIDE DEF longer
  <2>3. left \in Seq(Event) /\ Len(left) = Len(former) + Len(latter) + 1
    BY <1>1, <2>1
  <2>4. right \in Seq(Event) /\ Len(right) = Len(former) + Len(latter) + 1
    BY <1>1, <1>5
  <2>5. \A i \in 1..Len(former) + Len(latter) + 1 :
           left[i] = IF i <= Len(former) THEN former[i] ELSE longer[i - Len(former)]
    BY <1>1, <2>1, ConcatProperties
  <2>6. \A i \in 1..Len(former) + Len(latter) + 1 : right[i] = IF i <= Len(both) THEN both[i] ELSE event
    BY <1>1, <1>5
  <2> HIDE DEF left, right
  <2>7. ASSUME NEW i \in 1..Len(former) + Len(latter) + 1
        PROVE  left[i] = right[i]
    <3>1. CASE i <= Len(former)
      BY <1>1, <1>2, <1>5, <2>5, <2>6, <3>1
    <3>2. CASE i \in Len(former)+1..Len(former)+Len(latter)
      <4>1. i - Len(former) \in 1..Len(latter)+1 /\ i - Len(former) <= Len(latter) /\ ~(i <= Len(former))
        BY <1>1, <3>2
      <4>2. left[i] = latter[i - Len(former)]
        BY <2>2, <2>5, <4>1
      <4>3. right[i] = both[i] /\ both[i] = latter[i - Len(former)]
        BY <1>1, <1>2, <1>5, <2>6, <3>2, <4>1
      <4>4. QED
        BY <4>2, <4>3
    <3>3. CASE i = Len(former) + Len(latter) + 1
      <4>1. i - Len(former) = Len(latter) + 1 /\ ~(i <= Len(former)) /\ ~(i <= Len(both))
        BY <1>1, <1>5, <3>3
      <4>2. QED
        BY <1>1, <2>2, <2>5, <2>6, <4>1
    <3>4. QED
      BY <1>1, <3>1, <3>2, <3>3
  <2>8. left = right
    BY <2>3, <2>4, <2>7, SeqEqual
  <2>9. QED
    BY <2>8 DEF left, right, longer
<1>8. QED
  BY <1>3, <1>4, <1>5, <1>6, <1>7

LEMMA WrittenType ==
  ASSUME NEW r \in Runner
  PROVE  /\ Written(r) \in Seq(Event) /\ Len(Written(r)) = Len(r.log) + Len(r.queued)
         /\ r.log \in Seq(Event) /\ r.queued \in Seq(Event) /\ r.cursor \in Nat
         /\ Len(r.log) \in Nat /\ Len(r.queued) \in Nat /\ Position(r) \in Nat
         /\ r.queued = <<>> => Written(r) = r.log
         /\ \A n \in 1..Len(r.log) : Written(r)[n] = r.log[n]
         /\ \A p \in 1..Len(r.queued) : Written(r)[Len(r.log) + p] = r.queued[p]
<1>1. r.log \in Seq(Event) /\ r.queued \in Seq(Event) /\ r.cursor \in Nat
  BY DEF Runner
<1>2. Len(r.log) \in Nat /\ Len(r.queued) \in Nat
  BY <1>1
<1>3. Written(r) \in Seq(Event) /\ Len(Written(r)) = Len(r.log) + Len(r.queued)
  BY <1>1 DEF Written
<1>4. /\ \A n \in 1..Len(r.log) : Written(r)[n] = r.log[n]
      /\ \A p \in 1..Len(r.queued) : Written(r)[Len(r.log) + p] = r.queued[p]
  BY <1>1, ConcatEvents DEF Written
<1>5. r.queued = <<>> => Written(r) = r.log
  BY <1>1 DEF Written
<1>6. Position(r) \in Nat
  BY <1>1, <1>2 DEF Position
<1>7. QED
  BY <1>1, <1>2, <1>3, <1>4, <1>5, <1>6

\* `r' is one event further than the replay, which is the next of the history.
Advances(r, event) ==
    /\ Written(r) \in Seq(Event) /\ Position(r) = Position(runner) + 1
    /\ Position(r) <= Len(Written(r))
    /\ Agree(Written(runner), Written(r), Position(runner))
    /\ Written(r)[Position(r)] = event
    /\ r.cursor <= Len(r.log) /\ (r.queued # <<>> => r.cursor = Len(r.log))

LEMMA StayingPut ==
  ASSUME NEW r, Track(r) = Track(runner), Place(r) = Place(runner)
  PROVE  Written(r) = Written(runner) /\ Position(r) = Position(runner) /\ r.cursor = runner.cursor
         /\ r.log = runner.log /\ r.queued = runner.queued
BY DEF Track, Place, Written, Position

LEMMA Reading1 ==
  ASSUME runner \in Runner, Reached(runner), NEW r \in Runner, Track(r) = Track(runner), NEW event, ReadsOn(r, event)
  PROVE  /\ Advances(r, event)
         /\ Written(r) = Written(runner) /\ Written(runner) = runner.log /\ runner.queued = <<>> /\ r.queued = <<>>
         /\ event = Written(runner)[Position(runner) + 1] /\ Position(runner) < Len(Written(runner))
<1>1. /\ r.log = runner.log /\ r.queued = runner.queued /\ r.cursor = runner.cursor + 1
      /\ ~AtEnd /\ event = Peek
  BY DEF Track, Place, ReadsOn
<1>2. runner.cursor <= Len(runner.log) /\ runner.queued = <<>>
  BY <1>1 DEF Reached, AtEnd
<1>3. /\ runner.cursor + 1 \in 1..Len(runner.log) /\ event = runner.log[runner.cursor + 1]
  BY <1>1, <1>2, PeekType
<1>4. Written(runner) = runner.log /\ Written(r) = runner.log /\ runner.cursor \in Nat
  BY <1>1, <1>2, WrittenType
<1>5. Position(runner) = runner.cursor /\ Position(r) = runner.cursor + 1
  BY <1>1, <1>2, <1>4 DEF Position
<1>6. Written(r) \in Seq(Event)
  BY WrittenType
<1>7. QED
  BY <1>1, <1>2, <1>3, <1>4, <1>5, <1>6 DEF Advances, Agree

LEMMA Writing ==
  ASSUME runner \in Runner, Reached(runner), NEW r \in Runner, Track(r) = Track(runner), NEW event, WritesOn(r, event),
         AtEnd
  PROVE  /\ Advances(r, event)
         /\ Written(r) = Append(Written(runner), event) /\ event \in Event
         /\ Position(runner) = Len(Written(runner)) /\ Position(r) = Len(Written(r))
         /\ r.queued = Append(runner.queued, event)
<1> DEFINE events == Written(runner)
           log == runner.log
           queued == runner.queued
           before == Len(log)
           count == Len(queued)
<1>1. /\ r.log = log /\ r.queued = Append(queued, event) /\ r.cursor = before /\ runner.cursor = before
      /\ event \in Event
  BY DEF Track, Place, WritesOn, AtEnd
<1>2. /\ events \in Seq(Event) /\ Len(events) = before + count /\ events = log \o queued
      /\ log \in Seq(Event) /\ queued \in Seq(Event) /\ before \in Nat /\ count \in Nat
  BY WrittenType DEF Written
<1>3. Written(r) = r.log \o r.queued /\ Position(r) = r.cursor + Len(r.queued)
  BY DEF Written, Position
<1>4. Position(runner) = runner.cursor + count
  BY DEF Position
<1>5. Len(Append(queued, event)) = count + 1
  BY <1>1, <1>2
<1> HIDE DEF log, queued, before, count, events
<1>6. Written(r) = Append(events, event)
  BY <1>1, <1>2, <1>3, ConcatEvents, SMTT(30)
<1>7. Position(runner) = before + count /\ Position(r) = before + (count + 1)
  BY <1>1, <1>3, <1>4, <1>5
<1>8. Position(runner) = Len(events) /\ Position(r) = Len(events) + 1
  BY <1>2, <1>7
<1>9. /\ Written(r) \in Seq(Event) /\ Len(Written(r)) = Len(events) + 1
      /\ Written(r)[Len(events) + 1] = event /\ Agree(events, Written(r), Len(events))
  <2> DEFINE later == Append(events, event)
  <2>1. /\ later \in Seq(Event) /\ Len(later) = Len(events) + 1 /\ later[Len(events) + 1] = event
        /\ Agree(events, later, Len(events))
    BY <1>1, <1>2, AppendedEvents
  <2> HIDE DEF later
  <2>2. QED
    BY <1>6, <2>1 DEF later
<1>10. Len(events) \in Nat
  BY <1>2
<1>11. Position(r) = Position(runner) + 1 /\ Position(r) <= Len(Written(r))
  BY <1>8, <1>9, <1>10
<1>12. r.cursor <= Len(r.log) /\ r.cursor = Len(r.log)
  BY <1>1, <1>2 DEF before
<1>13. QED
  BY <1>1, <1>6, <1>8, <1>9, <1>11, <1>12 DEF Advances, events, queued

\* What is awaited, one event further.
LEMMA AwaitedNext ==
  ASSUME runner \in Runner, NEW r \in Runner, NEW event, Advances(r, event), Awaited(Written(r))
  PROVE  /\ AllClosed(Written(runner), Position(runner)) =>
              IF Opens(event) THEN Awaits(Written(r), Position(r), Position(r))
              ELSE AllClosed(Written(r), Position(r))
         /\ \A n \in 1..Position(runner) : Awaits(Written(runner), n, Position(runner)) =>
              /\ Written(r)[n] = Written(runner)[n]
              /\ NoRetry(Written(runner), n, Position(runner) + 1) <=> NoRetry(Written(r), n, Position(r))
              /\ \/ Completes(Written(runner)[n], event) /\ AllClosed(Written(r), Position(r))
                 \/ /\ Passes(Written(runner)[n], event) /\ Awaits(Written(r), n, Position(r))
                    /\ IsCancel(event) => NoRetry(Written(r), n, Position(r))
<1> DEFINE former == Written(runner)
           later == Written(r)
           last == Position(runner)
<1>0. last \in Nat
  BY WrittenType
<1>1. /\ later \in Seq(Event) /\ Position(r) = last + 1 /\ last \in Nat /\ Len(later) \in Nat
      /\ last < Len(later) /\ Agree(former, later, last) /\ later[last + 1] = event
  BY <1>0 DEF Advances
<1>2. /\ AllClosed(former, last) => AllClosed(later, last)
      /\ \A n \in 1..last : Awaits(former, n, last) => Awaits(later, n, last)
  BY <1>1, AgreeingGoesOn
<1>3. \A n \in 1..last : later[n] = former[n]
  BY <1>1 DEF Agree
<1>4. \A n \in 1..last : NoRetry(former, n, last + 1) <=> NoRetry(later, n, last + 1)
  BY <1>1 DEF NoRetry, Agree
<1> HIDE DEF former, later, last
<1>5. /\ AllClosed(later, last) =>
              IF Opens(later[last + 1]) THEN Awaits(later, last + 1, last + 1)
              ELSE AllClosed(later, last + 1)
      /\ \A n \in 1..last : Awaits(later, n, last) =>
              \/ Completes(later[n], later[last + 1]) /\ AllClosed(later, last + 1)
              \/ /\ Passes(later[n], later[last + 1]) /\ Awaits(later, n, last + 1)
                 /\ IsCancel(later[last + 1]) => NoRetry(later, n, last + 1)
  BY <1>1, NextIsAwaited DEF later
<1>6. QED
  BY <1>1, <1>2, <1>3, <1>4, <1>5 DEF former, later, last

\* A call that has scheduled its work ends with an event by which the work ends.
LEMMA CallEnds ==
  ASSUME NEW opening, NEW event, Call.op \in {"activity", "timer"},
         opening.type = ScheduleOf(Call.op), opening.key = Call.key
  PROVE  /\ EndsCall(event) <=> Completes(opening, event)
         /\ IsRetry(event) /\ event.key = Call.key /\ Call.op = "activity" => Passes(opening, event)
         /\ Passes(opening, event) /\ IsRetry(event) => Call.op = "activity" /\ event.key = Call.key
         /\ Opens(opening)
<1>1. CASE Call.op = "activity"
  <2>1. opening.type = "activity.scheduled"
    BY <1>1 DEF ScheduleOf
  <2>2. EndsCall(event) <=> Completes(opening, event)
    BY <1>1, <2>1 DEF EndsCall, Completes
  <2>3. Opens(opening) /\ (IsRetry(event) /\ event.key = Call.key => Passes(opening, event))
    BY <2>1 DEF Opens, Passes
  <2>4. Passes(opening, event) /\ IsRetry(event) => event.key = Call.key
    BY DEF Passes, IsRetry, IsCancel, LifecycleEvents
  <2>5. QED
    BY <1>1, <2>2, <2>3, <2>4
<1>2. CASE Call.op = "timer"
  <2>1. opening.type = "timer.scheduled"
    BY <1>2 DEF ScheduleOf
  <2>2. EndsCall(event) <=> Completes(opening, event)
    BY <1>2, <2>1 DEF EndsCall, Completes
  <2>3. Opens(opening)
    BY <2>1 DEF Opens
  <2>4. ~(Passes(opening, event) /\ IsRetry(event))
    BY <2>1 DEF Passes, IsRetry, IsCancel, LifecycleEvents
  <2>5. QED
    BY <1>2, <2>2, <2>3, <2>4
<1>3. QED
  BY <1>1, <1>2

\* Where nothing that the call awaits is next, nothing is.
LEMMA AwaitsPastTheEnd ==
  ASSUME runner \in Runner, Awaited(Written(runner)), Reached(runner),
         runner.phase \in {"scheduled", "outcome"}, NothingAwaited
  PROVE  AtEnd
<1> SUFFICES ASSUME ~AtEnd
             PROVE  FALSE
  OBVIOUS
<1> DEFINE events == Written(runner)
           last == Position(runner)
<1>1. runner.cursor <= Len(runner.log) /\ runner.queued = <<>>
  BY DEF Reached, AtEnd
<1>2. /\ Peek = runner.log[runner.cursor + 1] /\ runner.cursor + 1 \in 1..Len(runner.log)
      /\ events = runner.log /\ events \in Seq(Event) /\ runner.cursor \in Nat /\ last \in Nat
  BY <1>1, PeekType, WrittenType
<1>3. last = runner.cursor
  BY <1>1, <1>2 DEF Position
<1>4. last < Len(events) /\ Peek = events[last + 1]
  BY <1>2, <1>3
<1>5. PICK n \in 1..last :
         /\ Awaits(events, n, last)
         /\ Call.op \in {"activity", "timer"}
         /\ events[n].type = ScheduleOf(Call.op) /\ events[n].key = Call.key
         /\ runner.phase = "outcome" <=> ~NoRetry(events, n, last + 1)
  BY DEF Reached, AwaitsCall, Call
<1> HIDE DEF events, last
<1>6. \/ Completes(events[n], Peek)
      \/ Passes(events[n], Peek) /\ (IsCancel(Peek) => NoRetry(events, n, last + 1))
  BY <1>2, <1>4, <1>5, NextIsAwaited DEF events
<1>7. CASE Completes(events[n], Peek)
  <2>1. EndsCall(Peek)
    BY <1>5, <1>7, CallEnds
  <2>2. QED
    BY <2>1 DEF EndsCall, NothingAwaited, NoRecordedOutcome, RecordedOutcome, Next1, IsOutcome, OutcomeEvents
<1>8. CASE Passes(events[n], Peek) /\ (IsCancel(Peek) => NoRetry(events, n, last + 1))
  <2>1. ~IsRetry(Peek)
    <3>1. IsRetry(Peek) => Call.op = "activity" /\ Peek.key = Call.key
      BY <1>5, <1>8, CallEnds
    <3>2. QED
      BY <3>1 DEF NothingAwaited, NoRecordedOutcome, Next1, IsRetry
  <2>2. Peek.type \notin LifecycleEvents
    BY DEF NothingAwaited, Settled, LifecycleNext
  <2>3. IsCancel(Peek) /\ Peek.key = None
    BY <1>8, <2>1, <2>2 DEF Passes
  <2>4. runner.phase = "scheduled"
    BY <1>5, <1>8, <2>3
  <2>5. QED
    BY <2>3, <2>4 DEF NothingAwaited, Settled, RecordedCancelNext, Advancing, Next1, IsCancel
<1>9. QED
  BY <1>6, <1>7, <1>8

\* Writing an event by which what is awaited goes on, or ends.
LEMMA AwaitedWrite ==
  ASSUME runner \in Runner, Awaited(Written(runner)), NEW event \in Event,
         \/ AllClosed(Written(runner), Len(Written(runner)))
         \/ \E n \in 1..Len(Written(runner)) :
               /\ Awaits(Written(runner), n, Len(Written(runner)))
               /\ \/ Completes(Written(runner)[n], event)
                  \/ /\ Passes(Written(runner)[n], event)
                     /\ IsCancel(event) => NoRetry(Written(runner), n, Len(Written(runner)) + 1)
  PROVE  Awaited(Append(Written(runner), event))
<1> DEFINE events == Written(runner)
           last == Len(events)
<1>0. events \in Seq(Event)
  BY WrittenType
<1>1. events \in Seq(Event) /\ last \in Nat
  BY <1>0
<1> HIDE DEF events
<1> SUFFICES ASSUME NEW m \in 1..last, Opens(events[m]), StillOpen(events, m)
             PROVE  \/ Completes(events[m], event)
                    \/ Passes(events[m], event) /\ (IsCancel(event) => NoRetry(events, m, last + 1))
  BY <1>1, AppendAwaited DEF events
<1>2. ~ClosedBy(events, m, last)
  BY <1>1, EndedOrOpen DEF StillOpen
<1>3. QED
  BY <1>2 DEF AllClosed, Awaits, events

LEMMA ReplayIsAwaited ==
  ASSUME runner \in Runner, runner' \in Runner, Awaited(runner.log), Awaited(Written(runner)), Reached(runner),
         \A n \in 1..Len(runner.log) : runner.log[n].type \notin EndingEvents,
         Track(runner') = Track(runner), Moves(runner')
  PROVE  Awaited(Written(runner')) /\ Reached(runner')
<1> DEFINE r == runner'
           events == Written(runner)
           last == Position(runner)
           later == Written(r)
<1>0. events \in Seq(Event) /\ last \in Nat /\ Len(events) \in Nat /\ last <= Len(events)
  <2> DEFINE before == Len(runner.log)
             count == Len(runner.queued)
  <2>1. /\ events \in Seq(Event) /\ last \in Nat /\ Len(events) = before + count
        /\ before \in Nat /\ count \in Nat /\ runner.cursor \in Nat
    BY WrittenType
  <2>2. runner.cursor <= before /\ last = runner.cursor + count
    BY DEF Reached, Position
  <2> HIDE DEF before, count, events, last
  <2>3. QED
    BY <2>1, <2>2
<1>A. runner.phase \in {"call", "finish"} => AllClosed(events, last)
  BY DEF Reached
<1>B. ASSUME runner.phase \in {"scheduled", "outcome"}
      PROVE  \E n \in 1..last :
                /\ Awaits(events, n, last)
                /\ Call.op \in {"activity", "timer"}
                /\ events[n].type = ScheduleOf(Call.op) /\ events[n].key = Call.key
                /\ runner.phase = "outcome" <=> ~NoRetry(events, n, last + 1)
  BY <1>B DEF Reached, AwaitsCall, Call
<1>C. ASSUME r.pc = runner.pc
      PROVE  r.program[r.pc] = Call
  BY <1>C DEF Call, Track
<1>D. ASSUME NEW event, ReadsOn(r, event)
      PROVE  /\ Advances(r, event) /\ Awaited(later)
             /\ last + 1 \in 1..Len(runner.log) /\ event = runner.log[last + 1]
  <2>1. /\ Advances(r, event) /\ later = events /\ events = runner.log
        /\ event = events[last + 1] /\ last < Len(events)
    BY <1>D, Reading1
  <2>2. QED
    BY <1>0, <2>1
<1>E. ASSUME NEW event, WritesOn(r, event), AtEnd
      PROVE  /\ Advances(r, event) /\ later = Append(events, event) /\ event \in Event
             /\ last = Len(events) /\ Position(r) = Len(later)
  BY <1>E, Writing
<1>F. ASSUME NEW event, Advances(r, event), Awaited(later), ~Opens(event), AllClosed(events, last)
      PROVE  AllClosed(later, Position(r))
  BY <1>F, AwaitedNext
<1>G. ASSUME NEW event, Meets(r, event), AllClosed(events, last), r.phase \in {"call", "finish"}, ~Opens(event)
      PROVE  Awaited(later) /\ Reached(r)
  <2>1. Advances(r, event)
    BY <1>D, <1>E, <1>G DEF Meets
  <2>2. Awaited(later)
    <3>1. CASE ReadsOn(r, event)
      BY <1>D, <3>1
    <3>2. CASE AtEnd /\ WritesOn(r, event)
      BY <1>E, <1>G, <3>2, AwaitedWrite
    <3>3. QED
      BY <1>G, <3>1, <3>2 DEF Meets
  <2>3. QED
    BY <1>F, <1>G, <2>1, <2>2 DEF Reached, Advances
<1>1. CASE Passing(r)
  <2>1. PICK event \in Event :
           /\ Meets(r, event) /\ Point(r) = Point(runner) /\ runner.phase # "decided"
           /\ \/ ~AtEnd /\ event.type \in LifecycleEvents
              \/ IsCancel(event) /\ event.key = None /\ Advancing
    BY <1>1 DEF Passing
  <2>2. r.pc = runner.pc /\ r.phase = runner.phase
    BY <2>1 DEF Point
  <2>3. ~Opens(event) /\ ~IsRetry(event) /\ (\A opening : Passes(opening, event) /\ ~Completes(opening, event))
    <3>1. \A opening : Passes(opening, event)
      BY <2>1 DEF Passes
    <3>2. \A opening : ~Completes(opening, event)
      BY <3>1, EventKinds
    <3>3. ~Opens(event)
      BY <3>1, EventKinds
    <3>4. ~IsRetry(event)
      BY <2>1 DEF IsRetry, IsCancel, LifecycleEvents
    <3>5. QED
      BY <3>1, <3>2, <3>3, <3>4
  <2>4. CASE runner.phase \in {"call", "finish"}
    BY <1>A, <1>G, <2>1, <2>2, <2>3, <2>4
  <2>5. CASE runner.phase \in {"scheduled", "outcome"}
    <3>1. PICK n \in 1..last :
             /\ Awaits(events, n, last)
             /\ Call.op \in {"activity", "timer"}
             /\ events[n].type = ScheduleOf(Call.op) /\ events[n].key = Call.key
             /\ runner.phase = "outcome" <=> ~NoRetry(events, n, last + 1)
      BY <1>B, <2>5
    <3>2. Awaited(later)
      <4>1. CASE ReadsOn(r, event)
        BY <1>D, <4>1
      <4>2. CASE AtEnd /\ WritesOn(r, event)
        <5>1. IsCancel(event) => NoRetry(events, n, last + 1)
          BY <2>1, <3>1, <4>2 DEF Advancing
        <5>2. QED
          BY <1>E, <2>3, <3>1, <4>2, <5>1, AwaitedWrite
      <4>3. QED
        BY <2>1, <4>1, <4>2 DEF Meets
    <3>3. Advances(r, event)
      BY <1>D, <1>E, <2>1 DEF Meets
    <3>4. /\ later[n] = events[n] /\ Awaits(later, n, Position(r))
          /\ NoRetry(events, n, last + 1) <=> NoRetry(later, n, Position(r))
      BY <2>3, <3>1, <3>2, <3>3, AwaitedNext
    <3>5. NoRetry(later, n, Position(r)) <=> NoRetry(later, n, Position(r) + 1)
      <4>1. Position(r) = last + 1 /\ later[last + 1] = event
        BY <3>3 DEF Advances
      <4>2. \A m \in n+1..last+1 : m \in n+1..last \/ m = last + 1
        BY <1>0
      <4>3. \A m \in n+1..last : m \in n+1..last+1
        BY <1>0
      <4>4. /\ NoRetry(later, n, last + 1) <=> \A m \in n+1..last : ~IsRetry(later[m])
            /\ NoRetry(later, n, last + 1 + 1) <=> \A m \in n+1..last+1 : ~IsRetry(later[m])
        <5>1. n \in Nat /\ last \in Nat /\ last + 1 \in Nat
          BY <1>0
        <5> HIDE DEF last, later
        <5>2. QED
          BY <5>1, NoRetryUpTo
      <4> HIDE DEF later
      <4>5. ~IsRetry(later[last + 1])
        BY <2>3, <4>1
      <4>6. NoRetry(later, n, last + 1) <=> NoRetry(later, n, last + 1 + 1)
        BY <4>2, <4>3, <4>4, <4>5
      <4>7. QED
        BY <4>1, <4>6
    <3>6. n \in 1..Position(r)
      BY <1>0, <3>3 DEF Advances
    <3>7. AwaitsCall(r)
      BY <1>C, <2>2, <3>1, <3>4, <3>5, <3>6 DEF AwaitsCall
    <3>8. QED
      BY <2>2, <2>5, <3>2, <3>3, <3>7 DEF Reached, Advances
  <2>6. QED
    BY <1>0, <2>1, <2>4, <2>5 DEF Runner, Phases
<1>2. CASE Starting(r)
  <2>1. /\ ReadsOn(r, Peek) /\ runner.phase = "call" /\ r.phase = "scheduled" /\ r.pc = runner.pc
        /\ Call.op \in {"activity", "timer"} /\ Peek.type = ScheduleOf(Call.op) /\ Peek.key = Call.key
    BY <1>2 DEF Starting
  <2>2. Advances(r, Peek) /\ Awaited(later) /\ Opens(Peek)
    BY <1>D, <2>1 DEF Opens, ScheduleOf
  <2>3. Awaits(later, Position(r), Position(r))
    BY <1>A, <2>1, <2>2, AwaitedNext
  <2>4. later[Position(r)] = Peek /\ Position(r) = last + 1
    BY <2>2 DEF Advances
  <2>5. NoRetry(later, Position(r), Position(r) + 1)
    BY <1>0, <2>4 DEF NoRetry
  <2>6. Position(r) \in 1..Position(r)
    BY <1>0, <2>4
  <2>7. AwaitsCall(r)
    BY <1>C, <2>1, <2>3, <2>4, <2>5, <2>6 DEF AwaitsCall
  <2>8. QED
    BY <2>1, <2>2, <2>7 DEF Reached, Advances
<1>3. CASE Retrying(r)
  <2>1. /\ ReadsOn(r, Peek) /\ runner.phase \in {"scheduled", "outcome"} /\ r.phase = "outcome" /\ r.pc = runner.pc
        /\ Call.op = "activity" /\ IsRetry(Peek) /\ Peek.key = Call.key
    BY <1>3 DEF Retrying
  <2>2. PICK n \in 1..last :
           /\ Awaits(events, n, last)
           /\ events[n].type = ScheduleOf(Call.op) /\ events[n].key = Call.key
    BY <1>B, <2>1
  <2>3. Advances(r, Peek) /\ Awaited(later)
    BY <1>D, <2>1
  <2>4. Passes(events[n], Peek) /\ ~Completes(events[n], Peek)
    BY <2>1, <2>2, CallEnds, EventKinds
  <2>5. later[n] = events[n] /\ Awaits(later, n, Position(r))
    BY <2>2, <2>3, <2>4, AwaitedNext
  <2>6. later[Position(r)] = Peek /\ Position(r) = last + 1
    BY <2>3 DEF Advances
  <2>7. ~NoRetry(later, n, Position(r) + 1)
    <3>1. last + 1 \in n+1..(last + 1 + 1) - 1
      BY <1>0
    <3>2. QED
      BY <2>1, <2>6, <3>1 DEF NoRetry
  <2>8. n \in 1..Position(r)
    BY <1>0, <2>6
  <2>9. AwaitsCall(r)
    BY <1>C, <2>1, <2>2, <2>5, <2>7, <2>8 DEF AwaitsCall
  <2>10. QED
    BY <2>1, <2>3, <2>9 DEF Reached, Advances
<1>4. CASE Ending(r)
  <2>1. PICK event \in Event :
           /\ EndsCall(event)
           /\ runner.phase \in {"scheduled", "outcome"} /\ r.phase \in {"call", "finish"}
           /\ ReadsOn(r, event) \/ (WritesOn(r, event) /\ NothingAwaited)
    BY <1>4 DEF Ending
  <2>2. PICK n \in 1..last :
           /\ Awaits(events, n, last) /\ Call.op \in {"activity", "timer"}
           /\ events[n].type = ScheduleOf(Call.op) /\ events[n].key = Call.key
    BY <1>B, <2>1
  <2>3. Completes(events[n], event) /\ ~Passes(events[n], event)
    BY <2>1, <2>2, CallEnds, EventKinds
  <2>4. Advances(r, event) /\ Awaited(later)
    <3>1. CASE ReadsOn(r, event)
      BY <1>D, <3>1
    <3>2. CASE WritesOn(r, event) /\ NothingAwaited
      <4>1. AtEnd
        BY <2>1, <3>2, AwaitsPastTheEnd
      <4>2. QED
        BY <1>E, <2>2, <2>3, <3>2, <4>1, AwaitedWrite
    <3>3. QED
      BY <2>1, <3>1, <3>2
  <2>5. AllClosed(later, Position(r))
    BY <2>2, <2>3, <2>4, AwaitedNext
  <2>6. QED
    BY <2>1, <2>4, <2>5 DEF Reached, Advances
<1>5. CASE Noting(r)
  <2>1. PICK event \in Event :
           /\ Meets(r, event) /\ runner.phase = "call" /\ r.phase = "call"
           /\ event.type \in {"signal.received", "marker.recorded"}
    BY <1>5 DEF Noting
  <2>2. ~Opens(event)
    BY <2>1 DEF Opens
  <2>3. QED
    BY <1>A, <1>G, <2>1, <2>2
<1>6. ASSUME Place(r) = Place(runner), r.phase = "decided" \/ (runner.phase = "call" /\ r.phase \in {"call", "finish"})
      PROVE  Awaited(later) /\ Reached(r)
  <2>1. /\ later = events /\ Position(r) = last /\ r.cursor = runner.cursor
        /\ r.log = runner.log /\ r.queued = runner.queued
    BY <1>6, StayingPut
  <2>2. QED
    BY <1>6, <1>A, <2>1 DEF Reached
<1>7. CASE Returning(r) \/ Blocking(r)
  BY <1>6, <1>7 DEF Returning, Blocking
<1>8. ASSUME NEW event, AtEnd, WritesOn(r, event), runner.phase \in {"call", "finish"}, r.phase = "decided"
      PROVE  Awaited(later) /\ Reached(r)
  <2>1. /\ Advances(r, event) /\ later = Append(events, event) /\ event \in Event /\ last = Len(events)
    BY <1>8, <1>E
  <2>2. Awaited(later)
    BY <1>8, <1>A, <2>1, AwaitedWrite
  <2>3. QED
    BY <1>8, <2>1, <2>2 DEF Reached, Advances
<1>9. CASE Scheduling(r)
  BY <1>8, <1>9 DEF Scheduling
<1>10. CASE Finishing(r)
  <2>1. AtEnd
    <3> SUFFICES ASSUME ~AtEnd, Peek.type \in EndingEvents
                 PROVE  FALSE
      BY <1>10 DEF Finishing
    <3>1. runner.cursor <= Len(runner.log)
      BY DEF Reached
    <3>2. QED
      BY <3>1, PeekType
  <2>2. QED
    BY <1>8, <1>10, <2>1 DEF Finishing
<1>11. CASE Leaving(r)
  <2>1. r.queued = <<>> /\ r.phase = "decided" /\ r.log = runner.log /\ r.cursor = runner.cursor
    BY <1>11 DEF Leaving, Place, Track
  <2>2. later = runner.log
    BY <2>1, WrittenType
  <2>3. QED
    BY <2>1, <2>2 DEF Reached
<1>12. QED
  BY <1>1, <1>2, <1>3, <1>4, <1>5, <1>7, <1>9, <1>10, <1>11 DEF Moves

(***************************************************************************)
(* The events of an activity in the history.                               *)
(***************************************************************************)

Schedules(event, k) == event.type = "activity.scheduled" /\ event.key = k
OutcomeOf(event, k) == IsOutcome(event) /\ event.key = k

\* A retry and an outcome follow a schedule event, and an outcome is the last.
FollowsItsSchedule(events, n) ==
    IsRetry(events[n]) \/ IsOutcome(events[n]) => \E m \in 1..n-1 : Schedules(events[m], events[n].key)
IsFinal(events, n) ==
    IsOutcome(events[n]) =>
       \A m \in n+1..Len(events) : events[m].key = events[n].key => ~IsRetry(events[m]) /\ ~IsOutcome(events[m])
OutcomeIsLast(events) == \A n \in 1..Len(events) : FollowsItsSchedule(events, n) /\ IsFinal(events, n)

ScheduledOnce(events) ==
    \A k \in Keys, m, n \in 1..Len(events) : Schedules(events[m], k) /\ Schedules(events[n], k) => m = n

Undecided(events, k) == \A m \in 1..Len(events) : ~OutcomeOf(events[m], k)

LEMMA AppendOrdered ==
  ASSUME NEW events \in Seq(Event), NEW event \in Event, OutcomeIsLast(events),
         IsRetry(event) \/ IsOutcome(event) =>
            /\ \E m \in 1..Len(events) : Schedules(events[m], event.key)
            /\ Undecided(events, event.key)
  PROVE  OutcomeIsLast(Append(events, event))
<1> DEFINE last == Len(events)
           later == Append(events, event)
<1>0. /\ later \in Seq(Event) /\ Len(later) = last + 1 /\ later[last + 1] = event /\ last \in Nat
      /\ Agree(events, later, last)
  BY AppendedEvents
<1> SUFFICES OutcomeIsLast(later)
  OBVIOUS
<1> HIDE DEF later
<1>1. \A n \in 1..last : later[n] = events[n]
  BY <1>0 DEF Agree
<1> SUFFICES ASSUME NEW n \in 1..last+1
             PROVE  FollowsItsSchedule(later, n) /\ IsFinal(later, n)
  BY <1>0 DEF OutcomeIsLast
<1>2. CASE n = last + 1
  <2>1. FollowsItsSchedule(later, n)
    BY <1>0, <1>1, <1>2 DEF FollowsItsSchedule
  <2>2. IsFinal(later, n)
    BY <1>0, <1>2 DEF IsFinal
  <2>3. QED
    BY <2>1, <2>2
<1>3. CASE n \in 1..last
  <2>1. FollowsItsSchedule(events, n) /\ IsFinal(events, n) /\ later[n] = events[n]
    BY <1>1, <1>3 DEF OutcomeIsLast
  <2>2. FollowsItsSchedule(later, n)
    <3>1. \A m \in 1..n-1 : later[m] = events[m]
      BY <1>0, <1>1, <1>3
    <3>2. QED
      BY <2>1, <3>1 DEF FollowsItsSchedule
  <2>3. IsFinal(later, n)
    <3> SUFFICES ASSUME IsOutcome(later[n]), NEW m \in n+1..last+1, later[m].key = later[n].key
                 PROVE  ~IsRetry(later[m]) /\ ~IsOutcome(later[m])
      BY <1>0 DEF IsFinal
    <3>1. CASE m \in n+1..last
      <4>1. later[m] = events[m]
        BY <1>1, <1>3, <3>1
      <4>2. QED
        BY <2>1, <3>1, <4>1 DEF IsFinal
    <3>2. CASE m = last + 1
      <4>1. OutcomeOf(events[n], event.key)
        BY <1>0, <2>1, <3>2 DEF OutcomeOf
      <4>2. ~Undecided(events, event.key)
        BY <1>3, <4>1 DEF Undecided
      <4>3. QED
        BY <1>0, <3>2, <4>2
    <3>3. QED
      BY <1>0, <3>1, <3>2
  <2>4. QED
    BY <2>2, <2>3
<1>4. QED
  BY <1>0, <1>2, <1>3

LEMMA AppendOnce ==
  ASSUME NEW events \in Seq(Event), NEW event \in Event, ScheduledOnce(events),
         \A m \in 1..Len(events) : event.type = "activity.scheduled" => ~Schedules(events[m], event.key)
  PROVE  ScheduledOnce(Append(events, event))
<1> DEFINE last == Len(events)
           later == Append(events, event)
<1>0. /\ later \in Seq(Event) /\ Len(later) = last + 1 /\ later[last + 1] = event /\ last \in Nat
      /\ Agree(events, later, last)
  BY AppendedEvents
<1> SUFFICES ScheduledOnce(later)
  OBVIOUS
<1> HIDE DEF later
<1>1. \A n \in 1..last : later[n] = events[n]
  BY <1>0 DEF Agree
<1>2. \A n \in 1..last+1 : n \in 1..last \/ n = last + 1
  BY <1>0
<1>3. ASSUME NEW k \in Keys, NEW m \in 1..last, Schedules(later[m], k)
      PROVE  ~Schedules(event, k)
  BY <1>1, <1>3 DEF Schedules
<1>4. QED
  BY <1>0, <1>1, <1>2, <1>3 DEF ScheduledOnce

\* The work that goes on has no outcome yet.
LEMMA OpenIsUndecided ==
  ASSUME NEW events \in Seq(Event), OutcomeIsLast(events), ScheduledOnce(events),
         NEW n \in 1..Len(events), StillOpen(events, n), NEW k \in Keys, Schedules(events[n], k)
  PROVE  Undecided(events, k)
<1> SUFFICES ASSUME NEW m \in 1..Len(events), OutcomeOf(events[m], k)
             PROVE  FALSE
  BY DEF Undecided
<1>0. Len(events) \in Nat
  OBVIOUS
<1>1. CASE m < n
  <2>1. PICK l \in 1..m-1 : Schedules(events[l], k)
    BY DEF OutcomeIsLast, FollowsItsSchedule, OutcomeOf
  <2>2. l \in 1..Len(events) /\ l # n
    BY <1>0, <1>1
  <2>3. QED
    BY <2>1, <2>2 DEF ScheduledOnce
<1>2. CASE m = n
  BY <1>2 DEF OutcomeOf, IsOutcome, OutcomeEvents, Schedules
<1>3. CASE m > n
  <2>1. m \in n+1..(Len(events)+1)-1
    BY <1>0, <1>3
  <2>2. Passes(events[n], events[m])
    BY <2>1 DEF StillOpen, GoesOn
  <2>3. Completes(events[n], events[m])
    BY DEF Completes, OutcomeOf, Schedules
  <2>4. QED
    BY <2>2, <2>3, EventKinds
<1>4. QED
  BY <1>0, <1>1, <1>2, <1>3

(***************************************************************************)
(* What the activation writes and decides.                                 *)
(***************************************************************************)

EndingDecisions == {"completed", "failed", "cancelled"}

Ordinary(r, event) ==
    /\ ~Opens(event) /\ event.type \notin EndingEvents /\ ~IsRetry(event)
    /\ IsOutcome(event) =>
         /\ event.key \in Keys /\ r.outcomes[event.key] \in {"completed", "failed"}
         /\ event.type = OutcomeEvent[r.outcomes[event.key]]

\* The event by which the activation decides what to do.
Deciding(r, event) ==
    \/ r.decision = "waiting" /\ r.newTask \in Keys /\ Schedules(event, r.newTask)
    \/ r.decision = "waiting" /\ r.newTimer \in Keys /\ event.type = "timer.scheduled" /\ event.key = r.newTimer
    \/ r.decision \in EndingDecisions /\ event.type = EndingEvent[r.decision]

WritesFit(r) ==
    \A p \in 1..Len(r.queued) :
       \/ Ordinary(r, r.queued[p])
       \/ p = Len(r.queued) /\ r.phase = "decided" /\ Deciding(r, r.queued[p])

LastQueued(r) == r.queued[Len(r.queued)]
Decided(r) ==
    /\ r.phase # "decided" => Choice(r) = <<"none", None, None>>
    /\ r.newTask # None => r.queued # <<>> /\ Schedules(LastQueued(r), r.newTask)
    /\ r.newTimer # None =>
         r.queued # <<>> /\ LastQueued(r).type = "timer.scheduled" /\ LastQueued(r).key = r.newTimer
    /\ r.decision \in EndingDecisions => r.queued # <<>> /\ LastQueued(r).type = EndingEvent[r.decision]

ReadsOutcomes(r) == \A k \in Keys : r.outcomes[k] # "none" => tasks[k].status = r.outcomes[k]

ReplayInv(r) ==
    /\ Awaited(Written(r)) /\ Reached(r)
    /\ OutcomeIsLast(Written(r))
    /\ WritesFit(r) /\ Decided(r) /\ ReadsOutcomes(r)

\* An activation that has not decided has scheduled nothing.
LEMMA UndecidedWritesOnce ==
  ASSUME NEW r \in Runner, WritesFit(r), r.phase # "decided", ScheduledOnce(r.log)
  PROVE  ScheduledOnce(Written(r)) /\ \A p \in 1..Len(r.queued) : Ordinary(r, r.queued[p])
<1> DEFINE events == Written(r)
           before == Len(r.log)
           count == Len(r.queued)
<1>1. \A p \in 1..count : Ordinary(r, r.queued[p])
  BY DEF WritesFit
<1>2. /\ Len(events) = before + count /\ before \in Nat /\ count \in Nat
      /\ \A n \in 1..before : events[n] = r.log[n]
      /\ \A p \in 1..count : events[before + p] = r.queued[p]
  BY WrittenType
<1>3. ScheduledOnce(r.log)
  OBVIOUS
<1>4. ASSUME NEW n \in 1..before+count, NEW k, Schedules(events[n], k)
      PROVE  n \in 1..before /\ Schedules(r.log[n], k)
  <2>1. CASE n \in 1..before
    BY <1>2, <1>4, <2>1
  <2>2. CASE n - before \in 1..count
    <3> DEFINE p == n - before
    <3>1. n = before + p /\ p \in 1..count
      BY <1>2, <2>2
    <3> HIDE DEF p
    <3>2. events[n] = r.queued[p]
      BY <1>2, <3>1
    <3>3. ~Opens(r.queued[p])
      BY <1>1, <3>1 DEF Ordinary
    <3>4. QED
      BY <1>4, <3>2, <3>3 DEF Schedules, Opens
  <2>3. QED
    <3> HIDE DEF before, count, events
    <3>1. n \in 1..before \/ n - before \in 1..count
      BY <1>2
    <3>2. QED
      BY <2>1, <2>2, <3>1
<1>5. ScheduledOnce(events)
  <2> SUFFICES ASSUME NEW k \in Keys, NEW m \in 1..before+count, NEW n \in 1..before+count,
                      Schedules(events[m], k), Schedules(events[n], k)
               PROVE  m = n
    BY <1>2 DEF ScheduledOnce
  <2>1. m \in 1..before /\ n \in 1..before /\ Schedules(r.log[m], k) /\ Schedules(r.log[n], k)
    BY <1>4
  <2>2. QED
    BY <2>1 DEF ScheduledOnce
<1>6. QED
  BY <1>1, <1>5

LEMMA ReplayWritesFit ==
  ASSUME runner \in Runner, runner' \in Runner, ReplayPosition, ReplayInv(runner),
         ScheduledOnce(runner.log), OutcomeIsLast(runner.log),
         \A n \in 1..Len(runner.log) : runner.log[n].type \notin EndingEvents,
         Track(runner') = Track(runner), Moves(runner')
  PROVE  OutcomeIsLast(Written(runner')) /\ WritesFit(runner') /\ Decided(runner')
<1> DEFINE r == runner'
           events == Written(runner)
           Goal == OutcomeIsLast(Written(r)) /\ WritesFit(r) /\ Decided(r)
<1>0. runner.phase # "decided" /\ runner.decision = "none" /\ runner.newTask = None /\ runner.newTimer = None
  <2>1. runner.phase # "decided"
    BY DEF Moves, Passing, Starting, Retrying, Ending, Noting, Returning, Blocking, Scheduling, Finishing, Leaving
  <2>2. QED
    BY <2>1 DEF ReplayInv, Decided, Choice
<1>1. ScheduledOnce(events) /\ \A p \in 1..Len(runner.queued) : Ordinary(runner, runner.queued[p])
  BY <1>0, UndecidedWritesOnce DEF ReplayInv
<1>2. r.outcomes = runner.outcomes /\ r.log = runner.log /\ events \in Seq(Event) /\ OutcomeIsLast(events)
      /\ Reached(runner) /\ Awaited(events)
  BY WrittenType DEF Track, ReplayInv
<1>3. \A event : Ordinary(runner, event) => Ordinary(r, event)
  BY <1>2 DEF Ordinary
<1>4. ASSUME r.queued = runner.queued, Written(r) = events,
             \/ Choice(r) = Choice(runner)
             \/ Choice(r) = <<"waiting", None, None>> /\ r.phase = "decided"
      PROVE  Goal
  <2>1. WritesFit(r)
    BY <1>1, <1>3, <1>4 DEF WritesFit
  <2>2. r.newTask = None /\ r.newTimer = None /\ r.decision \in {"none", "waiting"}
        /\ (r.phase # "decided" => Choice(r) = <<"none", None, None>>)
    BY <1>0, <1>4 DEF Choice
  <2>3. Decided(r)
    BY <2>2 DEF Decided, EndingDecisions
  <2>4. QED
    BY <1>2, <1>4, <2>1, <2>3
<1>5. ASSUME NEW event, AtEnd, WritesOn(r, event)
      PROVE  /\ Written(r) = Append(events, event) /\ event \in Event
             /\ r.queued = Append(runner.queued, event) /\ r.queued # <<>> /\ LastQueued(r) = event
             /\ Len(r.queued) \in Nat /\ \A p \in 1..Len(r.queued)-1 : Ordinary(r, r.queued[p])
             /\ Len(r.queued) \in 1..Len(r.queued) /\ r.queued[Len(r.queued)] = event
  <2>1. /\ Written(r) = Append(events, event) /\ event \in Event /\ r.queued = Append(runner.queued, event)
    BY <1>2, <1>5, Writing
  <2> DEFINE before == runner.queued
             after == Append(before, event)
  <2>2. before \in Seq(Event)
    BY WrittenType
  <2>3. after \in Seq(Event) /\ Len(after) = Len(before) + 1 /\ after[Len(after)] = event /\ after # <<>>
        /\ Len(before) \in Nat /\ \A p \in 1..Len(before) : after[p] = before[p]
    BY <2>1, <2>2, SMTT(30)
  <2>4. \A p \in 1..Len(before) : Ordinary(r, before[p])
    BY <1>1, <1>3
  <2>5. r.queued = after
    BY <2>1
  <2> HIDE DEF after, before
  <2>6. \A p \in 1..Len(after)-1 : Ordinary(r, after[p])
    BY <2>3, <2>4
  <2>7. Len(after) \in Nat /\ Len(after) \in 1..Len(after)
    BY <2>3
  <2>8. QED
    BY <2>1, <2>3, <2>5, <2>6, <2>7 DEF LastQueued
<1>6. ASSUME NEW event, AtEnd, WritesOn(r, event),
             Ordinary(r, event) \/ (r.phase = "decided" /\ Deciding(r, event))
      PROVE  WritesFit(r)
  <2> DEFINE count == Len(r.queued)
  <2>1. /\ count \in Nat /\ r.queued[count] = event /\ \A p \in 1..count-1 : Ordinary(r, r.queued[p])
    BY <1>5, <1>6
  <2> SUFFICES ASSUME NEW p \in 1..count
               PROVE  \/ Ordinary(r, r.queued[p])
                      \/ p = count /\ r.phase = "decided" /\ Deciding(r, r.queued[p])
    BY DEF WritesFit
  <2> HIDE DEF count
  <2>2. p \in 1..count-1 \/ p = count
    BY <2>1
  <2>3. QED
    BY <1>6, <2>1, <2>2
<1>7. ASSUME NEW event, AtEnd, WritesOn(r, event), Choice(r) = Choice(runner), Ordinary(r, event),
             IsOutcome(event) => /\ \E m \in 1..Len(events) : Schedules(events[m], event.key)
                                 /\ Undecided(events, event.key)
      PROVE  Goal
  <2>1. WritesFit(r)
    BY <1>6, <1>7
  <2>2. Choice(r) = <<"none", None, None>>
    BY <1>0, <1>7 DEF Choice
  <2>3. r.newTask = None /\ r.newTimer = None /\ r.decision = "none"
    BY <2>2 DEF Choice
  <2>4. Decided(r)
    BY <2>2, <2>3 DEF Decided, EndingDecisions
  <2>5. ~IsRetry(event)
    BY <1>7 DEF Ordinary
  <2>6. OutcomeIsLast(Written(r))
    BY <1>2, <1>5, <1>7, <2>5, AppendOrdered
  <2>7. QED
    BY <2>1, <2>4, <2>6
<1>8. ASSUME NEW event, AtEnd, WritesOn(r, event), Deciding(r, event), r.phase = "decided", Decided(r),
             ~IsRetry(event), ~IsOutcome(event)
      PROVE  Goal
  <2>1. WritesFit(r)
    BY <1>6, <1>8
  <2>2. OutcomeIsLast(Written(r))
    BY <1>2, <1>5, <1>8, AppendOrdered
  <2>3. QED
    BY <1>8, <2>1, <2>2
<1>9. ASSUME NEW event, ReadsOn(r, event), Choice(r) = Choice(runner)
      PROVE  Goal
  <2>1. Written(r) = events /\ runner.queued = <<>> /\ r.queued = <<>>
    BY <1>2, <1>9, Reading1
  <2>2. QED
    BY <1>4, <1>9, <2>1
<1>10. CASE Passing(r)
  <2>1. PICK event \in Event :
           /\ Meets(r, event) /\ Choice(r) = Choice(runner)
           /\ (~AtEnd /\ event.type \in LifecycleEvents) \/ IsCancel(event)
    BY <1>10 DEF Passing
  <2>2. CASE ReadsOn(r, event)
    BY <1>9, <2>1, <2>2
  <2>3. CASE AtEnd /\ WritesOn(r, event)
    <3>1. Ordinary(r, event) /\ ~IsOutcome(event)
      BY <2>1, <2>3 DEF Ordinary, IsCancel, Opens, EndingEvents, IsRetry, IsOutcome, OutcomeEvents
    <3>2. QED
      BY <1>7, <2>1, <2>3, <3>1
  <2>4. QED
    BY <2>1, <2>2, <2>3 DEF Meets
<1>11. CASE Starting(r) \/ Retrying(r)
  BY <1>9, <1>11 DEF Starting, Retrying
<1>12. CASE Ending(r)
  <2>1. PICK event \in Event :
           /\ EndsCall(event) /\ Choice(r) = Choice(runner)
           /\ runner.phase \in {"scheduled", "outcome"}
           /\ \/ ReadsOn(r, event)
              \/ /\ WritesOn(r, event) /\ NothingAwaited
                 /\ Call.op = "activity" =>
                      /\ runner.outcomes[Call.key] \in {"completed", "failed"}
                      /\ event.type = OutcomeEvent[runner.outcomes[Call.key]]
    BY <1>12 DEF Ending
  <2>2. CASE ReadsOn(r, event)
    BY <1>9, <2>1, <2>2
  <2>3. CASE ~ReadsOn(r, event)
    <3>1. AtEnd
      BY <1>2, <2>1, <2>3, AwaitsPastTheEnd
    <3>2. event.key = Call.key /\ event.type \notin EndingEvents /\ ~Opens(event) /\ ~IsRetry(event)
      BY <2>1 DEF EndsCall, IsOutcome, OutcomeEvents, EndingEvents, Opens, IsRetry
    <3>3. Call.key \in Keys
      <4>1. Called
        BY <2>1 DEF ReplayPosition, Called
      <4>2. Call.op \in {"activity", "timer"}
        BY <2>1 DEF EndsCall
      <4>3. QED
        BY <4>1, <4>2, CallType DEF Command
    <3>4. IsOutcome(event) => Call.op = "activity"
      BY <2>1 DEF EndsCall, IsOutcome, OutcomeEvents
    <3>5. Ordinary(r, event)
      BY <1>2, <2>1, <2>3, <3>2, <3>3, <3>4 DEF Ordinary
    <3>6. ASSUME IsOutcome(event)
          PROVE  /\ \E m \in 1..Len(events) : Schedules(events[m], event.key)
                 /\ Undecided(events, event.key)
      <4>1. PICK n \in 1..Position(runner) :
               /\ Awaits(events, n, Position(runner))
               /\ events[n].type = ScheduleOf(Call.op) /\ events[n].key = Call.key
        BY <1>2, <2>1, ZenonT(60) DEF Reached, AwaitsCall, Call
      <4>2. Position(runner) = Len(events)
        BY <1>2, <2>1, <2>3, <3>1, Writing
      <4>3. StillOpen(events, n) /\ n \in 1..Len(events)
        BY <4>1, <4>2 DEF Awaits, StillOpen
      <4>4. Schedules(events[n], event.key)
        BY <3>2, <3>4, <3>6, <4>1 DEF Schedules, ScheduleOf
      <4>5. Undecided(events, event.key)
        BY <1>1, <1>2, <3>2, <3>3, <4>3, <4>4, OpenIsUndecided
      <4>6. QED
        BY <4>3, <4>4, <4>5
    <3>7. QED
      BY <1>7, <2>1, <2>3, <3>1, <3>5, <3>6
  <2>4. QED
    BY <2>2, <2>3
<1>13. CASE Noting(r)
  <2>1. PICK event \in Event :
           /\ Meets(r, event) /\ Choice(r) = Choice(runner)
           /\ event.type \in {"signal.received", "marker.recorded"}
    BY <1>13 DEF Noting
  <2>2. Ordinary(r, event) /\ ~IsOutcome(event)
    BY <2>1 DEF Ordinary, Opens, EndingEvents, IsRetry, IsOutcome, OutcomeEvents
  <2>3. QED
    BY <1>7, <1>9, <2>1, <2>2 DEF Meets
<1>14. CASE Returning(r) \/ Blocking(r)
  <2>1. Place(r) = Place(runner)
        /\ (Choice(r) = Choice(runner) \/ (Choice(r) = <<"waiting", None, None>> /\ r.phase = "decided"))
    BY <1>0, <1>14 DEF Returning, Blocking
  <2>2. r.queued = runner.queued /\ Written(r) = events
    BY <2>1, StayingPut
  <2>3. QED
    BY <1>4, <2>1, <2>2
<1>15. CASE Scheduling(r)
  <2>1. PICK event \in Event :
           /\ WritesOn(r, event) /\ event.type = ScheduleOf(Call.op) /\ event.key = Call.key
           /\ AtEnd /\ Called /\ Call.op \in {"activity", "timer"} /\ r.phase = "decided"
           /\ Choice(r) = IF Call.op = "activity" THEN <<"waiting", Call.key, None>> ELSE <<"waiting", None, Call.key>>
    BY <1>0, <1>15 DEF Scheduling
  <2>2. Call.key \in Keys /\ Call.key # None
    BY <2>1, CallType, NoneIsNoKey DEF Command
  <2>3. r.queued # <<>> /\ LastQueued(r) = event
    BY <1>5, <2>1
  <2>4. CASE Call.op = "activity"
    <3>1. r.decision = "waiting" /\ r.newTask = Call.key /\ r.newTimer = None
      BY <2>1, <2>4 DEF Choice
    <3>2. Schedules(event, r.newTask) /\ ~IsRetry(event) /\ ~IsOutcome(event)
      BY <2>1, <2>4, <3>1 DEF Schedules, ScheduleOf, IsRetry, IsOutcome, OutcomeEvents
    <3>3. Deciding(r, event)
      BY <2>2, <3>1, <3>2 DEF Deciding
    <3>4. Decided(r)
      BY <2>1, <2>3, <3>1, <3>2 DEF Decided, EndingDecisions
    <3>5. QED
      BY <1>8, <2>1, <3>2, <3>3, <3>4
  <2>5. CASE Call.op = "timer"
    <3>1. r.decision = "waiting" /\ r.newTask = None /\ r.newTimer = Call.key
      BY <2>1, <2>5 DEF Choice
    <3>2. event.type = "timer.scheduled" /\ event.key = r.newTimer /\ ~IsRetry(event) /\ ~IsOutcome(event)
      BY <2>1, <2>5, <3>1 DEF ScheduleOf, IsRetry, IsOutcome, OutcomeEvents
    <3>3. Deciding(r, event)
      BY <2>2, <3>1, <3>2 DEF Deciding
    <3>4. Decided(r)
      BY <2>1, <2>3, <3>1, <3>2 DEF Decided, EndingDecisions
    <3>5. QED
      BY <1>8, <2>1, <3>2, <3>3, <3>4
  <2>6. QED
    BY <2>1, <2>4, <2>5
<1>16. CASE Finishing(r)
  <2>1. AtEnd
    <3> SUFFICES ASSUME ~AtEnd, Peek.type \in EndingEvents
                 PROVE  FALSE
      BY <1>16 DEF Finishing
    <3>1. runner.cursor <= Len(runner.log)
      BY <1>2 DEF Reached
    <3>2. QED
      BY <3>1, PeekType
  <2>2. /\ WritesOn(r, FinalEvent) /\ r.phase = "decided" /\ Choice(r) = <<runner.returned, None, None>>
        /\ runner.returned \in EndingDecisions
    BY <1>0, <1>16, <2>1 DEF Finishing, ReplayPosition, EndingDecisions
  <2>3. FinalEvent.type = EndingEvent[runner.returned]
    BY DEF FinalEvent, NewEvent
  <2>4. EndingEvent[runner.returned] \in EndingEvents
    BY <2>2 DEF EndingDecisions, EndingEvent, EndingEvents
  <2>5. r.decision = runner.returned /\ r.newTask = None /\ r.newTimer = None
    BY <2>2 DEF Choice
  <2>6. r.queued # <<>> /\ LastQueued(r) = FinalEvent
    BY <1>5, <2>1, <2>2
  <2>7. Deciding(r, FinalEvent) /\ Decided(r)
    BY <2>2, <2>3, <2>5, <2>6 DEF Deciding, Decided
  <2>8. ~IsRetry(FinalEvent) /\ ~IsOutcome(FinalEvent)
    BY <2>3, <2>4 DEF IsRetry, IsOutcome, OutcomeEvents, EndingEvents
  <2>9. QED
    BY <1>8, <2>1, <2>2, <2>7, <2>8
<1>17. CASE Leaving(r)
  <2>1. r.queued = <<>> /\ Choice(r) = <<"quarantined", None, None>> /\ r.phase = "decided"
    BY <1>17 DEF Leaving, Place
  <2>2. Written(r) = runner.log
    BY <1>2, <2>1, WrittenType
  <2>3. r.decision = "quarantined" /\ r.newTask = None /\ r.newTimer = None
    BY <2>1 DEF Choice
  <2>4. Decided(r)
    BY <2>1, <2>3 DEF Decided, EndingDecisions
  <2>5. WritesFit(r)
    BY <2>1 DEF WritesFit
  <2>6. QED
    BY <2>2, <2>4, <2>5
<1>18. QED
  BY <1>10, <1>11, <1>12, <1>13, <1>14, <1>15, <1>16, <1>17 DEF Moves

(***************************************************************************)
(* The run: its history, its tasks and its timers.                         *)
(***************************************************************************)

WorkIsAwaited == ~IsTerminal => Awaited(history)
NoEndingYet == ~IsTerminal => \A n \in 1..Len(history) : history[n].type \notin EndingEvents
HistoryIsOrdered == OutcomeIsLast(history) /\ ScheduledOnce(history)

\* A task has been scheduled, and an outcome in the history is the task's.
TaskHasEvents(k) ==
    /\ tasks[k].status = "none" <=> \A n \in 1..Len(history) : ~Schedules(history[n], k)
    /\ \A n \in 1..Len(history) : OutcomeOf(history[n], k) =>
         tasks[k].status \in {"completed", "failed"} /\ history[n].type = OutcomeEvent[tasks[k].status]

\* Every retry is of an attempt of its own, and leaves one.
RetriesOf(events, k) == {n \in 1..Len(events) : IsRetry(events[n]) /\ events[n].key = k}
RetriesCounted(k) ==
    LET retries == Cardinality(RetriesOf(history, k))
    IN /\ retries < MaxAttempts /\ retries <= tasks[k].attempts
       /\ tasks[k].status = "claimed" => retries < tasks[k].attempts

\* A timer is armed or due once, while it is awaited.
TimerRows(items, k) == {i \in 1..Len(items) : items[i] = TimerRow(k)}
TimerIsOpen(events, k) ==
    \E n \in 1..Len(events) : events[n].type = "timer.scheduled" /\ events[n].key = k /\ StillOpen(events, n)
TimerIsAwaited(k) ==
    /\ k \in armed \/ TimerRows(inbox, k) # {} => TimerIsOpen(history, k)
    /\ k \in armed => TimerRows(inbox, k) = {}
    /\ \A i, j \in TimerRows(inbox, k) : i = j

JournalInv ==
    /\ WorkIsAwaited /\ NoEndingYet /\ HistoryIsOrdered
    /\ \A k \in Keys : TaskHasEvents(k) /\ RetriesCounted(k)
    /\ ~IsTerminal => \A k \in Keys : TimerIsAwaited(k)
    /\ Replaying => ReplayInv(runner)

LEMMA RetriesAreCountable ==
  ASSUME NEW events \in Seq(Event), NEW k
  PROVE  /\ IsFiniteSet(RetriesOf(events, k)) /\ Cardinality(RetriesOf(events, k)) \in Nat
         /\ (\A n \in 1..Len(events) : ~(IsRetry(events[n]) /\ events[n].key = k)) =>
               Cardinality(RetriesOf(events, k)) = 0
<1>1. Len(events) \in Nat
  OBVIOUS
<1>2. IsFiniteSet(1..Len(events))
  BY <1>1, FS_Interval
<1>3. IsFiniteSet(RetriesOf(events, k))
  BY <1>2, FS_Subset DEF RetriesOf
<1>4. Cardinality(RetriesOf(events, k)) \in Nat
  BY <1>3, FS_CardinalityType
<1>5. ASSUME \A n \in 1..Len(events) : ~(IsRetry(events[n]) /\ events[n].key = k)
      PROVE  Cardinality(RetriesOf(events, k)) = 0
  <2>1. RetriesOf(events, k) = {}
    BY <1>5 DEF RetriesOf
  <2>2. QED
    BY <2>1, FS_EmptySet
<1>6. QED
  BY <1>3, <1>4, <1>5

LEMMA AppendTimerRow ==
  ASSUME NEW items \in Seq(InboxItem), NEW item \in InboxItem, NEW k
  PROVE  /\ \A i \in TimerRows(Append(items, item), k) : i \in TimerRows(items, k) \/ i = Len(items) + 1
         /\ item = TimerRow(k) => TimerRows(Append(items, item), k) # {}
         /\ item # TimerRow(k) => TimerRows(Append(items, item), k) = TimerRows(items, k)
<1> DEFINE longer == Append(items, item)
<1>1. /\ Len(longer) = Len(items) + 1 /\ longer[Len(items) + 1] = item /\ Len(items) \in Nat
      /\ \A i \in 1..Len(items) : longer[i] = items[i]
  OBVIOUS
<1> HIDE DEF longer
<1>2. \A i \in 1..Len(items)+1 : i \in 1..Len(items) \/ i = Len(items) + 1
  BY <1>1
<1>3. \A i \in 1..Len(items) : i \in 1..Len(items)+1
  BY <1>1
<1>4. Len(items) + 1 \in 1..Len(items)+1
  BY <1>1
<1>5. \A i \in TimerRows(longer, k) : i \in TimerRows(items, k) \/ i = Len(items) + 1
  BY <1>1, <1>2 DEF TimerRows
<1>6. item = TimerRow(k) => TimerRows(longer, k) # {}
  BY <1>1, <1>4 DEF TimerRows
<1>7. item # TimerRow(k) => TimerRows(longer, k) = TimerRows(items, k)
  BY <1>1, <1>2, <1>3 DEF TimerRows
<1>8. QED
  BY <1>5, <1>6, <1>7 DEF longer

LEMMA TimersGoOn ==
  ASSUME inbox \in Seq(InboxItem), armed \subseteq Keys, RowsGoOn, history' = history,
         \A k \in Keys : TimerIsAwaited(k)
  PROVE  \A k \in Keys : TimerIsAwaited(k)'
<1> SUFFICES ASSUME NEW k \in Keys
             PROVE  TimerIsAwaited(k)'
  OBVIOUS
<1>0. TimerIsAwaited(k) /\ (TimerIsOpen(history, k)' <=> TimerIsOpen(history, k))
  OBVIOUS
<1>1. CASE UNCHANGED <<armed, inbox>>
  BY <1>0, <1>1 DEF TimerIsAwaited
<1>2. CASE armed' = armed /\ \E item \in InboxItem : inbox' = Append(inbox, item) /\ item.kind # "timer"
  <2>1. PICK item \in InboxItem : inbox' = Append(inbox, item) /\ item.kind # "timer"
    BY <1>2
  <2>2. item # TimerRow(k)
    BY <2>1 DEF TimerRow
  <2>3. TimerRows(inbox, k)' = TimerRows(inbox, k)
    BY <2>1, <2>2, AppendTimerRow DEF TimerRows
  <2>4. QED
    BY <1>0, <1>2, <2>3 DEF TimerIsAwaited
<1>3. CASE \E j \in armed : armed' = armed \ {j} /\ inbox' = Append(inbox, TimerRow(j))
  <2>1. PICK j \in armed : armed' = armed \ {j} /\ inbox' = Append(inbox, TimerRow(j))
    BY <1>3
  <2>2. TimerRow(j) \in InboxItem
    BY <2>1 DEF TimerRow, InboxItem
  <2>3. TimerRows(inbox, k)' = TimerRows(inbox', k)
    BY DEF TimerRows
  <2>4. CASE j = k
    <3>1. TimerRows(inbox, k) = {} /\ TimerIsOpen(history, k) /\ k \notin armed'
      BY <1>0, <2>1, <2>4 DEF TimerIsAwaited
    <3>2. \A i \in TimerRows(inbox', k) : i = Len(inbox) + 1
      BY <2>1, <2>2, <3>1, AppendTimerRow
    <3>3. QED
      BY <1>0, <2>3, <3>1, <3>2 DEF TimerIsAwaited
  <2>5. CASE j # k
    <3>1. TimerRow(j) # TimerRow(k)
      BY <2>5 DEF TimerRow
    <3>2. TimerRows(inbox', k) = TimerRows(inbox, k)
      BY <2>1, <2>2, <3>1, AppendTimerRow
    <3>3. k \in armed' <=> k \in armed
      BY <2>1, <2>5
    <3>4. QED
      BY <1>0, <2>3, <3>2, <3>3 DEF TimerIsAwaited
  <2>6. QED
    BY <2>4, <2>5
<1>4. QED
  BY <1>1, <1>2, <1>3 DEF RowsGoOn

LEMMA AttemptsGoOn ==
  ASSUME TypeOK, NEW k \in Keys, history' = history, TaskGoesOn(k), TaskHasEvents(k), RetriesCounted(k),
         tasks'[k] \in Task
  PROVE  TaskHasEvents(k)' /\ RetriesCounted(k)'
<1>0. tasks[k] \in Task /\ history \in Seq(Event) /\ MaxAttempts \in Nat \ {0}
  BY AttemptLimit DEF TypeOK
<1>1. CASE tasks'[k] = tasks[k]
  BY <1>1 DEF TaskHasEvents, RetriesCounted
<1>2. CASE tasks'[k] # tasks[k]
  <2>1. OpenTask(k) /\ tasks'[k].status # "none"
    BY <1>2 DEF TaskGoesOn
  <2>2. tasks[k].status # "none" /\ \A n \in 1..Len(history) : ~OutcomeOf(history[n], k)
    BY <2>1 DEF OpenTask, TaskHasEvents
  <2>3. TaskHasEvents(k)'
    BY <2>1, <2>2 DEF TaskHasEvents
  <2> DEFINE retries == Cardinality(RetriesOf(history, k))
  <2>4. retries \in Nat
    BY <1>0, RetriesAreCountable
  <2>5. /\ retries < MaxAttempts /\ retries <= tasks[k].attempts
        /\ tasks[k].status = "claimed" => retries < tasks[k].attempts
    BY DEF RetriesCounted
  <2>6. retries' = retries
    OBVIOUS
  <2> HIDE DEF retries
  <2>7. /\ retries <= tasks'[k].attempts
        /\ tasks'[k].status = "claimed" => retries < tasks'[k].attempts
    <3>1. tasks[k].attempts \in 0..MaxAttempts
      BY <1>0 DEF Task
    <3>2. CASE tasks'[k].attempts = tasks[k].attempts /\ (tasks'[k].status = "claimed" => tasks[k].status = "claimed")
      BY <2>5, <3>2
    <3>3. CASE tasks'[k].attempts = NextAttempt(tasks[k].attempts)
      BY <1>0, <2>4, <2>5, <3>1, <3>3 DEF NextAttempt
    <3>4. QED
      BY <1>2, <3>2, <3>3 DEF TaskGoesOn
  <2>8. RetriesCounted(k)'
    BY <2>5, <2>6, <2>7 DEF RetriesCounted, retries
  <2>9. QED
    BY <2>3, <2>8
<1>3. QED
  BY <1>1, <1>2

\* An activation that reads on while tasks are executed has read what they are now.
LEMMA ReadOutcomesStay ==
  ASSUME runner \in Runner, ReplayInv(runner), runner' = runner, \A k \in Keys : TaskGoesOn(k)
  PROVE  ReplayInv(runner)'
<1>1. ReadsOutcomes(runner)
  BY DEF ReplayInv
<1>2. ASSUME NEW k \in Keys, runner.outcomes[k] # "none"
      PROVE  tasks'[k].status = runner.outcomes[k]
  <2>1. runner.outcomes[k] \in {"completed", "failed"}
    BY <1>2 DEF Runner, Outcomes
  <2>2. tasks[k].status = runner.outcomes[k]
    BY <1>1, <1>2 DEF ReadsOutcomes
  <2>3. QED
    BY <2>1, <2>2 DEF TaskGoesOn, OpenTask
<1>3. ReadsOutcomes(runner)'
  BY <1>2 DEF ReadsOutcomes
<1>4. QED
  BY <1>3 DEF ReplayInv

LEMMA GoesKeepsJournal ==
  ASSUME Types, JournalInv, Goes, tasks' \in [Keys -> Task]
  PROVE  JournalInv'
<1>0. TypeOK /\ runner \in Runner /\ inbox \in Seq(InboxItem) /\ armed \subseteq Keys
  BY TypesAreTypeOK DEF TypeOK
<1>1. history' = history /\ IsTerminal' = IsTerminal /\ (\A k \in Keys : TaskGoesOn(k)) /\ RowsGoOn
  BY DEF Goes
<1>2. WorkIsAwaited' /\ NoEndingYet' /\ HistoryIsOrdered'
  BY <1>1 DEF JournalInv, WorkIsAwaited, NoEndingYet, HistoryIsOrdered
<1>3. \A k \in Keys : TaskHasEvents(k)' /\ RetriesCounted(k)'
  BY <1>0, <1>1, AttemptsGoOn DEF JournalInv
<1>4. ~IsTerminal' => \A k \in Keys : TimerIsAwaited(k)'
  BY <1>0, <1>1, TimersGoOn DEF JournalInv
<1>5. Replaying' => ReplayInv(runner)'
  BY <1>0, <1>1, ReadOutcomesStay DEF Goes, JournalInv
<1>6. QED
  BY <1>2, <1>3, <1>4, <1>5 DEF JournalInv

\* Only one piece of work goes on at a time.
LEMMA OneOpen ==
  ASSUME NEW events \in Seq(Event), NEW m \in 1..Len(events), NEW n \in 1..Len(events),
         Opens(events[m]), Opens(events[n]), StillOpen(events, m), StillOpen(events, n)
  PROVE  m = n
<1>1. Len(events) \in Nat
  OBVIOUS
<1>2. /\ ~(n \in m+1..Len(events)) /\ ~(m \in n+1..Len(events))
  BY <1>1, EndedOrOpen DEF StillOpen
<1>3. QED
  BY <1>1, <1>2

LEMMA AppendRetries ==
  ASSUME NEW events \in Seq(Event), NEW event \in Event, NEW k
  PROVE  /\ IsRetry(event) /\ event.key = k =>
               Cardinality(RetriesOf(Append(events, event), k)) = Cardinality(RetriesOf(events, k)) + 1
         /\ ~(IsRetry(event) /\ event.key = k) => RetriesOf(Append(events, event), k) = RetriesOf(events, k)
<1> DEFINE later == Append(events, event)
           next == Len(events) + 1
<1>0. /\ later \in Seq(Event) /\ Len(later) = next /\ later[next] = event /\ Len(events) \in Nat
      /\ \A n \in 1..Len(events) : later[n] = events[n]
  BY AppendedEvents DEF Agree
<1> HIDE DEF later
<1>1. \A n \in 1..next : n \in 1..Len(events) \/ n = next
  BY <1>0
<1>2. /\ \A n \in 1..Len(events) : n \in 1..next
      /\ next \in 1..next /\ next \notin 1..Len(events)
  BY <1>0
<1> HIDE DEF next
<1>3. ASSUME IsRetry(event), event.key = k
      PROVE  Cardinality(RetriesOf(later, k)) = Cardinality(RetriesOf(events, k)) + 1
  <2>1. RetriesOf(later, k) = RetriesOf(events, k) \cup {next}
    BY <1>0, <1>1, <1>2, <1>3 DEF RetriesOf
  <2>2. IsFiniteSet(RetriesOf(events, k)) /\ next \notin RetriesOf(events, k)
    BY <1>2, RetriesAreCountable DEF RetriesOf
  <2>3. QED
    BY <2>1, <2>2, FS_AddElement
<1>4. ASSUME ~(IsRetry(event) /\ event.key = k)
      PROVE  RetriesOf(later, k) = RetriesOf(events, k)
  BY <1>0, <1>1, <1>2, <1>4 DEF RetriesOf
<1>5. QED
  BY <1>3, <1>4 DEF later

LEMMA AppendTask ==
  ASSUME TypeOK, NEW k \in Keys, NEW event \in Event, history' = Append(history, event),
         ~Opens(event), ~IsOutcome(event), TaskHasEvents(k), RetriesCounted(k), tasks'[k] \in Task,
         \/ tasks'[k] = tasks[k]
         \/ /\ OpenTask(k) /\ tasks'[k].status \notin {"none", "claimed"}
            /\ tasks'[k].attempts = tasks[k].attempts,
         IsRetry(event) /\ event.key = k =>
            tasks[k].status = "claimed" /\ tasks[k].attempts < MaxAttempts /\ tasks'[k].status # "claimed"
  PROVE  TaskHasEvents(k)' /\ RetriesCounted(k)'
<1> DEFINE later == Append(history, event)
           next == Len(history) + 1
<1>0. /\ history \in Seq(Event) /\ Len(later) = next /\ later[next] = event /\ Len(history) \in Nat
      /\ \A n \in 1..Len(history) : later[n] = history[n]
      /\ tasks[k] \in Task /\ MaxAttempts \in Nat
  BY AppendedEvents, AttemptLimit DEF Agree, TypeOK
<1>1. /\ \A n \in 1..next : n \in 1..Len(history) \/ n = next
      /\ \A n \in 1..Len(history) : n \in 1..next
  BY <1>0
<1>2. history' = later
  OBVIOUS
<1> HIDE DEF later, next
<1>3. ~Schedules(event, k) /\ ~OutcomeOf(event, k)
  BY DEF Schedules, OutcomeOf, Opens
<1>4. (\A n \in 1..next : ~Schedules(later[n], k)) <=> (\A n \in 1..Len(history) : ~Schedules(history[n], k))
  BY <1>0, <1>1, <1>3
<1>5. ASSUME NEW n \in 1..next, OutcomeOf(later[n], k)
      PROVE  n \in 1..Len(history) /\ later[n] = history[n] /\ OutcomeOf(history[n], k)
  BY <1>0, <1>1, <1>3, <1>5
<1>6. TaskHasEvents(k)'
  <2>1. CASE tasks'[k] = tasks[k]
    <3>1. tasks'[k].status = "none" <=> \A n \in 1..next : ~Schedules(later[n], k)
      BY <1>4, <2>1 DEF TaskHasEvents
    <3>2. \A n \in 1..next : OutcomeOf(later[n], k) =>
             tasks'[k].status \in {"completed", "failed"} /\ later[n].type = OutcomeEvent[tasks'[k].status]
      BY <1>5, <2>1 DEF TaskHasEvents
    <3>3. QED
      BY <1>0, <1>2, <3>1, <3>2 DEF TaskHasEvents
  <2>2. CASE OpenTask(k) /\ tasks'[k].status \notin {"none", "claimed"}
    <3>1. tasks[k].status # "none" /\ \A n \in 1..Len(history) : ~OutcomeOf(history[n], k)
      BY <2>2 DEF OpenTask, TaskHasEvents
    <3>2. tasks'[k].status # "none" /\ ~(\A n \in 1..next : ~Schedules(later[n], k))
      BY <1>4, <2>2, <3>1 DEF TaskHasEvents
    <3>3. \A n \in 1..next : ~OutcomeOf(later[n], k)
      BY <1>5, <3>1
    <3>4. QED
      BY <1>0, <1>2, <3>2, <3>3 DEF TaskHasEvents
  <2>3. QED
    BY <2>1, <2>2
<1>7. RetriesCounted(k)'
  <2> DEFINE before == Cardinality(RetriesOf(history, k))
             after == Cardinality(RetriesOf(later, k))
  <2>1. before \in Nat
    BY <1>0, RetriesAreCountable
  <2>2. /\ IsRetry(event) /\ event.key = k => after = before + 1
        /\ ~(IsRetry(event) /\ event.key = k) => after = before
    BY <1>0, AppendRetries DEF later
  <2>3. /\ before < MaxAttempts /\ before <= tasks[k].attempts
        /\ tasks[k].status = "claimed" => before < tasks[k].attempts
    BY DEF RetriesCounted
  <2> HIDE DEF before, after
  <2>4. /\ tasks'[k].attempts = tasks[k].attempts /\ (tasks'[k].status = "claimed" => tasks'[k] = tasks[k])
        /\ tasks[k].attempts \in 0..MaxAttempts
    BY <1>0 DEF Task
  <2>5. /\ after < MaxAttempts /\ after <= tasks'[k].attempts
        /\ tasks'[k].status = "claimed" => after < tasks'[k].attempts
    <3>1. CASE IsRetry(event) /\ event.key = k
      BY <1>0, <2>1, <2>2, <2>3, <2>4, <3>1
    <3>2. CASE ~(IsRetry(event) /\ event.key = k)
      <4>1. after = before
        BY <2>2, <3>2
      <4>2. CASE tasks'[k] = tasks[k]
        BY <2>3, <4>1, <4>2
      <4>3. CASE tasks'[k] # tasks[k]
        BY <2>3, <2>4, <4>1, <4>3
      <4>4. QED
        BY <4>2, <4>3
    <3>3. QED
      BY <3>1, <3>2
  <2>6. QED
    BY <1>2, <2>5 DEF RetriesCounted, after
<1>8. QED
  BY <1>6, <1>7

LEMMA RetriedKeepsJournal ==
  ASSUME Types, JournalInv, Retried, tasks' \in [Keys -> Task]
  PROVE  JournalInv'
<1>0. TypeOK /\ history \in Seq(Event) /\ Len(history) \in Nat
  BY TypesAreTypeOK DEF TypeOK
<1>1. PICK a \in ActivityWorkers :
        /\ aw[a].key \in Keys /\ HoldsTask(a) /\ MayRetry(a)
        /\ tasks' = TaskSetTo(aw[a].key, "queued")
        /\ history' = Append(history, NewEvent("activity.retry_scheduled", aw[a].key, 0))
  BY DEF Retried
<1> DEFINE key == aw[a].key
           event == NewEvent("activity.retry_scheduled", key, 0)
<1>2. /\ event \in Event /\ IsRetry(event) /\ event.key = key
      /\ ~Opens(event) /\ ~IsOutcome(event) /\ ~IsCancel(event) /\ event.type \notin EndingEvents
  <2>1. "activity.retry_scheduled" \in EventTypes
    BY DEF EventTypes
  <2>2. event \in Event
    BY <1>1, <2>1, EventType
  <2>3. event.type = "activity.retry_scheduled" /\ event.key = key
    BY DEF NewEvent
  <2>4. QED
    BY <2>2, <2>3 DEF IsRetry, Opens, IsOutcome, OutcomeEvents, IsCancel, EndingEvents
<1>3. history' = Append(history, event) /\ key \in Keys
  BY <1>1
<1> HIDE DEF event
<1>4. tasks[key].status = "claimed" /\ tasks[key].attempts < MaxAttempts
  BY <1>1 DEF HoldsTask, MayRetry
<1>5. /\ \A k \in Keys \ {key} : tasks'[k] = tasks[k]
      /\ tasks'[key].status = "queued" /\ tasks'[key].attempts = tasks[key].attempts
  BY <1>0, <1>1 DEF TaskSetTo, TypeOK, Task
<1> HIDE DEF key
<1>6. \A k \in Keys : TaskHasEvents(k)' /\ RetriesCounted(k)'
  <2> SUFFICES ASSUME NEW k \in Keys
               PROVE  TaskHasEvents(k)' /\ RetriesCounted(k)'
    OBVIOUS
  <2>1. tasks'[k] \in Task /\ TaskHasEvents(k) /\ RetriesCounted(k)
    BY DEF JournalInv
  <2>2. CASE k = key
    <3>1. /\ OpenTask(k) /\ tasks'[k].status \notin {"none", "claimed"} /\ tasks'[k].attempts = tasks[k].attempts
          /\ tasks[k].status = "claimed" /\ tasks[k].attempts < MaxAttempts /\ tasks'[k].status # "claimed"
      BY <1>4, <1>5, <2>2 DEF OpenTask
    <3>2. QED
      BY <1>0, <1>2, <1>3, <2>1, <3>1, AppendTask
  <2>3. CASE k # key
    <3>1. tasks'[k] = tasks[k] /\ event.key # k
      BY <1>2, <1>5, <2>3
    <3>2. QED
      BY <1>0, <1>2, <1>3, <2>1, <3>1, AppendTask
  <2>4. QED
    BY <2>2, <2>3
<1>7. PICK s \in 1..Len(history) : Schedules(history[s], key)
  BY <1>3, <1>4 DEF JournalInv, TaskHasEvents
<1>8. Undecided(history, key)
  BY <1>3, <1>4 DEF JournalInv, TaskHasEvents, Undecided
<1>9. HistoryIsOrdered'
  <2>1. OutcomeIsLast(history) /\ ScheduledOnce(history)
    BY DEF JournalInv, HistoryIsOrdered
  <2>2. OutcomeIsLast(Append(history, event))
    BY <1>0, <1>2, <1>7, <1>8, <2>1, AppendOrdered
  <2>3. event.type # "activity.scheduled"
    BY <1>2 DEF Opens
  <2>4. ScheduledOnce(Append(history, event))
    BY <1>0, <1>2, <2>1, <2>3, AppendOnce
  <2>5. QED
    BY <1>3, <2>2, <2>4 DEF HistoryIsOrdered
<1>10. ASSUME ~IsTerminal
       PROVE  /\ Awaited(history) /\ Opens(history[s]) /\ StillOpen(history, s)
              /\ \A n \in 1..Len(history) : Opens(history[n]) /\ StillOpen(history, n) => n = s
  <2>1. Awaited(history) /\ Opens(history[s])
    BY <1>7, <1>10 DEF JournalInv, WorkIsAwaited, Opens, Schedules
  <2>2. ~ClosedBy(history, s, Len(history))
    <3> SUFFICES ASSUME NEW p \in s+1..Len(history), Completes(history[s], history[p])
                 PROVE  FALSE
      BY DEF ClosedBy
    <3>1. OutcomeOf(history[p], key)
      BY <1>7 DEF Completes, Schedules, OutcomeOf
    <3>2. p \in 1..Len(history)
      BY <1>0
    <3>3. QED
      BY <1>8, <3>1, <3>2 DEF Undecided
  <2>3. StillOpen(history, s)
    BY <2>1, <2>2 DEF Awaited
  <2>4. QED
    BY <1>0, <2>1, <2>3, OneOpen
<1>11. IsTerminal' = IsTerminal
  BY DEF Retried, IsTerminal
<1>12. WorkIsAwaited'
  <2> SUFFICES ASSUME ~IsTerminal
               PROVE  Awaited(Append(history, event))
    BY <1>3, <1>11 DEF WorkIsAwaited
  <2>1. Passes(history[s], event)
    BY <1>2, <1>7 DEF Passes, Schedules
  <2>2. QED
    BY <1>0, <1>2, <1>10, <2>1, AppendAwaited
<1>13. NoEndingYet'
  <2>1. \A n \in 1..Len(history)+1 : n \in 1..Len(history) \/ n = Len(history) + 1
    BY <1>0
  <2>2. /\ Len(history') = Len(history) + 1 /\ history'[Len(history) + 1] = event
        /\ \A n \in 1..Len(history) : history'[n] = history[n]
    BY <1>0, <1>2, <1>3, AppendedEvents DEF Agree
  <2>3. QED
    BY <1>2, <1>11, <2>1, <2>2 DEF JournalInv, NoEndingYet
<1>14. ~IsTerminal' => \A k \in Keys : TimerIsAwaited(k)'
  <2> SUFFICES ASSUME ~IsTerminal, NEW k \in Keys
               PROVE  TimerIsAwaited(k)'
    BY <1>11
  <2>1. ~TimerIsOpen(history, k)
    BY <1>7, <1>10 DEF TimerIsOpen, Opens, Schedules
  <2>2. k \notin armed /\ TimerRows(inbox, k) = {}
    BY <2>1 DEF JournalInv, TimerIsAwaited
  <2>3. k \notin armed' /\ TimerRows(inbox, k)' = {}
    BY <2>2 DEF Retried
  <2>4. QED
    BY <2>3 DEF TimerIsAwaited
<1>15. ~Replaying'
  BY DEF Retried
<1>16. QED
  BY <1>6, <1>9, <1>12, <1>13, <1>14, <1>15 DEF JournalInv

LEMMA InterruptedKeepsJournal ==
  ASSUME Types, JournalInv, Interrupted
  PROVE  JournalInv'
<1>0. TypeOK /\ history \in Seq(Event) /\ Len(history) \in Nat
  BY TypesAreTypeOK DEF TypeOK
<1>1. PICK type \in LifecycleEvents : history' = Append(history, NewEvent(type, None, 0))
  BY DEF Interrupted
<1> DEFINE event == NewEvent(type, None, 0)
<1>2. /\ event \in Event /\ event.type \in LifecycleEvents
      /\ ~Opens(event) /\ ~IsOutcome(event) /\ ~IsRetry(event) /\ ~IsCancel(event) /\ event.type \notin EndingEvents
  <2>1. type \in EventTypes
    BY DEF EventTypes
  <2>2. event \in Event
    BY <2>1, EventType
  <2>3. event.type = type
    BY DEF NewEvent
  <2>4. QED
    BY <2>2, <2>3 DEF LifecycleEvents, IsRetry, Opens, IsOutcome, OutcomeEvents, IsCancel, EndingEvents
<1>3. history' = Append(history, event)
  BY <1>1
<1> HIDE DEF event
<1>4. /\ Len(history') = Len(history) + 1 /\ history'[Len(history) + 1] = event
      /\ \A n \in 1..Len(history) : history'[n] = history[n]
      /\ Agree(history, history', Len(history)) /\ history' \in Seq(Event)
  BY <1>0, <1>2, <1>3, AppendedEvents DEF Agree
<1>5. ~IsTerminal /\ ~IsTerminal' /\ tasks' = tasks /\ armed' = armed /\ inbox' = inbox /\ ~Replaying'
  BY DEF Interrupted
<1>6. \A k \in Keys : TaskHasEvents(k)' /\ RetriesCounted(k)'
  <2> SUFFICES ASSUME NEW k \in Keys
               PROVE  TaskHasEvents(k)' /\ RetriesCounted(k)'
    OBVIOUS
  <2>1. tasks'[k] \in Task /\ tasks'[k] = tasks[k] /\ TaskHasEvents(k) /\ RetriesCounted(k)
    BY <1>0, <1>5 DEF JournalInv, TypeOK
  <2>2. QED
    BY <1>0, <1>2, <1>3, <2>1, AppendTask
<1>7. HistoryIsOrdered'
  <2>1. OutcomeIsLast(history) /\ ScheduledOnce(history)
    BY DEF JournalInv, HistoryIsOrdered
  <2>2. OutcomeIsLast(Append(history, event))
    BY <1>0, <1>2, <2>1, AppendOrdered
  <2>3. event.type # "activity.scheduled"
    BY <1>2 DEF Opens
  <2>4. ScheduledOnce(Append(history, event))
    BY <1>0, <1>2, <2>1, <2>3, AppendOnce
  <2>5. QED
    BY <1>3, <2>2, <2>4 DEF HistoryIsOrdered
<1>8. WorkIsAwaited'
  <2>1. Awaited(history) /\ \A opening : Passes(opening, event)
    BY <1>2, <1>5 DEF JournalInv, WorkIsAwaited, Passes
  <2>2. Awaited(Append(history, event))
    BY <1>0, <1>2, <2>1, AppendAwaited
  <2>3. QED
    BY <1>3, <2>2 DEF WorkIsAwaited
<1>9. NoEndingYet'
  <2>1. \A n \in 1..Len(history)+1 : n \in 1..Len(history) \/ n = Len(history) + 1
    BY <1>0
  <2>2. QED
    BY <1>2, <1>4, <1>5, <2>1 DEF JournalInv, NoEndingYet
<1>10. ASSUME NEW k \in Keys
       PROVE  TimerIsAwaited(k)'
  <2>1. TimerIsOpen(history, k) => TimerIsOpen(history', k)
    <3> SUFFICES ASSUME NEW n \in 1..Len(history), history[n].type = "timer.scheduled", history[n].key = k,
                        StillOpen(history, n)
                 PROVE  TimerIsOpen(history', k)
      BY DEF TimerIsOpen
    <3>1. GoesOn(history', n, Len(history) + 1)
      BY <1>0, <1>4, AgreeingGoesOn DEF StillOpen
    <3>2. \A m \in n+1..(Len(history)+2)-1 : m \in n+1..(Len(history)+1)-1 \/ m = Len(history) + 1
      BY <1>0
    <3>3. Passes(history'[n], event) /\ ~IsCancel(event)
      BY <1>2 DEF Passes
    <3>4. GoesOn(history', n, Len(history) + 2)
      BY <1>4, <3>1, <3>2, <3>3 DEF GoesOn
    <3>5. StillOpen(history', n)
      <4>1. Len(history') + 1 = Len(history) + 2
        BY <1>0, <1>4
      <4>2. QED
        BY <3>4, <4>1 DEF StillOpen
    <3>6. n \in 1..Len(history') /\ history'[n] = history[n]
      BY <1>0, <1>4
    <3>7. QED
      BY <3>5, <3>6 DEF TimerIsOpen
  <2>2. TimerIsAwaited(k)
    BY <1>5 DEF JournalInv
  <2>3. TimerRows(inbox, k)' = TimerRows(inbox, k) /\ (TimerIsOpen(history, k)' <=> TimerIsOpen(history', k))
    BY <1>5 DEF TimerRows, TimerIsOpen
  <2>4. QED
    BY <1>5, <2>1, <2>2, <2>3 DEF TimerIsAwaited
<1>11. QED
  BY <1>5, <1>6, <1>7, <1>8, <1>9, <1>10 DEF JournalInv

LEMMA CancelledTask ==
  ASSUME TypeOK, tasks' = CancelledTasks, NEW k \in Keys
  PROVE  \/ tasks'[k] = tasks[k] /\ ~OpenTask(k)
         \/ OpenTask(k) /\ tasks'[k].status = "cancelled" /\ tasks'[k].attempts = tasks[k].attempts
BY DEF CancelledTasks, TypeOK, Task

LEMMA StoppedKeepsJournal ==
  ASSUME Types, JournalInv, Stopped, tasks' \in [Keys -> Task]
  PROVE  JournalInv'
<1>0. TypeOK /\ history \in Seq(Event)
  BY TypesAreTypeOK DEF TypeOK
<1>1. ~Replaying' /\ IsTerminal' /\ history' = Append(history, NewEvent(StatusEvent[status'], None, 0))
      /\ (tasks' = CancelledTasks \/ tasks' = tasks)
  BY DEF Stopped
<1>2. status' \in {"completed", "failed", "cancelled", "terminated"}
  BY <1>1 DEF IsTerminal, TerminalStatuses
<1> DEFINE type == StatusEvent[status']
           event == NewEvent(type, None, 0)
<1>3. type \in EndingEvents
  BY <1>2 DEF StatusEvent, EndingEvents
<1> HIDE DEF type
<1>4. /\ event \in Event /\ ~Opens(event) /\ ~IsOutcome(event) /\ ~IsRetry(event)
  <2>1. type \in EventTypes
    BY <1>3 DEF EventTypes
  <2>2. event \in Event
    BY <2>1, EventType
  <2>3. event.type = type
    BY DEF NewEvent
  <2>4. QED
    BY <1>3, <2>2, <2>3 DEF EndingEvents, IsRetry, Opens, IsOutcome, OutcomeEvents
<1>5. history' = Append(history, event)
  BY <1>1 DEF type
<1> HIDE DEF event
<1>6. \A k \in Keys : TaskHasEvents(k)' /\ RetriesCounted(k)'
  <2> SUFFICES ASSUME NEW k \in Keys
               PROVE  TaskHasEvents(k)' /\ RetriesCounted(k)'
    OBVIOUS
  <2>1. tasks'[k] \in Task /\ TaskHasEvents(k) /\ RetriesCounted(k)
    BY DEF JournalInv
  <2>2. \/ tasks'[k] = tasks[k]
        \/ /\ OpenTask(k) /\ tasks'[k].status \notin {"none", "claimed"}
           /\ tasks'[k].attempts = tasks[k].attempts
    BY <1>0, <1>1, CancelledTask
  <2>3. QED
    BY <1>0, <1>4, <1>5, <2>1, <2>2, AppendTask
<1>7. HistoryIsOrdered'
  <2>1. OutcomeIsLast(history) /\ ScheduledOnce(history)
    BY DEF JournalInv, HistoryIsOrdered
  <2>2. OutcomeIsLast(Append(history, event))
    BY <1>0, <1>4, <2>1, AppendOrdered
  <2>3. event.type # "activity.scheduled"
    BY <1>4 DEF Opens
  <2>4. ScheduledOnce(Append(history, event))
    BY <1>0, <1>4, <2>1, <2>3, AppendOnce
  <2>5. QED
    BY <1>5, <2>2, <2>4 DEF HistoryIsOrdered
<1>8. QED
  BY <1>1, <1>6, <1>7 DEF JournalInv, WorkIsAwaited, NoEndingYet

\* What an activation leaves alone.
LEMMA UntouchedJournal ==
  ASSUME JournalInv, UNCHANGED <<history, tasks, armed, inbox>>, IsTerminal' = IsTerminal,
         Replaying' => ReplayInv(runner)'
  PROVE  JournalInv'
<1>1. WorkIsAwaited' /\ NoEndingYet' /\ HistoryIsOrdered'
  BY DEF JournalInv, WorkIsAwaited, NoEndingYet, HistoryIsOrdered
<1>2. \A k \in Keys : TaskHasEvents(k)' /\ RetriesCounted(k)'
  BY DEF JournalInv, TaskHasEvents, RetriesCounted
<1>3. ~IsTerminal' => \A k \in Keys : TimerIsAwaited(k)'
  BY DEF JournalInv, TimerIsAwaited
<1>4. QED
  BY <1>1, <1>2, <1>3 DEF JournalInv

LEMMA ActivatesKeepsJournal ==
  ASSUME Types, JournalInv, Activates, runner' \in Runner
  PROVE  JournalInv'
<1>0. TypeOK /\ history \in Seq(Event)
  BY TypesAreTypeOK DEF TypeOK
<1>1. PICK w \in Workers, frontier \in SUBSET Nat :
        runner' = NewRunner(Deployed[w], history, frontier, [k \in Keys |-> ReadOutcome(k)])
  BY DEF Activates
<1> DEFINE r == runner'
<1>2. /\ r.log = history /\ r.queued = <<>> /\ r.cursor = 0 /\ r.phase = "call"
      /\ r.decision = "none" /\ r.newTask = None /\ r.newTimer = None
      /\ r.outcomes = [k \in Keys |-> ReadOutcome(k)]
  BY <1>1 DEF NewRunner
<1>3. ~IsTerminal /\ ~IsTerminal' /\ UNCHANGED <<history, tasks, armed, inbox>>
  BY DEF Activates
<1>4. Written(r) = history /\ Len(r.log) \in Nat
  BY <1>2, WrittenType
<1> HIDE DEF r
<1>5. Awaited(Written(r)) /\ OutcomeIsLast(Written(r))
  BY <1>3, <1>4 DEF JournalInv, WorkIsAwaited, HistoryIsOrdered
<1>6. Reached(r)
  <2>1. Position(r) = 0
    BY <1>2 DEF Position
  <2>2. AllClosed(Written(r), Position(r))
    BY <2>1 DEF AllClosed
  <2>3. QED
    BY <1>2, <1>4, <2>2 DEF Reached
<1>7. WritesFit(r)
  BY <1>2 DEF WritesFit
<1>8. Decided(r)
  BY <1>2 DEF Decided, Choice, EndingDecisions
<1>9. ReadsOutcomes(runner)'
  <2> SUFFICES ASSUME NEW k \in Keys, r.outcomes[k] # "none"
               PROVE  tasks'[k].status = r.outcomes[k]
    BY DEF ReadsOutcomes, r
  <2>1. r.outcomes[k] = ReadOutcome(k)
    BY <1>2
  <2>2. QED
    BY <1>3, <2>1 DEF ReadOutcome
<1>10. ReplayInv(runner)'
  BY <1>5, <1>6, <1>7, <1>8, <1>9 DEF ReplayInv, r
<1>11. IsTerminal' = IsTerminal
  BY <1>3 DEF IsTerminal
<1>12. QED
  BY <1>3, <1>10, <1>11, UntouchedJournal

LEMMA ReplaysOnKeepsJournal ==
  ASSUME Types, Locking, JournalInv, ReplaysOn, runner' \in Runner
  PROVE  JournalInv'
<1>0. TypeOK /\ runner \in Runner /\ ReplayPosition
  BY TypesAreTypeOK DEF TypeOK
<1>1. Replaying /\ ReplayStep /\ UNCHANGED <<history, tasks, armed, inbox, status>>
  BY DEF ReplaysOn
<1>2. ~IsTerminal /\ runner.log = history
  BY <1>1, ReplayingIsLocked
<1>3. ReplayInv(runner) /\ Awaited(history) /\ OutcomeIsLast(history) /\ ScheduledOnce(history)
      /\ \A n \in 1..Len(history) : history[n].type \notin EndingEvents
  BY <1>1, <1>2 DEF JournalInv, WorkIsAwaited, HistoryIsOrdered, NoEndingYet
<1>4. /\ Awaited(runner.log) /\ OutcomeIsLast(runner.log) /\ ScheduledOnce(runner.log)
      /\ \A n \in 1..Len(runner.log) : runner.log[n].type \notin EndingEvents
  BY <1>2, <1>3
<1>5. Reached(runner) /\ Awaited(Written(runner)) /\ ReadsOutcomes(runner)
  BY <1>3 DEF ReplayInv
<1>6. Track(runner') = Track(runner) /\ Moves(runner')
  BY <1>0, <1>1, <1>5, ReplayMoves DEF Reached
<1>7. Awaited(Written(runner')) /\ Reached(runner')
  BY <1>0, <1>4, <1>5, <1>6, ReplayIsAwaited
<1>8. OutcomeIsLast(Written(runner')) /\ WritesFit(runner') /\ Decided(runner')
  BY <1>0, <1>3, <1>4, <1>6, ReplayWritesFit
<1>9. ReadsOutcomes(runner)'
  BY <1>1, <1>5, <1>6 DEF ReadsOutcomes, Track
<1>10. ReplayInv(runner)'
  BY <1>7, <1>8, <1>9 DEF ReplayInv
<1>11. IsTerminal' = IsTerminal
  BY <1>1 DEF IsTerminal
<1>12. QED
  BY <1>1, <1>10, <1>11, UntouchedJournal

(***************************************************************************)
(* The commit of an activation.                                            *)
(***************************************************************************)

\* The event is one of the history or one that the activation has queued.
LEMMA WrittenEvents ==
  ASSUME NEW r \in Runner, NEW n \in 1..Len(Written(r))
  PROVE  \/ n \in 1..Len(r.log) /\ Written(r)[n] = r.log[n]
         \/ \E p \in 1..Len(r.queued) : n = Len(r.log) + p /\ Written(r)[n] = r.queued[p]
<1> DEFINE before == Len(r.log)
           count == Len(r.queued)
<1>1. /\ n \in 1..before+count /\ before \in Nat /\ count \in Nat
      /\ \A m \in 1..before : Written(r)[m] = r.log[m]
      /\ \A p \in 1..count : Written(r)[before + p] = r.queued[p]
  BY WrittenType
<1>2. CASE n \in 1..before
  BY <1>1, <1>2
<1>3. CASE n \notin 1..before
  <2> DEFINE p == n - before
  <2> HIDE DEF before, count
  <2>1. p \in 1..count /\ n = before + p
    BY <1>1, <1>3
  <2> HIDE DEF p
  <2>2. Written(r)[n] = r.queued[p]
    BY <1>1, <2>1
  <2>3. QED
    BY <2>1, <2>2 DEF before, count
<1>4. QED
  BY <1>2, <1>3

\* What is queued: no retry, and a schedule event or an ending only to decide.
LEMMA QueuedEvents ==
  ASSUME NEW r \in Runner, WritesFit(r), NEW p \in 1..Len(r.queued)
  PROVE  LET event == r.queued[p]
         IN /\ ~IsRetry(event)
            /\ Opens(event) => p = Len(r.queued) /\ r.decision = "waiting"
            /\ event.type \in EndingEvents => p = Len(r.queued) /\ r.decision \in EndingDecisions
            /\ \A k : Schedules(event, k) => k = r.newTask /\ k \in Keys
            /\ IsOutcome(event) => event.key \in Keys /\ r.outcomes[event.key] \in {"completed", "failed"}
                                   /\ event.type = OutcomeEvent[r.outcomes[event.key]]
<1> DEFINE event == r.queued[p]
<1>1. \/ Ordinary(r, event)
      \/ p = Len(r.queued) /\ Deciding(r, event)
  BY DEF WritesFit
<1> HIDE DEF event
<1>2. CASE Ordinary(r, event)
  BY <1>2 DEF Ordinary, Schedules, Opens, event
<1>3. CASE p = Len(r.queued) /\ Deciding(r, event)
  <2>1. CASE r.decision = "waiting" /\ r.newTask \in Keys /\ Schedules(event, r.newTask)
    BY <1>3, <2>1 DEF Schedules, Opens, IsRetry, IsOutcome, OutcomeEvents, EndingEvents, event
  <2>2. CASE r.decision = "waiting" /\ event.type = "timer.scheduled"
    BY <1>3, <2>2 DEF Schedules, Opens, IsRetry, IsOutcome, OutcomeEvents, EndingEvents, event
  <2>3. CASE r.decision \in EndingDecisions /\ event.type = EndingEvent[r.decision]
    <3>1. event.type \in EndingEvents
      BY <2>3 DEF EndingDecisions, EndingEvent, EndingEvents
    <3>2. event.type \notin {"activity.scheduled", "timer.scheduled", "activity.retry_scheduled"} /\ ~IsOutcome(event)
      BY <3>1 DEF EndingEvents, IsOutcome, OutcomeEvents
    <3>3. QED
      BY <1>3, <2>3, <3>2 DEF Schedules, Opens, IsRetry, event
  <2>4. QED
    BY <1>3, <2>1, <2>2, <2>3 DEF Deciding
<1>4. QED
  BY <1>1, <1>2, <1>3

\* The work that went on and that the activation has seen end, if it has
\* scheduled any: a timer's due row is one of those it consumes.
LEMMA TimerIsConsumed ==
  ASSUME TypeOK, ReplayInv(runner), FollowsOn(runner, inbox), runner.log = history, NEW k \in Keys,
         TimerIsAwaited(k), k \in armed \/ TimerRows(inbox, k) # {}
  PROVE  \/ \E n \in 1..Len(history) :
               /\ history[n].type = "timer.scheduled" /\ history[n].key = k
               /\ StillOpen(Written(runner), n)
         \/ k \notin armed /\ \E i \in runner.consumed : TimerRows(inbox, k) = {i}
<1> DEFINE events == Written(runner)
<1>0. /\ runner \in Runner /\ history \in Seq(Event) /\ Len(history) \in Nat /\ inbox \in Seq(InboxItem)
  BY DEF TypeOK
<1>1. /\ events \in Seq(Event) /\ Len(events) = Len(history) + Len(runner.queued) /\ Len(runner.queued) \in Nat
      /\ \A n \in 1..Len(history) : events[n] = history[n]
  BY <1>0, WrittenType
<1>2. PICK n \in 1..Len(history) :
        history[n].type = "timer.scheduled" /\ history[n].key = k /\ StillOpen(history, n)
  BY DEF TimerIsAwaited, TimerIsOpen
<1>3. events[n] = history[n] /\ Opens(events[n]) /\ n \in 1..Len(events)
  <2> HIDE DEF events
  <2>1. n \in 1..Len(events)
    BY <1>0, <1>1
  <2>2. QED
    BY <1>1, <1>2, <2>1 DEF Opens
<1>4. StillOpen(events, n) \/ ClosedBy(events, n, Len(events))
  BY <1>3 DEF ReplayInv, Awaited
<1>5. CASE ClosedBy(events, n, Len(events))
  <2>1. PICK q \in n+1..Len(events) : Completes(events[n], events[q])
    BY <1>5 DEF ClosedBy
  <2>2. q \in 1..Len(events) /\ q >= n + 1
    BY <1>0, <1>1
  <2>3. ~(q \in 1..Len(history))
    <3> SUFFICES ASSUME q \in 1..Len(history)
                 PROVE  FALSE
      OBVIOUS
    <3>1. Completes(history[n], history[q])
      BY <1>1, <1>3, <2>1
    <3>2. q \in n+1..(Len(history)+1)-1
      BY <1>0, <2>2
    <3>3. Passes(history[n], history[q])
      BY <1>2, <3>2 DEF StillOpen, GoesOn
    <3>4. QED
      BY <3>1, <3>3, EventKinds
  <2>4. PICK p \in 1..Len(runner.queued) : events[q] = runner.queued[p]
    BY <1>0, <2>2, <2>3, WrittenEvents, ZenonT(60)
  <2> DEFINE event == runner.queued[p]
             i == event.item
  <2>5. event.type = "timer.fired" /\ event.key = k
    BY <1>2, <1>3, <2>1, <2>4 DEF Completes
  <2>6. CarriesRow(event, inbox) /\ i \in runner.consumed
    BY <2>5 DEF FollowsOn, Carried, CarriesNone, CarryingTypes
  <2> HIDE DEF event
  <2>7. i \in 1..Len(inbox) /\ inbox[i].kind = "timer" /\ inbox[i].key = k /\ inbox[i].status = "pending"
    <3>1. i \in 1..Len(inbox) /\ inbox[i] \in InboxItem /\ EventOf(inbox[i].kind) = "timer.fired" /\ inbox[i].key = k
      BY <1>0, <2>5, <2>6 DEF CarriesRow, Rows
    <3>2. inbox[i].kind = "timer"
      BY <3>1 DEF InboxItem, EventOf
    <3>3. inbox[i].status = "pending"
      BY <2>6 DEF FollowsOn, InHand, RowsIn
    <3>4. QED
      BY <3>1, <3>2, <3>3
  <2>8. inbox[i] = TimerRow(k)
    <3>1. inbox[i] \in InboxItem
      BY <1>0, <2>7
    <3>2. \A row \in InboxItem :
             row.kind = "timer" /\ row.key = k /\ row.status = "pending" => row = TimerRow(k)
      BY DEF TimerRow, InboxItem
    <3>3. QED
      BY <2>7, <3>1, <3>2
  <2>9. i \in TimerRows(inbox, k)
    BY <2>7, <2>8 DEF TimerRows
  <2>10. TimerRows(inbox, k) = {i} /\ k \notin armed
    BY <2>9 DEF TimerIsAwaited
  <2>11. QED
    BY <2>6, <2>10
<1>6. QED
  BY <1>2, <1>4, <1>5

\* Rows that are consumed are not pending any more, and no others become pending.
LEMMA ConsumedTimers ==
  ASSUME TypeOK, NEW k
  PROVE  \A i \in TimerRows(Consumed, k) : i \in TimerRows(inbox, k) /\ i \notin runner.consumed
<1> SUFFICES ASSUME NEW i \in 1..Len(Consumed), Consumed[i] = TimerRow(k)
             PROVE  i \in 1..Len(inbox) /\ inbox[i] = TimerRow(k) /\ i \notin runner.consumed
  BY DEF TimerRows
<1>0. inbox \in Seq(InboxItem) /\ Len(inbox) \in Nat
  BY DEF TypeOK
<1>1. Len(Consumed) = Len(inbox)
  BY <1>0 DEF Consumed
<1>2. i \in 1..Len(inbox) /\ inbox[i] \in InboxItem
  BY <1>0, <1>1
<1>3. Consumed[i] = IF i \in runner.consumed /\ inbox[i].status = "pending"
                    THEN [inbox[i] EXCEPT !.status = "processed"] ELSE inbox[i]
  BY <1>2 DEF Consumed
<1>4. Consumed[i].status = "pending"
  BY DEF TimerRow
<1>5. ~(i \in runner.consumed /\ inbox[i].status = "pending")
  BY <1>2, <1>3, <1>4 DEF InboxItem
<1>6. QED
  BY <1>2, <1>3, <1>4, <1>5

LEMMA CommittedTimers ==
  ASSUME Types, FollowsOn(runner, inbox), JournalInv, Committed, ~IsTerminal'
  PROVE  \A k \in Keys : TimerIsAwaited(k)'
<1> SUFFICES ASSUME NEW k \in Keys
             PROVE  TimerIsAwaited(k)'
  OBVIOUS
<1> DEFINE events == Written(runner)
<1>0. TypeOK /\ runner \in Runner /\ history \in Seq(Event) /\ Len(history) \in Nat
  BY TypesAreTypeOK DEF TypeOK
<1>1. /\ ReplayInv(runner) /\ TimerIsAwaited(k) /\ runner.log = history /\ history' = events
  BY DEF Committed, JournalInv, Written
<1>2. inbox' = Consumed /\ armed' \subseteq armed \cup ({runner.newTimer} \ {None})
  BY DEF Committed, IsTerminal, TerminalStatuses
<1>3. /\ events \in Seq(Event) /\ Len(events) = Len(history) + Len(runner.queued) /\ Len(runner.queued) \in Nat
      /\ \A n \in 1..Len(history) : events[n] = history[n]
      /\ \A p \in 1..Len(runner.queued) : events[Len(history) + p] = runner.queued[p]
  BY <1>0, <1>1, WrittenType
<1>4. TimerRows(inbox, k)' = TimerRows(Consumed, k) /\ (TimerIsOpen(history, k)' <=> TimerIsOpen(events, k))
  BY <1>1, <1>2 DEF TimerRows, TimerIsOpen
<1> HIDE DEF events
<1>5. \A i \in TimerRows(Consumed, k) : i \in TimerRows(inbox, k) /\ i \notin runner.consumed
  BY <1>0, ConsumedTimers
<1>6. \A i, j \in TimerRows(Consumed, k) : i = j
  BY <1>1, <1>5 DEF TimerIsAwaited
<1>7. CASE ~(k \in armed \/ TimerRows(inbox, k) # {}) \/ (k \notin armed /\ \E i \in runner.consumed : TimerRows(inbox, k) = {i})
  <2>1. TimerRows(Consumed, k) = {} /\ k \notin armed
    BY <1>5, <1>7
  <2>2. k \in armed' => k = runner.newTimer /\ k # None
    BY <1>2, <2>1
  <2>3. k \in armed' => TimerIsOpen(events, k)
    <3> SUFFICES ASSUME runner.newTimer = k, k # None
                 PROVE  TimerIsOpen(events, k)
      BY <2>2
    <3> DEFINE count == Len(runner.queued)
    <3>1. runner.queued # <<>> /\ runner.queued[count].type = "timer.scheduled" /\ runner.queued[count].key = k
      BY <1>1 DEF ReplayInv, Decided, LastQueued
    <3>2. runner.queued \in Seq(Event)
      BY <1>0, WrittenType
    <3>3. count \in 1..count
      BY <3>1, <3>2
    <3>4. events[Len(history) + count] = runner.queued[count] /\ Len(events) = Len(history) + count /\ count \in Nat
      BY <1>3, <3>3
    <3> HIDE DEF count
    <3>5. Len(events) \in 1..Len(events) /\ events[Len(events)].type = "timer.scheduled" /\ events[Len(events)].key = k
      BY <1>0, <3>1, <3>3, <3>4
    <3>6. StillOpen(events, Len(events))
      BY <1>0, <3>4 DEF StillOpen, GoesOn
    <3>7. QED
      BY <3>5, <3>6 DEF TimerIsOpen
  <2>4. QED
    BY <1>4, <1>6, <2>1, <2>3 DEF TimerIsAwaited
<1>8. CASE /\ k \in armed \/ TimerRows(inbox, k) # {}
           /\ \E n \in 1..Len(history) :
                history[n].type = "timer.scheduled" /\ history[n].key = k /\ StillOpen(events, n)
  <2>1. PICK n \in 1..Len(history) :
          history[n].type = "timer.scheduled" /\ history[n].key = k /\ StillOpen(events, n)
    BY <1>8
  <2>2. n \in 1..Len(events) /\ events[n] = history[n]
    BY <1>0, <1>3
  <2>3. TimerIsOpen(events, k)
    BY <2>1, <2>2 DEF TimerIsOpen
  <2>4. runner.newTimer # k \/ k = None
    <3> SUFFICES ASSUME runner.newTimer = k, k # None
                 PROVE  FALSE
      OBVIOUS
    <3> DEFINE count == Len(runner.queued)
    <3>1. runner.queued # <<>> /\ runner.queued[count].type = "timer.scheduled"
      BY <1>1 DEF ReplayInv, Decided, LastQueued
    <3>2. runner.queued \in Seq(Event)
      BY <1>0, WrittenType
    <3>3. count \in 1..count
      BY <3>1, <3>2
    <3>4. events[Len(history) + count] = runner.queued[count] /\ Len(events) = Len(history) + count /\ count \in Nat
      BY <1>3, <3>3
    <3> HIDE DEF count
    <3>5. Len(events) \in n+1..Len(events) /\ events[Len(events)].type = "timer.scheduled"
      BY <1>0, <3>1, <3>3, <3>4
    <3>6. Len(events) \in Nat /\ n \in Nat /\ GoesOn(events, n, Len(events) + 1)
      BY <1>0, <2>1, <3>4 DEF StillOpen
    <3>7. ~Opens(events[Len(events)])
      BY <3>5, <3>6, EndedOrOpen
    <3>8. QED
      BY <3>5, <3>7 DEF Opens
  <2>5. k \in armed' => k \in armed
    BY <1>2, <2>4
  <2>6. k \in armed' => TimerRows(Consumed, k) = {}
    BY <1>1, <1>5, <2>5 DEF TimerIsAwaited
  <2>7. QED
    BY <1>4, <1>6, <2>3, <2>6 DEF TimerIsAwaited
<1>9. QED
  BY <1>0, <1>1, <1>7, <1>8, TimerIsConsumed DEF events

LEMMA CommittedKeepsJournal ==
  ASSUME Types, JournalInv, Committed, FollowsOn(runner, inbox), tasks' \in [Keys -> Task]
  PROVE  JournalInv'
<1> DEFINE r == runner
           events == Written(r)
<1>0. TypeOK /\ r \in Runner /\ history \in Seq(Event) /\ Len(history) \in Nat
  BY TypesAreTypeOK DEF TypeOK
<1>1. /\ Awaited(events) /\ OutcomeIsLast(events) /\ WritesFit(r) /\ Decided(r) /\ ReadsOutcomes(r)
      /\ r.log = history /\ history' = events /\ ~Replaying' /\ ~IsTerminal
  BY DEF Committed, JournalInv, ReplayInv, Written
<1>2. /\ events \in Seq(Event) /\ Len(events) = Len(history) + Len(r.queued) /\ Len(r.queued) \in Nat
      /\ \A n \in 1..Len(history) : events[n] = history[n]
      /\ \A p \in 1..Len(r.queued) : events[Len(history) + p] = r.queued[p]
      /\ r.queued \in Seq(Event)
  BY <1>0, <1>1, WrittenType
<1>3. \A n \in 1..Len(events) :
         \/ n \in 1..Len(history) /\ events[n] = history[n]
         \/ \E p \in 1..Len(r.queued) : n = Len(history) + p /\ events[n] = r.queued[p]
  BY <1>0, <1>1, WrittenEvents
<1>4. \A n \in 1..Len(history) : n \in 1..Len(events)
  BY <1>0, <1>2
<1>5. \A p \in 1..Len(r.queued) :
         /\ ~IsRetry(r.queued[p])
         /\ Opens(r.queued[p]) => p = Len(r.queued) /\ r.decision = "waiting"
         /\ r.queued[p].type \in EndingEvents => p = Len(r.queued) /\ r.decision \in EndingDecisions
         /\ \A k : Schedules(r.queued[p], k) => k = r.newTask /\ k \in Keys
         /\ IsOutcome(r.queued[p]) =>
              /\ r.queued[p].key \in Keys /\ r.outcomes[r.queued[p].key] \in {"completed", "failed"}
              /\ r.queued[p].type = OutcomeEvent[r.outcomes[r.queued[p].key]]
  BY <1>0, <1>1, QueuedEvents
<1>6. /\ ~IsTerminal' => r.decision \in {"waiting", "quarantined"}
      /\ \/ /\ r.decision = "waiting" /\ (\A k \in {r.newTask} \ {None} : tasks[k].status = "none")
            /\ tasks' = [k \in Keys |-> IF k = r.newTask THEN [NoTask EXCEPT !.status = "queued"] ELSE tasks[k]]
         \/ r.decision # "waiting" /\ (tasks' = tasks \/ tasks' = CancelledTasks)
  BY DEF Committed, IsTerminal, TerminalStatuses
<1> HIDE DEF events, r
<1>7. ASSUME NEW k \in Keys, NEW n \in 1..Len(events), Schedules(events[n], k)
      PROVE  \/ n \in 1..Len(history) /\ Schedules(history[n], k)
             \/ n = Len(events) /\ r.decision = "waiting" /\ k = r.newTask
  <2>1. CASE n \in 1..Len(history) /\ events[n] = history[n]
    BY <1>7, <2>1
  <2>2. ASSUME NEW p \in 1..Len(r.queued), n = Len(history) + p, events[n] = r.queued[p]
        PROVE  n = Len(events) /\ r.decision = "waiting" /\ k = r.newTask
    <3>1. Schedules(r.queued[p], k) /\ Opens(r.queued[p])
      BY <1>7, <2>2 DEF Schedules, Opens
    <3>2. p = Len(r.queued) /\ r.decision = "waiting" /\ k = r.newTask
      BY <1>5, <3>1
    <3>3. QED
      BY <1>2, <2>2, <3>2
  <2>3. QED
    BY <1>3, <2>1, <2>2
<1>8. ASSUME NEW k \in Keys, k = r.newTask, r.decision = "waiting"
      PROVE  /\ tasks[k].status = "none" /\ \A n \in 1..Len(history) : ~Schedules(history[n], k)
             /\ \E n \in 1..Len(events) : Schedules(events[n], k)
  <2>1. k # None
    BY NoneIsNoKey
  <2>2. tasks[k].status = "none"
    BY <1>6, <1>8, <2>1
  <2>3. \A n \in 1..Len(history) : ~Schedules(history[n], k)
    BY <2>2 DEF JournalInv, TaskHasEvents
  <2> DEFINE count == Len(r.queued)
  <2>4. r.queued # <<>> /\ Schedules(r.queued[count], k)
    BY <1>1, <1>8, <2>1 DEF Decided, LastQueued
  <2>5. count \in 1..count
    BY <1>2, <2>4
  <2>6. events[Len(history) + count] = r.queued[count] /\ Len(events) = Len(history) + count /\ count \in Nat
    BY <1>2, <2>5
  <2> HIDE DEF count
  <2>7. Len(events) \in 1..Len(events) /\ events[Len(events)] = r.queued[count]
    BY <1>0, <2>5, <2>6
  <2>8. QED
    BY <2>2, <2>3, <2>4, <2>7
<1>9. HistoryIsOrdered'
  <2>1. ScheduledOnce(history)
    BY DEF JournalInv, HistoryIsOrdered
  <2>2. ASSUME NEW k \in Keys, NEW m \in 1..Len(events), NEW n \in 1..Len(events),
               Schedules(events[m], k), Schedules(events[n], k)
        PROVE  m = n
    <3>1. /\ (m \in 1..Len(history) /\ Schedules(history[m], k)) \/ (m = Len(events) /\ k = r.newTask /\ r.decision = "waiting")
          /\ (n \in 1..Len(history) /\ Schedules(history[n], k)) \/ (n = Len(events) /\ k = r.newTask /\ r.decision = "waiting")
      BY <1>7, <2>2
    <3>2. CASE k = r.newTask /\ r.decision = "waiting"
      BY <1>8, <3>1, <3>2
    <3>3. CASE ~(k = r.newTask /\ r.decision = "waiting")
      BY <2>1, <3>1, <3>3 DEF ScheduledOnce
    <3>4. QED
      BY <3>2, <3>3
  <2>3. ScheduledOnce(events)
    BY <2>2 DEF ScheduledOnce
  <2>4. QED
    BY <1>1, <2>3 DEF HistoryIsOrdered
<1>10. ASSUME NEW k \in Keys, NEW n \in 1..Len(events), OutcomeOf(events[n], k)
       PROVE  tasks[k].status \in {"completed", "failed"} /\ events[n].type = OutcomeEvent[tasks[k].status]
  <2>1. CASE n \in 1..Len(history) /\ events[n] = history[n]
    BY <1>10, <2>1 DEF JournalInv, TaskHasEvents
  <2>2. ASSUME NEW p \in 1..Len(r.queued), events[n] = r.queued[p]
        PROVE  tasks[k].status \in {"completed", "failed"} /\ events[n].type = OutcomeEvent[tasks[k].status]
    <3>1. IsOutcome(r.queued[p]) /\ r.queued[p].key = k
      BY <1>10, <2>2 DEF OutcomeOf
    <3>2. r.outcomes[k] \in {"completed", "failed"} /\ r.queued[p].type = OutcomeEvent[r.outcomes[k]]
      BY <1>5, <3>1
    <3>3. tasks[k].status = r.outcomes[k]
      BY <1>1, <3>2 DEF ReadsOutcomes
    <3>4. QED
      BY <2>2, <3>2, <3>3
  <2>3. QED
    BY <1>3, <2>1, <2>2
<1>11. \A k \in Keys : tasks[k].status = "none" /\ ~(k = r.newTask /\ r.decision = "waiting") =>
                         \A n \in 1..Len(events) : ~Schedules(events[n], k)
  BY <1>7 DEF JournalInv, TaskHasEvents
<1>12. \A k \in Keys : tasks[k].status # "none" => \E n \in 1..Len(events) : Schedules(events[n], k)
  BY <1>2, <1>4 DEF JournalInv, TaskHasEvents
<1>13. ASSUME NEW k \in Keys
       PROVE  RetriesOf(history, k)' = RetriesOf(history, k)
  <2>1. ASSUME NEW n \in 1..Len(events), IsRetry(events[n])
        PROVE  n \in 1..Len(history) /\ events[n] = history[n]
    BY <1>3, <1>5, <2>1
  <2>2. RetriesOf(events, k) = RetriesOf(history, k)
    BY <1>2, <1>4, <2>1 DEF RetriesOf
  <2>3. QED
    BY <1>1, <2>2 DEF RetriesOf
<1>14. ASSUME NEW k \in Keys
       PROVE  TaskHasEvents(k)' /\ RetriesCounted(k)'
  <2> DEFINE retries == Cardinality(RetriesOf(history, k))
  <2>0. retries' = retries /\ RetriesCounted(k)
    BY <1>13 DEF JournalInv
  <2> HIDE DEF retries
  <2>1. CASE k = r.newTask /\ r.decision = "waiting"
    <3>1. tasks'[k].status = "queued" /\ tasks'[k].attempts = 0
      BY <1>6, <2>1 DEF NoTask
    <3>2. /\ tasks[k].status = "none" /\ (\A n \in 1..Len(history) : ~Schedules(history[n], k))
          /\ \E n \in 1..Len(events) : Schedules(events[n], k)
      BY <1>8, <2>1
    <3>3. TaskHasEvents(k)'
      <4>1. \A n \in 1..Len(events) : ~OutcomeOf(events[n], k)
        BY <1>10, <3>2
      <4>2. QED
        BY <1>1, <3>1, <3>2, <4>1 DEF TaskHasEvents
    <3>4. retries = 0
      <4>1. ASSUME NEW n \in 1..Len(history), IsRetry(history[n]), history[n].key = k
            PROVE  FALSE
        <5>1. PICK m \in 1..n-1 : Schedules(history[m], k)
          BY <4>1 DEF JournalInv, HistoryIsOrdered, OutcomeIsLast, FollowsItsSchedule
        <5>2. m \in 1..Len(history)
          BY <1>0
        <5>3. QED
          BY <3>2, <5>1, <5>2
      <4>2. QED
        BY <1>0, <4>1, RetriesAreCountable DEF retries
    <3>5. 0 < MaxAttempts
      BY AttemptLimit
    <3>6. RetriesCounted(k)'
      BY <2>0, <3>1, <3>4, <3>5 DEF RetriesCounted, retries
    <3>7. QED
      BY <3>3, <3>6
  <2>2. CASE tasks'[k] = tasks[k] /\ ~(k = r.newTask /\ r.decision = "waiting")
    <3>1. TaskHasEvents(k)'
      BY <1>1, <1>10, <1>11, <1>12, <2>2 DEF TaskHasEvents
    <3>2. RetriesCounted(k)'
      BY <2>0, <2>2 DEF RetriesCounted, retries
    <3>3. QED
      BY <3>1, <3>2
  <2>3. CASE /\ ~(k = r.newTask /\ r.decision = "waiting") /\ OpenTask(k)
             /\ tasks'[k].status = "cancelled" /\ tasks'[k].attempts = tasks[k].attempts
    <3>1. tasks[k].status \notin {"none", "completed", "failed"}
      BY <2>3 DEF OpenTask
    <3>2. TaskHasEvents(k)'
      <4>1. \A n \in 1..Len(events) : ~OutcomeOf(events[n], k)
        BY <1>10, <3>1
      <4>2. \E n \in 1..Len(events) : Schedules(events[n], k)
        BY <1>12, <3>1
      <4>3. QED
        BY <1>1, <2>3, <4>1, <4>2 DEF TaskHasEvents
    <3>3. RetriesCounted(k)'
      BY <2>0, <2>3 DEF RetriesCounted, retries
    <3>4. QED
      BY <3>2, <3>3
  <2>4. CASE r.decision = "waiting" /\ k # r.newTask
    <3>1. tasks'[k] = tasks[k]
      BY <1>6, <2>4
    <3>2. QED
      BY <2>2, <2>4, <3>1
  <2>5. CASE r.decision # "waiting"
    <3>1. CASE tasks' = tasks
      BY <2>2, <2>5, <3>1
    <3>2. CASE tasks' = CancelledTasks
      BY <1>0, <2>2, <2>3, <2>5, <3>2, CancelledTask
    <3>3. QED
      BY <1>6, <2>5, <3>1, <3>2
  <2>6. QED
    BY <2>1, <2>4, <2>5
<1>15. WorkIsAwaited'
  BY <1>1 DEF WorkIsAwaited
<1>16. NoEndingYet'
  <2> SUFFICES ASSUME ~IsTerminal', NEW n \in 1..Len(events), events[n].type \in EndingEvents
               PROVE  FALSE
    BY <1>1 DEF NoEndingYet
  <2>1. CASE n \in 1..Len(history) /\ events[n] = history[n]
    BY <1>1, <2>1 DEF JournalInv, NoEndingYet
  <2>2. ASSUME NEW p \in 1..Len(r.queued), events[n] = r.queued[p]
        PROVE  FALSE
    BY <1>5, <1>6, <2>2 DEF EndingDecisions
  <2>3. QED
    BY <1>3, <2>1, <2>2
<1>17. ~IsTerminal' => \A k \in Keys : TimerIsAwaited(k)'
  BY CommittedTimers
<1>18. QED
  BY <1>1, <1>9, <1>14, <1>15, <1>16, <1>17 DEF JournalInv

(***************************************************************************)
(* The end of a run.                                                       *)
(***************************************************************************)

\* Where every worker registers the run's version, a terminal run has its ending
\* as the last event, and no work.
EndInv ==
    IsTerminal =>
       /\ Len(history) > 0 /\ history[Len(history)].type = StatusEvent[status]
       /\ \A n \in 1..Len(history) : history[n].type \in EndingEvents => n = Len(history)
       /\ armed = {} /\ \A k \in Keys : ~OpenTask(k)
       /\ status \in {"cancelled", "terminated"} => \A i \in 1..Len(inbox) : inbox[i].status # "pending"

LEMMA NothingPending ==
  ASSUME NEW items \in Seq(InboxItem)
  PROVE  \A i \in 1..Len(DiscardPending(items)) : DiscardPending(items)[i].status # "pending"
<1>1. Len(items) \in Nat /\ Len(DiscardPending(items)) = Len(items)
  BY DEF DiscardPending
<1>2. ASSUME NEW i \in 1..Len(items)
      PROVE  DiscardPending(items)[i].status # "pending"
  <2>1. items[i] \in InboxItem
    OBVIOUS
  <2>2. DiscardPending(items)[i] = IF items[i].status = "pending" THEN [items[i] EXCEPT !.status = "discarded"]
                                   ELSE items[i]
    BY DEF DiscardPending
  <2>3. QED
    BY <2>1, <2>2 DEF InboxItem
<1>3. QED
  BY <1>1, <1>2

\* What has ended its run leaves nothing open: only what passes may follow.
LEMMA NothingOpen ==
  ASSUME NEW events \in Seq(Event), Len(events) > 0, events[Len(events)].type \in EndingEvents,
         NEW n \in 1..Len(events), Opens(events[n])
  PROVE  ~StillOpen(events, n)
<1> SUFFICES ASSUME StillOpen(events, n)
             PROVE  FALSE
  OBVIOUS
<1>1. Len(events) \in Nat
  OBVIOUS
<1>2. n # Len(events)
  BY DEF Opens, EndingEvents
<1>3. Len(events) \in n+1..(Len(events)+1)-1
  BY <1>1, <1>2
<1>4. Passes(events[n], events[Len(events)])
  BY <1>3 DEF StillOpen, GoesOn
<1>5. QED
  BY <1>4 DEF Passes, LifecycleEvents, IsCancel, IsRetry, EndingEvents

LEMMA CommittedEnds ==
  ASSUME Types, JournalInv, JournalInv', Committed, FollowsOn(runner, inbox), IsTerminal'
  PROVE  EndInv'
<1> DEFINE r == runner
           events == Written(r)
           count == Len(r.queued)
<1>0. TypeOK /\ r \in Runner /\ history \in Seq(Event) /\ Len(history) \in Nat /\ inbox \in Seq(InboxItem)
  BY TypesAreTypeOK DEF TypeOK
<1>1. /\ ReplayInv(r) /\ Awaited(events) /\ WritesFit(r) /\ Decided(r) /\ r.log = history /\ history' = events
      /\ \A n \in 1..Len(history) : history[n].type \notin EndingEvents
      /\ \A k \in Keys : TimerIsAwaited(k)
  BY DEF Committed, JournalInv, ReplayInv, Written, NoEndingYet
<1>2. /\ events \in Seq(Event) /\ Len(events) = Len(history) + count /\ count \in Nat
      /\ \A n \in 1..Len(history) : events[n] = history[n]
      /\ \A p \in 1..count : events[Len(history) + p] = r.queued[p]
      /\ r.queued \in Seq(Event)
  BY <1>0, <1>1, WrittenType
<1>3. r.decision \in EndingDecisions /\ status' = r.decision
  BY DEF Committed, EndingDecisions
<1>4. /\ StatusEvent[status'] = EndingEvent[r.decision] /\ EndingEvent[r.decision] \in EndingEvents
  BY <1>3 DEF EndingDecisions, StatusEvent, EndingEvent, EndingEvents
<1>5. r.queued # <<>> /\ r.queued[count].type = EndingEvent[r.decision]
  BY <1>1, <1>3 DEF Decided, LastQueued
<1>6. count \in 1..count
  BY <1>2, <1>5
<1>7. \A p \in 1..count : r.queued[p].type \in EndingEvents => p = count
  BY <1>0, <1>1, QueuedEvents
<1>8. \A n \in 1..Len(events) :
         \/ n \in 1..Len(history) /\ events[n] = history[n]
         \/ \E p \in 1..count : n = Len(history) + p /\ events[n] = r.queued[p]
  BY <1>0, <1>1, WrittenEvents, SMTT(30)
<1> HIDE DEF events, count
<1>9. /\ Len(events) \in 1..Len(events) /\ Len(events) > 0 /\ events[Len(events)].type = EndingEvent[r.decision]
  BY <1>0, <1>2, <1>5, <1>6
<1>10. \A n \in 1..Len(events) : events[n].type \in EndingEvents => n = Len(events)
  BY <1>1, <1>2, <1>7, <1>8, ZenonT(60)
<1>11. \A n \in 1..Len(events) : Opens(events[n]) => ~StillOpen(events, n) /\ ClosedBy(events, n, Len(events))
  BY <1>1, <1>2, <1>4, <1>9, NothingOpen DEF Awaited
<1>12. CASE inbox' = DiscardPending(Consumed) /\ tasks' = CancelledTasks /\ armed' = {}
  <2>1. Consumed \in Seq(InboxItem)
    BY <1>0, ConsumedType
  <2>2. \A i \in 1..Len(inbox') : inbox'[i].status # "pending"
    BY <1>12, <2>1, NothingPending
  <2>3. \A k \in Keys : ~OpenTask(k)'
    BY <1>0, <1>12, CancelledTask DEF OpenTask
  <2>4. QED
    BY <1>1, <1>4, <1>9, <1>10, <1>12, <2>2, <2>3 DEF EndInv
<1>13. CASE r.decision \in {"completed", "failed"} /\ UNCHANGED <<tasks, armed>>
  <2>1. ASSUME NEW k \in armed
        PROVE  FALSE
    <3>1. k \in Keys
      BY <1>0 DEF TypeOK
    <3>2. ASSUME NEW n \in 1..Len(history), history[n].type = "timer.scheduled"
          PROVE  ~StillOpen(events, n)
      <4>1. n \in 1..Len(events) /\ Opens(events[n])
        BY <1>0, <1>2, <3>2 DEF Opens
      <4>2. QED
        BY <1>11, <4>1
    <3>3. QED
      BY <1>0, <1>1, <3>1, <3>2, TimerIsConsumed DEF Committed, JournalInv, events
  <2>2. ASSUME NEW k \in Keys, OpenTask(k)
        PROVE  FALSE
    <3>1. TaskHasEvents(k)' /\ tasks'[k].status \in {"queued", "claimed"}
      BY <1>13, <2>2 DEF JournalInv, OpenTask
    <3>2. PICK n \in 1..Len(events) : Schedules(events[n], k)
      BY <1>1, <3>1 DEF TaskHasEvents
    <3>3. PICK p \in n+1..Len(events) : Completes(events[n], events[p])
      BY <1>11, <3>2 DEF Schedules, Opens, ClosedBy
    <3>4. p \in 1..Len(events) /\ OutcomeOf(events[p], k)
      BY <1>2, <3>2, <3>3 DEF Schedules, Completes, OutcomeOf
    <3>5. QED
      BY <1>1, <3>1, <3>4 DEF TaskHasEvents
  <2>3. armed' = {} /\ \A k \in Keys : ~OpenTask(k)'
    BY <1>13, <2>1, <2>2 DEF OpenTask
  <2>4. status' \notin {"cancelled", "terminated"}
    BY <1>3, <1>13
  <2>5. QED
    BY <1>1, <1>4, <1>9, <1>10, <2>3, <2>4 DEF EndInv
<1>14. QED
  BY <1>3, <1>12, <1>13 DEF Committed, EndingDecisions

LEMMA EndGoesOn ==
  ASSUME Types, Types', JournalInv, JournalInv', EndInv, Steps, Registered = Workers,
         Replaying => FollowsOn(runner, inbox)
  PROVE  EndInv'
<1>0. TypeOK /\ history \in Seq(Event) /\ Len(history) \in Nat /\ inbox \in Seq(InboxItem)
  BY TypesAreTypeOK DEF TypeOK
<1> SUFFICES ASSUME IsTerminal'
             PROVE  EndInv'
  BY DEF EndInv
<1>1. ASSUME IsTerminal, UNCHANGED <<history, armed, inbox, status>>, \A k \in Keys : ~OpenTask(k)'
      PROVE  EndInv'
  BY <1>1 DEF EndInv
<1>2. CASE Goes
  <2>1. /\ IsTerminal /\ status' = status /\ history' = history
        /\ armed = {} /\ \A k \in Keys : ~OpenTask(k)
    BY <1>2 DEF Goes, EndInv
  <2>2. UNCHANGED <<armed, inbox>>
    BY <1>2, <2>1 DEF Goes, RowsGoOn
  <2>3. \A k \in Keys : tasks'[k] = tasks[k]
    BY <1>2, <2>1 DEF Goes, TaskGoesOn
  <2>4. \A k \in Keys : ~OpenTask(k)'
    BY <2>1, <2>3 DEF OpenTask
  <2>5. QED
    BY <1>1, <2>1, <2>2, <2>4
<1>3. CASE Retried
  <2>1. IsTerminal /\ \E k \in Keys : tasks[k].status = "claimed"
    BY <1>3 DEF Retried, IsTerminal, HoldsTask
  <2>2. QED
    BY <2>1 DEF EndInv, OpenTask
<1>4. CASE Interrupted \/ Activates
  BY <1>4 DEF Interrupted, Activates
<1>5. CASE Stopped
  <2>1. /\ ~IsTerminal /\ history' = Append(history, NewEvent(StatusEvent[status'], None, 0))
        /\ tasks' = CancelledTasks /\ armed' = {} /\ inbox' = DiscardPending(inbox)
    BY <1>5 DEF Stopped
  <2> DEFINE event == NewEvent(StatusEvent[status'], None, 0)
  <2>2. event.type = StatusEvent[status']
    BY DEF NewEvent
  <2>3. history' = Append(history, event)
    BY <2>1
  <2> HIDE DEF event
  <2>4. /\ Len(history') = Len(history) + 1 /\ history'[Len(history) + 1] = event
        /\ \A n \in 1..Len(history) : history'[n] = history[n]
    BY <1>0, <2>3
  <2>5. \A n \in 1..Len(history)+1 : n \in 1..Len(history) \/ n = Len(history) + 1
    BY <1>0
  <2>6. \A n \in 1..Len(history) : history[n].type \notin EndingEvents
    BY <2>1 DEF JournalInv, NoEndingYet
  <2>7. /\ Len(history') > 0 /\ history'[Len(history')].type = StatusEvent[status']
        /\ \A n \in 1..Len(history') : history'[n].type \in EndingEvents => n = Len(history')
    BY <1>0, <2>2, <2>4, <2>5, <2>6
  <2>8. \A i \in 1..Len(inbox') : inbox'[i].status # "pending"
    BY <1>0, <2>1, NothingPending
  <2>9. \A k \in Keys : ~OpenTask(k)'
    BY <1>0, <2>1, CancelledTask DEF OpenTask
  <2>10. QED
    BY <2>1, <2>7, <2>8, <2>9 DEF EndInv
<1>6. CASE ReplaysOn
  <2>1. UNCHANGED <<history, tasks, armed, inbox, status>> /\ IsTerminal
    BY <1>6 DEF ReplaysOn, IsTerminal
  <2>2. \A k \in Keys : ~OpenTask(k)'
    BY <2>1 DEF EndInv, OpenTask
  <2>3. QED
    BY <1>1, <2>1, <2>2
<1>7. CASE Committed
  BY <1>7, CommittedEnds DEF Committed
<1>8. QED
  BY <1>2, <1>3, <1>4, <1>5, <1>6, <1>7 DEF Steps

(***************************************************************************)
(* The theorems.                                                           *)
(***************************************************************************)

RunInv == ReadingInv /\ FinishingDecides /\ JournalInv

LEMMA InitRun ==
  ASSUME Init
  PROVE  RunInv /\ EndInv
<1>1. /\ history = <<>> /\ inbox = <<>> /\ armed = {} /\ status = "queued"
      /\ tasks = [k \in Keys |-> NoTask]
      /\ \A w \in Workers : wf[w] = [pc |-> "idle", horizon |-> 0]
      /\ \A a \in ActivityWorkers : aw[a] = IdleActivityWorker
  BY DEF Init
<1>2. FinishingDecides /\ ~Replaying /\ ~IsTerminal
  BY <1>1 DEF FinishingDecides, IdleActivityWorker, Replaying, IsTerminal, TerminalStatuses
<1>3. 1..Len(history) = {} /\ 1..Len(inbox) = {} /\ history \in Seq(Event)
  BY <1>1
<1>4. WorkIsAwaited /\ NoEndingYet /\ HistoryIsOrdered
  BY <1>3 DEF WorkIsAwaited, NoEndingYet, HistoryIsOrdered, Awaited, OutcomeIsLast, ScheduledOnce
<1>5. ASSUME NEW k \in Keys
      PROVE  TaskHasEvents(k) /\ RetriesCounted(k)
  <2>1. tasks[k].status = "none" /\ tasks[k].attempts = 0
    BY <1>1 DEF NoTask
  <2>2. Cardinality(RetriesOf(history, k)) = 0
    BY <1>3, RetriesAreCountable
  <2>3. 0 < MaxAttempts
    BY AttemptLimit
  <2>4. QED
    BY <1>3, <2>1, <2>2, <2>3 DEF TaskHasEvents, RetriesCounted
<1>6. \A k \in Keys : TimerIsAwaited(k)
  BY <1>1, <1>3 DEF TimerIsAwaited, TimerRows
<1>7. QED
  BY <1>2, <1>4, <1>5, <1>6, InitReads DEF RunInv, JournalInv, EndInv

LEMMA RunGoesOn ==
  ASSUME RunInv, [Next]_vars
  PROVE  RunInv' /\ Steps
<1>1. ReadingInv' /\ FinishingDecides' /\ Types' /\ Types
  BY ReadingOn, FinishingGoesOn DEF RunInv, ReadingInv
<1>2. Steps
  BY StepsClassified DEF RunInv, ReadingInv
<1>3. tasks' \in [Keys -> Task] /\ runner' \in Runner
  BY <1>1 DEF Types, WorkTypes, ReplayTypes
<1>4. JournalInv'
  BY <1>2, <1>3, GoesKeepsJournal, RetriedKeepsJournal, InterruptedKeepsJournal, StoppedKeepsJournal,
     ActivatesKeepsJournal, ReplaysOnKeepsJournal, CommittedKeepsJournal
     DEF Steps, RunInv, ReadingInv, InboxInv, Committed
<1>5. QED
  BY <1>1, <1>2, <1>4 DEF RunInv

LEMMA JournalImplies ==
  ASSUME RunInv
  PROVE  ActivityJournal
<1>0. /\ history \in Seq(Event) /\ Len(history) \in Nat
      /\ OutcomeIsLast(history) /\ ScheduledOnce(history)
  BY TypesAreTypeOK DEF RunInv, ReadingInv, TypeOK, JournalInv, HistoryIsOrdered
<1> SUFFICES ASSUME NEW k \in Keys
             PROVE  LET events == ActivityEvents(k)
                        retries == {n \in events : history[n].type = "activity.retry_scheduled"}
                    IN /\ tasks[k].status = "none" <=> events = {}
                       /\ \A n \in events :
                            history[n].type = "activity.scheduled" <=> \A m \in events : n <= m
                       /\ \A n \in events :
                            history[n].type \in OutcomeEvents =>
                               /\ \A m \in events : m <= n
                               /\ tasks[k].status \in {"completed", "failed"}
                               /\ history[n].type = OutcomeEvent[tasks[k].status]
                       /\ Cardinality(retries) < MaxAttempts
  BY DEF ActivityJournal
<1> DEFINE events == ActivityEvents(k)
           retries == {n \in events : history[n].type = "activity.retry_scheduled"}
<1>1. \A n : n \in events <=>
         /\ n \in 1..Len(history) /\ history[n].key = k
         /\ \/ Schedules(history[n], k) \/ IsRetry(history[n]) \/ IsOutcome(history[n])
  BY DEF ActivityEvents, Events, Schedules, IsRetry, IsOutcome
<1>2. retries = RetriesOf(history, k)
  BY DEF ActivityEvents, Events, RetriesOf, IsRetry
<1> HIDE DEF events, retries
<1>3. TaskHasEvents(k) /\ Cardinality(retries) < MaxAttempts
  BY <1>2 DEF RunInv, JournalInv, RetriesCounted
<1>4. ASSUME NEW n \in events
      PROVE  /\ n \in 1..Len(history) /\ history[n].key = k
             /\ Schedules(history[n], k) \/ \E m \in 1..n-1 : m \in events /\ Schedules(history[m], k)
  <2>1. n \in 1..Len(history) /\ history[n].key = k
    BY <1>1
  <2>2. CASE ~Schedules(history[n], k)
    <3>1. PICK m \in 1..n-1 : Schedules(history[m], k)
      BY <1>0, <1>1, <2>1, <2>2 DEF OutcomeIsLast, FollowsItsSchedule
    <3>2. m \in 1..Len(history)
      BY <1>0, <2>1
    <3>3. m \in events
      BY <1>1, <3>1, <3>2 DEF Schedules
    <3>4. QED
      BY <2>1, <3>1, <3>3
  <2>3. QED
    BY <2>1, <2>2
<1>5. tasks[k].status = "none" <=> events = {}
  <2>1. \A n \in 1..Len(history) : Schedules(history[n], k) => n \in events
    BY <1>1 DEF Schedules
  <2>2. events # {} => \E n \in 1..Len(history) : Schedules(history[n], k)
    <3> SUFFICES ASSUME NEW n \in events
                 PROVE  \E m \in 1..Len(history) : Schedules(history[m], k)
      OBVIOUS
    <3>1. n \in 1..Len(history) /\ \A m \in 1..n-1 : m \in 1..Len(history)
      BY <1>0, <1>4
    <3>2. QED
      BY <1>4, <3>1
  <2>3. QED
    BY <1>3, <2>1, <2>2 DEF TaskHasEvents
<1>6. ASSUME NEW n \in events
      PROVE  history[n].type = "activity.scheduled" <=> \A m \in events : n <= m
  <2>1. history[n].type = "activity.scheduled" <=> Schedules(history[n], k)
    BY <1>4 DEF Schedules
  <2>2. ASSUME Schedules(history[n], k), NEW m \in events
        PROVE  n <= m
    <3>1. m \in 1..Len(history) /\ n \in 1..Len(history)
      BY <1>4
    <3>2. PICK l \in 1..m : Schedules(history[l], k)
      BY <1>0, <1>4, <3>1
    <3>3. l \in 1..Len(history)
      BY <1>0, <3>1
    <3>4. l = n
      BY <1>0, <2>2, <3>1, <3>2, <3>3 DEF ScheduledOnce
    <3>5. QED
      BY <3>1, <3>2, <3>4
  <2>3. ASSUME ~Schedules(history[n], k)
        PROVE  ~(\A m \in events : n <= m)
    <3>1. PICK m \in 1..n-1 : m \in events
      BY <1>4, <2>3
    <3>2. ~(n <= m)
      BY <1>0, <1>4, <3>1
    <3>3. QED
      BY <3>1, <3>2
  <2>4. QED
    BY <2>1, <2>2, <2>3
<1>7. ASSUME NEW n \in events, history[n].type \in OutcomeEvents
      PROVE  /\ \A m \in events : m <= n
             /\ tasks[k].status \in {"completed", "failed"}
             /\ history[n].type = OutcomeEvent[tasks[k].status]
  <2>1. n \in 1..Len(history) /\ OutcomeOf(history[n], k) /\ IsOutcome(history[n])
    BY <1>4, <1>7 DEF OutcomeOf, IsOutcome
  <2>2. ASSUME NEW m \in events
        PROVE  m <= n
    <3> SUFFICES ASSUME m > n
                 PROVE  FALSE
      BY <1>0, <1>4, <2>1
    <3>1. m \in n+1..Len(history) /\ history[m].key = history[n].key
      BY <1>0, <1>4, <2>1
    <3>2. ~IsRetry(history[m]) /\ ~IsOutcome(history[m])
      BY <1>0, <2>1, <3>1 DEF OutcomeIsLast, IsFinal
    <3>3. Schedules(history[m], k)
      BY <1>1, <3>2
    <3>4. n <= m /\ m # n
      BY <1>0, <1>4, <2>1
    <3>5. ~Schedules(history[n], k)
      BY <2>1 DEF Schedules, IsOutcome, OutcomeEvents
    <3>6. PICK l \in 1..n-1 : Schedules(history[l], k)
      BY <1>4, <3>5
    <3>7. l \in 1..Len(history) /\ m \in 1..Len(history) /\ l # m
      BY <1>0, <1>4, <2>1, <3>4
    <3>8. QED
      BY <1>0, <3>3, <3>6, <3>7 DEF ScheduledOnce
  <2>3. QED
    BY <1>3, <2>1, <2>2 DEF TaskHasEvents
<1>8. QED
  BY <1>3, <1>5, <1>6, <1>7 DEF events, retries

LEMMA EndImplies ==
  ASSUME RunInv, EndInv
  PROVE  EndedRunIsSettled
<1>1. /\ IsTerminal => Len(history) > 0 /\ history[Len(history)].type = StatusEvent[status]
      /\ \A n \in Events : history[n].type \in EndingEvents => IsTerminal /\ n = Len(history)
  <2>1. CASE IsTerminal
    BY <2>1 DEF EndInv, Events
  <2>2. CASE ~IsTerminal
    BY <2>2 DEF RunInv, JournalInv, NoEndingYet, Events
  <2>3. QED
    BY <2>1, <2>2
<1>2. IsTerminal => armed = {} /\ \A k \in Keys : ~OpenTask(k)
  BY DEF EndInv
<1>3. status \in {"cancelled", "terminated"} => IsTerminal
  BY DEF IsTerminal, TerminalStatuses
<1>4. status \in {"cancelled", "terminated"} =>
         \A i \in 1..Len(inbox) : inbox[i].status # "pending"
  BY <1>3 DEF EndInv
<1>5. QED
  BY <1>1, <1>2, <1>4 DEF EndedRunIsSettled, EndingRecordedOnce, EndedRunLeavesNoWork

\* For every function, mixture of builds, number of workers and sequence of
\* requests, crashes and lost leases: the history of an activity reads scheduled,
\* retries, at most one outcome; it agrees with the task row, which other workers
\* claim, retry and finish, and there are fewer retries than attempts allowed
\* (replay.go:556-760, activation.go:278-409, activity/worker.go:100-330).
THEOREM ActivitiesAreJournalled == Spec => []ActivityJournal
<1>1. RunInv => ActivityJournal
  BY JournalImplies
<1>2. Init => RunInv
  BY InitRun
<1>3. RunInv /\ [Next]_vars => RunInv'
  BY RunGoesOn
<1>4. QED
  BY <1>1, <1>2, <1>3, PTL DEF Spec

\* Where every worker's build registers the run's version, a run that has ended is
\* settled: its history ends with the one event of its status, no activity can be
\* executed and no timer come due any more, and a cancelled or terminated run leaves
\* no row of its inbox undecided (commitDecision, activation.go:305-409; TerminateRun).
THEOREM EndedRunsAreSettled == Registered = Workers => (Spec => []EndedRunIsSettled)
<1> SUFFICES ASSUME Registered = Workers
             PROVE  Spec => []EndedRunIsSettled
  OBVIOUS
<1>1. RunInv /\ EndInv => EndedRunIsSettled
  BY EndImplies
<1>2. Init => RunInv /\ EndInv
  BY InitRun
<1>3. RunInv /\ EndInv /\ [Next]_vars => RunInv' /\ EndInv'
  <2> SUFFICES ASSUME RunInv, EndInv, [Next]_vars
               PROVE  RunInv' /\ EndInv'
    OBVIOUS
  <2>1. RunInv' /\ Steps
    BY RunGoesOn
  <2>2. EndInv'
    BY <2>1, EndGoesOn DEF RunInv, ReadingInv, InboxInv
  <2>3. QED
    BY <2>1, <2>2
<1>4. QED
  BY <1>1, <1>2, <1>3, PTL DEF Spec


(***************************************************************************)
(* Where a function stands after the events of a history.                  *)
(***************************************************************************)

Standing(pc, phase, cancelled, returned) ==
    [pc |-> pc, phase |-> phase, cancelled |-> cancelled, returned |-> returned]

Returns == {"none", "completed", "failed", "cancelled"}

\* A function has returned once it is past its last call, has observed its
\* cancellation or does not handle an error; and it awaits the work of a call.
Standings(program) ==
    {s \in [pc : 1..Len(program)+1, phase : {"call", "scheduled", "outcome", "finish"},
            cancelled : BOOLEAN, returned : Returns] :
       LET call == program[s.pc]
           atCall == s.pc \in 1..Len(program)
       IN /\ s.phase = "finish" <=> s.returned # "none"
          /\ s.returned = "completed" => ~atCall
          /\ s.returned = "cancelled" => atCall /\ call.op = "checkCancel"
          /\ s.returned = "failed" => atCall /\ call.op = "activity" /\ call.key \notin Handled
          /\ s.phase = "scheduled" => atCall /\ call.op \in {"activity", "timer"}
          /\ s.phase = "outcome" => atCall /\ call.op = "activity"}

Start == Standing(1, "call", FALSE, "none")
At(r) == Standing(r.pc, r.phase, r.cancelled, r.returned)

\* The function comes from s to t without an event: it passes the points at which
\* it may observe a cancellation, and returns.
Silently(program, s, t) ==
    /\ t.cancelled = s.cancelled /\ s.pc <= t.pc
    /\ \A p \in s.pc..t.pc-1 : program[p].op = "checkCancel"
    /\ \/ t.phase = s.phase /\ t.returned = s.returned /\ t.pc = s.pc
       \/ s.phase = "call" /\ t.phase = "call" /\ ~s.cancelled
       \/ s.phase = "call" /\ t.returned = "completed" /\ (s.pc # t.pc => ~s.cancelled)
       \/ s.phase = "call" /\ t.returned = "cancelled" /\ s.cancelled /\ s.pc = t.pc

\* The call returned, and the function goes on; or it returns the call's error.
Onward(s) == Standing(s.pc + 1, "call", s.cancelled, s.returned)
Failing(s) == Standing(s.pc, "finish", s.cancelled, "failed")
Unhandled(event) == event.type = "activity.failed" /\ event.key \notin Handled

\* The call that the function is at makes it write, or read, an event.
Accepts(program, s, event, t) ==
    LET call == program[s.pc]
    IN /\ s.pc \in 1..Len(program) /\ call.key = event.key
       /\ \/ /\ s.phase = "call" /\ ScheduledCall(event) = call.op
             /\ t = Standing(s.pc, "scheduled", s.cancelled, s.returned)
          \/ /\ s.phase = "call" /\ CompletedCall(event) = call.op /\ call.op \in {"signal", "marker"}
             /\ t = Onward(s)
          \/ /\ s.phase \in {"scheduled", "outcome"} /\ IsRetry(event) /\ call.op = "activity"
             /\ t = Standing(s.pc, "outcome", s.cancelled, s.returned)
          \/ /\ s.phase \in {"scheduled", "outcome"} /\ CompletedCall(event) = call.op
             /\ t = IF Unhandled(event) THEN Failing(s) ELSE Onward(s)

Ignored == LifecycleEvents \cup EndingEvents

\* The next event leads the function from s to t.
Leads(program, s, event, t) ==
    \/ event.type \in Ignored /\ t = s
    \/ /\ IsCancel(event) /\ s.phase # "outcome"
       /\ t = Standing(s.pc, s.phase, TRUE, s.returned)
    \/ \E c \in Standings(program) : Silently(program, s, c) /\ Accepts(program, c, event, t)

\* f[n] is where the function stands after the first n events.
Path(program, events, last, f) ==
    /\ f \in [0..last -> Standings(program)] /\ f[0] = Start
    /\ \A n \in 1..last : Leads(program, f[n - 1], events[n], f[n])

\* How many calls have taken effect where the function stands.
Effective(program, s) ==
    EffectsBefore(program, s.pc) + (IF s.returned = "failed" THEN 1 ELSE 0)

FailedBy(events, last) == \E n \in 1..last : Unhandled(events[n])
Ranked(events, last) ==
    \A i \in 1..DoneBy(events, last) : \E n \in 1..last : Completing(events[n]) /\ DoneBy(events, n) = i

\* The events count what has taken effect, and tell of an error that ends the function.
Tallied(program, events, last, f) ==
    /\ \A n \in 0..last : /\ DoneBy(events, n) = Effective(program, f[n])
                          /\ f[n].returned = "failed" <=> FailedBy(events, n)
    /\ Ranked(events, last)

\* After the first `last' events the function stands at s.
Told(program, events, last, s) ==
    \E f : Path(program, events, last, f) /\ Tallied(program, events, last, f) /\ f[last] = s

(***************************************************************************)
(* Counting.                                                               *)
(***************************************************************************)

LEMMA DoneByNext ==
  ASSUME NEW events, NEW n \in Nat
  PROVE  /\ DoneBy(events, n) \in Nat /\ DoneBy(events, 0) = 0
         /\ DoneBy(events, n + 1) = DoneBy(events, n) + (IF Completing(events[n + 1]) THEN 1 ELSE 0)
<1> DEFINE before == {m \in 1..n : Completing(events[m])}
           after == {m \in 1..n+1 : Completing(events[m])}
<1>1. IsFiniteSet(1..n)
  BY FS_Interval
<1>2. IsFiniteSet(before) /\ Cardinality(before) \in Nat /\ n + 1 \notin before
  BY <1>1, FS_Subset, FS_CardinalityType
<1>3. after = IF Completing(events[n + 1]) THEN before \cup {n + 1} ELSE before
  OBVIOUS
<1>4. DoneBy(events, n) = Cardinality(before) /\ DoneBy(events, n + 1) = Cardinality(after)
  BY DEF DoneBy
<1>5. {m \in 1..0 : Completing(events[m])} = {}
  OBVIOUS
<1>6. DoneBy(events, 0) = 0
  BY <1>5, FS_EmptySet DEF DoneBy
<1> HIDE DEF before, after
<1>7. CASE Completing(events[n + 1])
  BY <1>2, <1>3, <1>4, <1>6, <1>7, FS_AddElement
<1>8. CASE ~Completing(events[n + 1])
  BY <1>2, <1>3, <1>4, <1>6, <1>8
<1>9. QED
  BY <1>7, <1>8

LEMMA DoneByAgrees ==
  ASSUME NEW former, NEW latter, NEW last \in Nat, Agree(former, latter, last)
  PROVE  \A n \in 0..last : DoneBy(former, n) = DoneBy(latter, n)
<1> SUFFICES ASSUME NEW n \in 0..last
             PROVE  DoneBy(former, n) = DoneBy(latter, n)
  OBVIOUS
<1>1. \A m \in 1..n : former[m] = latter[m]
  BY DEF Agree
<1>2. {m \in 1..n : Completing(former[m])} = {m \in 1..n : Completing(latter[m])}
  BY <1>1
<1>3. QED
  BY <1>2 DEF DoneBy

LEMMA EffectsNext ==
  ASSUME NEW program, NEW p \in Nat \ {0}
  PROVE  /\ EffectsBefore(program, p) \in Nat /\ EffectsBefore(program, 1) = 0
         /\ EffectsBefore(program, p + 1) =
              EffectsBefore(program, p) + (IF program[p].op # "checkCancel" THEN 1 ELSE 0)
<1> DEFINE before == {q \in 1..p-1 : program[q].op # "checkCancel"}
           after == {q \in 1..(p+1)-1 : program[q].op # "checkCancel"}
<1>1. IsFiniteSet(1..p-1)
  BY FS_Interval
<1>2. IsFiniteSet(before) /\ Cardinality(before) \in Nat /\ p \notin before
  BY <1>1, FS_Subset, FS_CardinalityType
<1>3. after = IF program[p].op # "checkCancel" THEN before \cup {p} ELSE before
  OBVIOUS
<1>4. EffectsBefore(program, p) = Cardinality(before) /\ EffectsBefore(program, p + 1) = Cardinality(after)
  BY DEF EffectsBefore
<1>5. {q \in 1..1-1 : program[q].op # "checkCancel"} = {}
  OBVIOUS
<1>6. EffectsBefore(program, 1) = 0
  BY <1>5, FS_EmptySet DEF EffectsBefore
<1> HIDE DEF before, after
<1>7. CASE program[p].op # "checkCancel"
  BY <1>2, <1>3, <1>4, <1>6, <1>7, FS_AddElement
<1>8. CASE program[p].op = "checkCancel"
  BY <1>2, <1>3, <1>4, <1>6, <1>8
<1>9. QED
  BY <1>7, <1>8

\* A cancellation point takes no effect.
LEMMA EffectsSkip ==
  ASSUME NEW program, NEW p \in Nat \ {0}, NEW q \in Nat \ {0}, p <= q,
         \A i \in p..q-1 : program[i].op = "checkCancel"
  PROVE  EffectsBefore(program, q) = EffectsBefore(program, p)
<1>1. \A i \in 1..q-1 : i \in 1..p-1 \/ i \in p..q-1
  OBVIOUS
<1>2. 1..p-1 \subseteq 1..q-1
  OBVIOUS
<1>3. {i \in 1..q-1 : program[i].op # "checkCancel"} = {i \in 1..p-1 : program[i].op # "checkCancel"}
  BY <1>1, <1>2
<1>4. QED
  BY <1>3 DEF EffectsBefore

(***************************************************************************)
(* What an event tells of the function.                                    *)
(***************************************************************************)

\* Two standings are the same if their parts are.
LEMMA StandingParts ==
  ASSUME NEW program, NEW s \in Standings(program)
  PROVE  /\ s = Standing(s.pc, s.phase, s.cancelled, s.returned)
         /\ s.pc \in Nat \ {0} /\ s.pc \in 1..Len(program) + 1
         /\ \A pc, phase, cancelled, returned :
              LET t == Standing(pc, phase, cancelled, returned)
              IN t.pc = pc /\ t.phase = phase /\ t.cancelled = cancelled /\ t.returned = returned
BY DEF Standings, Standing

LEMMA StartStands ==
  ASSUME NEW program \in Seq(Command)
  PROVE  Start \in Standings(program)
<1>1. 1 \in 1..Len(program) + 1
  OBVIOUS
<1>2. QED
  BY <1>1 DEF Start, Standing, Standings, Returns

LEMMA EventCalls ==
  ASSUME NEW event
  PROVE  /\ CompletedCall(event) \in {"activity", "timer", "signal", "marker", "none"}
         /\ ScheduledCall(event) \in {"activity", "timer", "none"}
         /\ Completing(event) => ScheduledCall(event) = "none" /\ ~IsRetry(event) /\ ~IsCancel(event) /\ event.type \notin Ignored
         /\ ScheduledCall(event) # "none" => ~IsRetry(event) /\ ~IsCancel(event) /\ event.type \notin Ignored
         /\ Unhandled(event) => CompletedCall(event) = "activity"
         /\ IsRetry(event) => ~IsCancel(event) /\ event.type \notin Ignored
         /\ IsCancel(event) => event.type \notin Ignored
<1>1. /\ CompletedCall(event) \in {"activity", "timer", "signal", "marker", "none"}
      /\ event.type \notin OutcomeEvents \cup {"timer.fired", "signal.received", "marker.recorded"} =>
           CompletedCall(event) = "none"
      /\ Unhandled(event) => CompletedCall(event) = "activity"
  BY DEF CompletedCall, Unhandled, OutcomeEvents
<1>2. /\ ScheduledCall(event) \in {"activity", "timer", "none"}
      /\ event.type \notin {"activity.scheduled", "timer.scheduled"} => ScheduledCall(event) = "none"
  BY DEF ScheduledCall
<1>3. QED
  BY <1>1, <1>2 DEF Completing, OutcomeEvents, IsRetry, IsCancel, Ignored, LifecycleEvents, EndingEvents

LEMMA SilentStanding ==
  ASSUME NEW program, NEW s \in Standings(program), NEW t \in Standings(program), Silently(program, s, t)
  PROVE  /\ Effective(program, s) = Effective(program, t)
         /\ s.returned = "failed" <=> t.returned = "failed"
         /\ t.phase # "finish" => s.phase # "finish" /\ s.returned = "none" /\ t.returned = "none"
         /\ t.phase \in {"scheduled", "outcome"} \/ s.phase # "call" => s = t
<1>1. EffectsBefore(program, s.pc) = EffectsBefore(program, t.pc)
  BY StandingParts, EffectsSkip DEF Silently
<1>2. /\ s.phase = "finish" <=> s.returned # "none"
      /\ t.phase = "finish" <=> t.returned # "none"
  BY DEF Standings
<1>3. s.returned = "failed" <=> t.returned = "failed"
  BY <1>2 DEF Silently
<1>4. t.phase # "finish" => s.phase # "finish" /\ s.returned = "none" /\ t.returned = "none"
  BY <1>2 DEF Silently
<1>5. ASSUME t.phase \in {"scheduled", "outcome"} \/ s.phase # "call"
      PROVE  s = t
  <2>1. t.phase = s.phase /\ t.returned = s.returned /\ t.pc = s.pc /\ t.cancelled = s.cancelled
    BY <1>2, <1>5 DEF Silently
  <2>2. QED
    BY <2>1, StandingParts
<1>6. QED
  BY <1>1, <1>3, <1>4, <1>5 DEF Effective

LEMMA AcceptedStanding ==
  ASSUME NEW program \in Seq(Command), NEW s \in Standings(program), NEW event, NEW t, Accepts(program, s, event, t)
  PROVE  /\ t \in Standings(program) /\ s.phase # "finish" /\ s.returned = "none"
         /\ Effective(program, t) = Effective(program, s) + (IF Completing(event) THEN 1 ELSE 0)
         /\ t.returned = "failed" <=> Unhandled(event)
         /\ Effective(program, s) = EffectsBefore(program, s.pc)
         /\ s.pc \in 1..Len(program) /\ program[s.pc].key = event.key
         /\ Completing(event) => program[s.pc].op = CompletedCall(event)
         /\ ScheduledCall(event) # "none" => program[s.pc].op = ScheduledCall(event)
         /\ event.type \notin Ignored /\ ~IsCancel(event)
<1> DEFINE call == program[s.pc]
<1>1. /\ s.pc \in 1..Len(program) /\ call.key = event.key
      /\ call.op \in Ops /\ s.pc \in Nat \ {0} /\ s.pc + 1 \in 1..Len(program) + 1
      /\ s.cancelled \in BOOLEAN
  BY DEF Accepts, Command, Standings
<1>2. /\ s.phase # "finish" /\ s.returned = "none"
      /\ s.phase \in {"scheduled", "outcome"} => call.op \in {"activity", "timer"}
  BY DEF Accepts, Standings
<1>3. Effective(program, s) = EffectsBefore(program, s.pc) /\ Effective(program, s) \in Nat
  <2>1. EffectsBefore(program, s.pc) \in Nat
    BY <1>1, EffectsNext
  <2>2. QED
    BY <1>2, <2>1 DEF Effective
<1>4. EffectsBefore(program, s.pc + 1) =
        EffectsBefore(program, s.pc) + (IF call.op # "checkCancel" THEN 1 ELSE 0)
  BY <1>1, EffectsNext
<1>P. \A pc, phase, cancelled, returned :
        LET u == Standing(pc, phase, cancelled, returned)
        IN /\ u.pc = pc /\ u.phase = phase /\ u.cancelled = cancelled /\ u.returned = returned
           /\ /\ pc \in 1..Len(program) + 1 /\ phase \in {"call", "scheduled", "outcome", "finish"}
              /\ cancelled \in BOOLEAN /\ returned \in Returns
              /\ phase = "finish" <=> returned # "none"
              /\ returned \in {"none", "failed"}
              /\ returned = "failed" => pc \in 1..Len(program) /\ program[pc].op = "activity" /\ program[pc].key \notin Handled
              /\ phase = "scheduled" => pc \in 1..Len(program) /\ program[pc].op \in {"activity", "timer"}
              /\ phase = "outcome" => pc \in 1..Len(program) /\ program[pc].op = "activity"
              => u \in Standings(program)
  BY DEF Standing, Standings
<1>5. call.op \in Ops \ {"checkCancel"} => EffectsBefore(program, s.pc + 1) = Effective(program, s) + 1
  BY <1>3, <1>4
<1> DEFINE Goal == /\ t \in Standings(program)
                   /\ Effective(program, t) = Effective(program, s) + (IF Completing(event) THEN 1 ELSE 0)
                   /\ t.returned = "failed" <=> Unhandled(event)
                   /\ Completing(event) => call.op = CompletedCall(event)
                   /\ ScheduledCall(event) # "none" => call.op = ScheduledCall(event)
                   /\ event.type \notin Ignored /\ ~IsCancel(event)
<1> SUFFICES Goal
  BY <1>1, <1>2, <1>3
<1>R. "none" \in Returns /\ "failed" \in Returns
  BY DEF Returns
<1>6. CASE /\ s.phase = "call" /\ ScheduledCall(event) = call.op
           /\ t = Standing(s.pc, "scheduled", s.cancelled, s.returned)
  <2>1. ScheduledCall(event) \in {"activity", "timer"} /\ call.op \in {"activity", "timer"}
    BY <1>1, <1>6, EventCalls DEF Ops
  <2>2. ~Completing(event) /\ ~Unhandled(event) /\ event.type \notin Ignored /\ ~IsCancel(event)
    BY <2>1, EventCalls DEF Completing
  <2>3. t \in Standings(program)
    BY <1>1, <1>2, <1>6, <1>P, <1>R, <2>1
  <2>4. t.pc = s.pc /\ t.returned = "none"
    BY <1>2, <1>6, <1>P
  <2>5. Effective(program, t) = Effective(program, s)
    BY <1>3, <2>4 DEF Effective
  <2>6. QED
    BY <1>3, <1>6, <2>2, <2>3, <2>4, <2>5
<1>7. CASE /\ s.phase = "call" /\ CompletedCall(event) = call.op /\ call.op \in {"signal", "marker"}
           /\ t = Onward(s)
  <2>1. Completing(event) /\ ~Unhandled(event) /\ ScheduledCall(event) = "none" /\ event.type \notin Ignored /\ ~IsCancel(event)
    BY <1>7, EventCalls DEF Completing
  <2>2. t \in Standings(program) /\ t.pc = s.pc + 1 /\ t.returned = "none"
    BY <1>1, <1>2, <1>7, <1>P, <1>R DEF Onward
  <2>3. Effective(program, t) = Effective(program, s) + 1
    <3>1. EffectsBefore(program, s.pc + 1) = Effective(program, s) + 1
      BY <1>1, <1>5, <1>7
    <3>2. QED
      BY <1>3, <2>2, <3>1 DEF Effective
  <2>4. QED
    BY <1>7, <2>1, <2>2, <2>3
<1>8. CASE /\ s.phase \in {"scheduled", "outcome"} /\ IsRetry(event) /\ call.op = "activity"
           /\ t = Standing(s.pc, "outcome", s.cancelled, s.returned)
  <2>1. ~Completing(event) /\ ~Unhandled(event) /\ ScheduledCall(event) = "none" /\ event.type \notin Ignored /\ ~IsCancel(event)
    BY <1>8, EventCalls DEF Completing
  <2>2. t \in Standings(program) /\ t.pc = s.pc /\ t.returned = "none"
    BY <1>1, <1>2, <1>8, <1>P, <1>R
  <2>3. Effective(program, t) = Effective(program, s)
    BY <1>3, <2>2 DEF Effective
  <2>4. QED
    BY <1>3, <2>1, <2>2, <2>3
<1>9. CASE /\ s.phase \in {"scheduled", "outcome"} /\ CompletedCall(event) = call.op
           /\ t = IF Unhandled(event) THEN Failing(s) ELSE Onward(s)
  <2>1. Completing(event) /\ ScheduledCall(event) = "none" /\ event.type \notin Ignored /\ ~IsCancel(event)
    BY <1>2, <1>9, EventCalls DEF Completing
  <2>2. CASE Unhandled(event)
    <3>1. call.op = "activity" /\ call.key \notin Handled
      BY <1>1, <1>9, <2>2, EventCalls DEF Unhandled
    <3>2. t \in Standings(program) /\ t.pc = s.pc /\ t.returned = "failed"
      BY <1>1, <1>9, <1>P, <1>R, <2>2, <3>1 DEF Failing
    <3>3. Effective(program, t) = Effective(program, s) + 1
      BY <1>3, <3>2 DEF Effective
    <3>4. QED
      BY <1>9, <2>1, <2>2, <3>2, <3>3
  <2>3. CASE ~Unhandled(event)
    <3>1. t \in Standings(program) /\ t.pc = s.pc + 1 /\ t.returned = "none"
      BY <1>1, <1>2, <1>9, <1>P, <1>R, <2>3 DEF Onward
    <3>2. Effective(program, t) = Effective(program, s) + 1
      <4>1. call.op \in {"activity", "timer"}
        BY <1>2, <1>9
      <4>2. EffectsBefore(program, s.pc + 1) = Effective(program, s) + 1
        BY <1>5, <4>1 DEF Ops
      <4>3. QED
        BY <1>3, <3>1, <4>2 DEF Effective
    <3>3. QED
      BY <1>9, <2>1, <2>3, <3>1, <3>2
  <2>4. QED
    BY <2>2, <2>3
<1>10. QED
  <2>1. \/ /\ s.phase = "call" /\ ScheduledCall(event) = call.op
           /\ t = Standing(s.pc, "scheduled", s.cancelled, s.returned)
        \/ /\ s.phase = "call" /\ CompletedCall(event) = call.op /\ call.op \in {"signal", "marker"}
           /\ t = Onward(s)
        \/ /\ s.phase \in {"scheduled", "outcome"} /\ IsRetry(event) /\ call.op = "activity"
           /\ t = Standing(s.pc, "outcome", s.cancelled, s.returned)
        \/ /\ s.phase \in {"scheduled", "outcome"} /\ CompletedCall(event) = call.op
           /\ t = IF Unhandled(event) THEN Failing(s) ELSE Onward(s)
    BY DEF Accepts
  <2> HIDE DEF Goal, call
  <2>2. QED
    BY <1>6, <1>7, <1>8, <1>9, <2>1

LEMMA LedStanding ==
  ASSUME NEW program \in Seq(Command), NEW s \in Standings(program), NEW event, NEW t, Leads(program, s, event, t)
  PROVE  /\ t \in Standings(program)
         /\ Effective(program, t) = Effective(program, s) + (IF Completing(event) THEN 1 ELSE 0)
         /\ t.returned = "failed" <=> s.returned = "failed" \/ Unhandled(event)
         /\ Completing(event) =>
              \E p \in 1..Len(program) :
                 /\ EffectsBefore(program, p) = Effective(program, s)
                 /\ program[p].op = CompletedCall(event) /\ program[p].key = event.key
         /\ ScheduledCall(event) # "none" =>
              \E p \in 1..Len(program) :
                 /\ EffectsBefore(program, p) = Effective(program, s)
                 /\ program[p].op = ScheduledCall(event) /\ program[p].key = event.key
         /\ s.phase = "finish" => ~Completing(event)
<1>1. ASSUME NEW u \in Standings(program)
      PROVE  Effective(program, u) \in Nat /\ Effective(program, u) + 0 = Effective(program, u)
  <2>1. EffectsBefore(program, u.pc) \in Nat
    BY StandingParts, EffectsNext
  <2>2. QED
    BY <2>1 DEF Effective
<1>2. ASSUME t \in Standings(program), t.pc = s.pc, t.returned = s.returned,
             ~Completing(event), ~Unhandled(event), ScheduledCall(event) = "none"
      PROVE  /\ t \in Standings(program)
             /\ Effective(program, t) = Effective(program, s) + (IF Completing(event) THEN 1 ELSE 0)
             /\ t.returned = "failed" <=> s.returned = "failed" \/ Unhandled(event)
             /\ ~Completing(event) /\ ScheduledCall(event) = "none"
  <2>1. Effective(program, t) = Effective(program, s)
    BY <1>2 DEF Effective
  <2>2. QED
    BY <1>1, <1>2, <2>1
<1>3. CASE event.type \in Ignored /\ t = s
  <2>1. ~Completing(event) /\ ~Unhandled(event) /\ ScheduledCall(event) = "none"
    BY <1>3, EventCalls DEF Completing
  <2>2. QED
    BY <1>2, <1>3, <2>1
<1>4. CASE IsCancel(event) /\ s.phase # "outcome" /\ t = Standing(s.pc, s.phase, TRUE, s.returned)
  <2>1. ~Completing(event) /\ ~Unhandled(event) /\ ScheduledCall(event) = "none"
    BY <1>4, EventCalls DEF Completing
  <2>2. t.pc = s.pc /\ t.returned = s.returned
    BY <1>4 DEF Standing
  <2>3. t \in Standings(program)
    BY <1>4 DEF Standings, Standing
  <2>4. QED
    BY <1>2, <2>1, <2>2, <2>3
<1>5. CASE \E c \in Standings(program) : Silently(program, s, c) /\ Accepts(program, c, event, t)
  <2>1. PICK c \in Standings(program) : Silently(program, s, c) /\ Accepts(program, c, event, t)
    BY <1>5
  <2>2. /\ t \in Standings(program) /\ c.phase # "finish"
        /\ Effective(program, t) = Effective(program, c) + (IF Completing(event) THEN 1 ELSE 0)
        /\ t.returned = "failed" <=> Unhandled(event)
        /\ Effective(program, c) = EffectsBefore(program, c.pc)
        /\ c.pc \in 1..Len(program) /\ program[c.pc].key = event.key
        /\ Completing(event) => program[c.pc].op = CompletedCall(event)
        /\ ScheduledCall(event) # "none" => program[c.pc].op = ScheduledCall(event)
    BY <2>1, AcceptedStanding
  <2>3. Effective(program, s) = Effective(program, c) /\ s.phase # "finish" /\ s.returned = "none"
    BY <2>1, <2>2, SilentStanding
  <2>4. QED
    BY <2>2, <2>3
<1>6. QED
  BY <1>3, <1>4, <1>5 DEF Leads

(***************************************************************************)
(* Histories that are told, event by event.                                *)
(***************************************************************************)

LEMMA ToldFirst ==
  ASSUME NEW program \in Seq(Command), NEW events
  PROVE  Told(program, events, 0, Start)
<1> DEFINE f == [n \in 0..0 |-> Start]
<1>1. Start \in Standings(program) /\ Start.pc = 1 /\ Start.returned = "none"
  BY StartStands DEF Start, Standing
<1>2. f \in [0..0 -> Standings(program)] /\ f[0] = Start
  BY <1>1
<1>3. DoneBy(events, 0) = 0 /\ EffectsBefore(program, 1) = 0
  BY DoneByNext, EffectsNext
<1>4. Effective(program, Start) = 0
  BY <1>1, <1>3 DEF Effective
<1>5. ~FailedBy(events, 0) /\ 1..0 = {}
  BY DEF FailedBy
<1> HIDE DEF f
<1>6. Path(program, events, 0, f)
  BY <1>2, <1>5 DEF Path
<1>7. \A n \in 0..0 : n = 0
  OBVIOUS
<1>8. Tallied(program, events, 0, f)
  BY <1>1, <1>2, <1>3, <1>4, <1>5, <1>7 DEF Tallied, Ranked
<1>9. QED
  BY <1>2, <1>6, <1>8 DEF Told

LEMMA ToldNext ==
  ASSUME NEW program \in Seq(Command), NEW events, NEW last \in Nat, NEW s, Told(program, events, last, s),
         NEW t, Leads(program, s, events[last + 1], t)
  PROVE  Told(program, events, last + 1, t)
<1> DEFINE next == last + 1
           event == events[next]
<1>1. PICK f : Path(program, events, last, f) /\ Tallied(program, events, last, f) /\ f[last] = s
  BY DEF Told
<1>2. s \in Standings(program) /\ f \in [0..last -> Standings(program)]
  BY <1>1 DEF Path
<1>3. /\ t \in Standings(program)
      /\ Effective(program, t) = Effective(program, s) + (IF Completing(event) THEN 1 ELSE 0)
      /\ t.returned = "failed" <=> s.returned = "failed" \/ Unhandled(event)
  BY <1>2, LedStanding
<1> DEFINE g == [n \in 0..next |-> IF n = next THEN t ELSE f[n]]
<1>4. g \in [0..next -> Standings(program)] /\ g[next] = t /\ \A n \in 0..last : g[n] = f[n]
  BY <1>2, <1>3
<1> HIDE DEF g
<1>5. \A n \in 0..next : n \in 0..last \/ n = next
  OBVIOUS
<1>6. Path(program, events, next, g)
  <2>1. ASSUME NEW n \in 1..next
        PROVE  Leads(program, g[n - 1], events[n], g[n])
    <3>1. CASE n = next
      BY <1>1, <1>4, <3>1
    <3>2. CASE n \in 1..last
      BY <1>1, <1>4, <3>2 DEF Path
    <3>3. QED
      BY <3>1, <3>2
  <2>2. g[0] = Start
    BY <1>1, <1>4 DEF Path
  <2>3. QED
    BY <1>4, <2>1, <2>2 DEF Path
<1>7. /\ DoneBy(events, last) = Effective(program, s)
      /\ s.returned = "failed" <=> FailedBy(events, last)
      /\ Ranked(events, last)
  BY <1>1 DEF Tallied
<1>8. DoneBy(events, next) = DoneBy(events, last) + (IF Completing(event) THEN 1 ELSE 0) /\ DoneBy(events, last) \in Nat
  BY DoneByNext
<1>9. FailedBy(events, next) <=> FailedBy(events, last) \/ Unhandled(event)
  BY DEF FailedBy
<1>10. Ranked(events, next)
  <2> SUFFICES ASSUME NEW i \in 1..DoneBy(events, next)
               PROVE  \E n \in 1..next : Completing(events[n]) /\ DoneBy(events, n) = i
    BY DEF Ranked
  <2>1. CASE i \in 1..DoneBy(events, last)
    BY <1>7, <2>1 DEF Ranked
  <2>2. CASE i \notin 1..DoneBy(events, last)
    <3>1. Completing(event) /\ i = DoneBy(events, next)
      BY <1>8, <2>2
    <3>2. next \in 1..next
      OBVIOUS
    <3>3. QED
      BY <3>1, <3>2
  <2>3. QED
    BY <2>1, <2>2
<1>11. Tallied(program, events, next, g)
  <2>1. ASSUME NEW n \in 0..next
        PROVE  DoneBy(events, n) = Effective(program, g[n]) /\ (g[n].returned = "failed" <=> FailedBy(events, n))
    <3>1. CASE n = next
      BY <1>3, <1>4, <1>7, <1>8, <1>9, <3>1
    <3>2. CASE n \in 0..last
      BY <1>1, <1>4, <3>2 DEF Tallied
    <3>3. QED
      BY <1>5, <3>1, <3>2
  <2>2. QED
    BY <1>10, <2>1 DEF Tallied
<1>12. QED
  BY <1>4, <1>6, <1>11 DEF Told

LEMMA ToldAgrees ==
  ASSUME NEW program, NEW former, NEW latter, NEW last \in Nat, Agree(former, latter, last),
         NEW s, Told(program, former, last, s)
  PROVE  Told(program, latter, last, s)
<1>1. PICK f : Path(program, former, last, f) /\ Tallied(program, former, last, f) /\ f[last] = s
  BY DEF Told
<1>2. \A n \in 1..last : former[n] = latter[n]
  BY DEF Agree
<1>3. Path(program, latter, last, f)
  BY <1>1, <1>2 DEF Path
<1>4. \A n \in 0..last : DoneBy(former, n) = DoneBy(latter, n)
  BY DoneByAgrees
<1>5. \A n \in 0..last : FailedBy(former, n) <=> FailedBy(latter, n)
  BY <1>2 DEF FailedBy
<1>6. Ranked(latter, last)
  <2> SUFFICES ASSUME NEW i \in 1..DoneBy(latter, last)
               PROVE  \E n \in 1..last : Completing(latter[n]) /\ DoneBy(latter, n) = i
    BY DEF Ranked
  <2>1. i \in 1..DoneBy(former, last) /\ Ranked(former, last)
    BY <1>1, <1>4 DEF Tallied
  <2>2. PICK n \in 1..last : Completing(former[n]) /\ DoneBy(former, n) = i
    BY <2>1 DEF Ranked
  <2>3. QED
    BY <1>2, <1>4, <2>2
<1>7. Tallied(program, latter, last, f)
  BY <1>1, <1>4, <1>5, <1>6 DEF Tallied
<1>8. QED
  BY <1>1, <1>3, <1>7 DEF Told

LEMMA ToldTells ==
  ASSUME NEW program, NEW events, NEW last \in Nat, NEW s, Told(program, events, last, s)
  PROVE  /\ s \in Standings(program)
         /\ DoneBy(events, last) = Effective(program, s)
         /\ s.returned = "failed" <=> FailedBy(events, last)
         /\ Ranked(events, last)
BY DEF Told, Path, Tallied

\* A history that is told is one that the function can have produced.
LEMMA ToldMatches ==
  ASSUME NEW program \in Seq(Command), NEW events, Len(events) \in Nat, NEW s, Told(program, events, Len(events), s)
  PROVE  \A n \in 1..Len(events) :
            /\ Completing(events[n]) =>
                 \E p \in 1..Len(program) :
                    /\ EffectsBefore(program, p) + 1 = DoneBy(events, n)
                    /\ program[p].op = CompletedCall(events[n]) /\ program[p].key = events[n].key
            /\ ScheduledCall(events[n]) # "none" =>
                 \E p \in 1..Len(program) :
                    /\ EffectsBefore(program, p) = DoneBy(events, n)
                    /\ program[p].op = ScheduledCall(events[n]) /\ program[p].key = events[n].key
<1> DEFINE last == Len(events)
<1>1. PICK f : Path(program, events, last, f) /\ Tallied(program, events, last, f)
  BY DEF Told
<1> SUFFICES ASSUME NEW n \in 1..last
             PROVE  /\ Completing(events[n]) =>
                         \E p \in 1..Len(program) :
                            /\ EffectsBefore(program, p) + 1 = DoneBy(events, n)
                            /\ program[p].op = CompletedCall(events[n]) /\ program[p].key = events[n].key
                    /\ ScheduledCall(events[n]) # "none" =>
                         \E p \in 1..Len(program) :
                            /\ EffectsBefore(program, p) = DoneBy(events, n)
                            /\ program[p].op = ScheduledCall(events[n]) /\ program[p].key = events[n].key
  OBVIOUS
<1> DEFINE s0 == f[n - 1]
<1>2. n - 1 \in 0..last /\ n \in 0..last /\ n - 1 \in Nat /\ (n - 1) + 1 = n
  OBVIOUS
<1>3. /\ s0 \in Standings(program) /\ Leads(program, s0, events[n], f[n])
      /\ DoneBy(events, n - 1) = Effective(program, s0)
  BY <1>1, <1>2 DEF Path, Tallied
<1>4. /\ DoneBy(events, n) = DoneBy(events, n - 1) + (IF Completing(events[n]) THEN 1 ELSE 0)
      /\ DoneBy(events, n - 1) \in Nat
  BY <1>2, DoneByNext
<1> HIDE DEF s0
<1>5. /\ Completing(events[n]) =>
           \E p \in 1..Len(program) :
              /\ EffectsBefore(program, p) = Effective(program, s0)
              /\ program[p].op = CompletedCall(events[n]) /\ program[p].key = events[n].key
      /\ ScheduledCall(events[n]) # "none" =>
           \E p \in 1..Len(program) :
              /\ EffectsBefore(program, p) = Effective(program, s0)
              /\ program[p].op = ScheduledCall(events[n]) /\ program[p].key = events[n].key
  BY <1>3, LedStanding
<1>6. ScheduledCall(events[n]) # "none" => ~Completing(events[n])
  BY EventCalls
<1>7. QED
  BY <1>3, <1>4, <1>5, <1>6

LEMMA ToldIsProduced ==
  ASSUME NEW program \in Seq(Command)
  PROVE  /\ Len(history) \in Nat /\ (\E s : Told(program, history, Len(history), s)) => Produced(program)
         /\ Len(history') \in Nat /\ (\E s : Told(program, history', Len(history'), s)) => Produced(program)'
  BY ToldMatches DEF Produced, Events

(***************************************************************************)
(* The steps of a replay, as far as they concern where the function stands.*)
(***************************************************************************)

\* Nothing is next that a context call takes before it does anything of its own.
NothingNext(r, items) ==
    /\ r.cursor # Len(r.log) =>
         LET event == r.log[r.cursor + 1]
         IN event.type \notin LifecycleEvents /\ ~(IsCancel(event) /\ event.key = None)
    /\ r.cursor = Len(r.log) => ~\E i \in r.frontier : Oldest(i, r.frontier) /\ items[i].kind = "cancel"

\* The function has gone past a cancellation point, or observed the cancellation.
Strayed(s, t) == s.pc # t.pc \/ (t.returned = "cancelled" /\ s.returned # "cancelled")

Passed(r) ==
    /\ ~NothingNext(runner, inbox)
    /\ \E event :
         /\ Meets(r, event)
         /\ \/ event.type \in LifecycleEvents /\ At(r) = At(runner)
            \/ /\ IsCancel(event) /\ runner.phase # "outcome"
               /\ At(r) = Standing(runner.pc, runner.phase, TRUE, runner.returned)

Took(r) == \E event : Meets(r, event) /\ Accepts(runner.program, At(runner), event, At(r))

Skipped(r) ==
    /\ Place(r) = Place(runner) /\ r.frontier = runner.frontier /\ runner.phase = "call"
    /\ At(r) \in Standings(runner.program) /\ Silently(runner.program, At(runner), At(r))
    /\ Strayed(At(runner), At(r)) => NothingNext(runner, inbox)

Halted(r) == Blocking(r) /\ AtEnd /\ runner.phase # "finish"

Booked(r) ==
    /\ AtEnd /\ runner.phase = "call" /\ r.phase = "decided" /\ r.decision = "waiting"
    /\ \E event, t :
         /\ WritesOn(r, event) /\ Accepts(runner.program, At(runner), event, t)
         /\ t.phase = "scheduled" /\ t.pc = runner.pc
    /\ r.newTask # runner.newTask => Call.op = "activity" /\ Call.key = r.newTask

Treads(r) ==
    \/ Passed(r) \/ Took(r) \/ Skipped(r) \/ Halted(r) \/ Booked(r)
    \/ Finishing(r) \/ (Leaving(r) /\ Diverge)

LEMMA AtParts ==
  ASSUME NEW r
  PROVE  /\ At(r).pc = r.pc /\ At(r).phase = r.phase
         /\ At(r).cancelled = r.cancelled /\ At(r).returned = r.returned
BY DEF At, Standing

LEMMA AtOf ==
  ASSUME NEW r \in Runner
  PROVE  /\ At(ReturnTo(r)) = Onward(At(r))
         /\ At(FailCall(r)) = IF Call.key \in Handled THEN Onward(At(r)) ELSE Failing(At(r))
         /\ \A event : At(Queue(r, event)) = At(r)
<1>1. At(ReturnTo(r)) = Onward(At(r))
  BY DEF At, Onward, Standing, ReturnTo, Runner
<1>2. At(FailCall(r)) = IF Call.key \in Handled THEN Onward(At(r)) ELSE Failing(At(r))
  <2>1. CASE Call.key \in Handled
    BY <1>1, <2>1 DEF FailCall
  <2>2. CASE Call.key \notin Handled
    BY <2>2 DEF FailCall, Failing, At, Standing, Runner
  <2>3. QED
    BY <2>1, <2>2
<1>3. \A event : At(Queue(r, event)) = At(r)
  BY DEF At, Queue, Runner
<1>4. QED
  BY <1>1, <1>2, <1>3

LEMMA AtMatched ==
  ASSUME runner \in Runner, NEW phase \in Phases
  PROVE  /\ At(Matched(phase)) = Standing(runner.pc, phase, runner.cancelled, runner.returned)
         /\ Onward(At(Matched(phase))) = Onward(At(runner)) /\ Failing(At(Matched(phase))) = Failing(At(runner))
<1>1. At(Matched(phase)) = Standing(runner.pc, phase, runner.cancelled, runner.returned)
  BY DEF At, Matched, Standing, Runner
<1>2. QED
  BY <1>1 DEF Onward, Failing, Standing, At

LEMMA AtConsumed ==
  ASSUME NEW r \in Runner, NEW i \in r.frontier, NEW event \in Event
  PROVE  At(Consume(r, i, event)) = At(r)
<1> DEFINE q == Queue(r, event)
<1>1. At(q) = At(r) /\ q \in Runner
  BY AtOf, QueueType
<1> HIDE DEF q
<1>2. Consume(r, i, event) = [q EXCEPT !.frontier = q.frontier \ {i}, !.consumed = q.consumed \cup {i}]
  BY DEF Consume, q
<1>3. At([q EXCEPT !.frontier = q.frontier \ {i}, !.consumed = q.consumed \cup {i}]) = At(q)
  BY <1>1 DEF At, Runner
<1>4. QED
  BY <1>1, <1>2, <1>3

\* The calls of the events.
LEMMA CallsOf ==
  ASSUME NEW event
  PROVE  /\ event.type = "activity.scheduled" => ScheduledCall(event) = "activity"
         /\ event.type = "timer.scheduled" => ScheduledCall(event) = "timer"
         /\ IsOutcome(event) => CompletedCall(event) = "activity"
         /\ event.type = "timer.fired" => CompletedCall(event) = "timer"
         /\ event.type = "signal.received" => CompletedCall(event) = "signal"
         /\ event.type = "marker.recorded" => CompletedCall(event) = "marker"
BY DEF ScheduledCall, CompletedCall, IsOutcome, OutcomeEvents

LEMMA SettledNext ==
  ASSUME runner.phase # "decided"
  PROVE  /\ Settled /\ Advancing => NothingNext(runner, inbox)
         /\ Peek = runner.log[runner.cursor + 1] /\ (AtEnd <=> runner.cursor = Len(runner.log))
         /\ ~Settled => ~NothingNext(runner, inbox)
BY DEF Settled, NothingNext, LifecycleNext, RecordedCancelNext, FrontierCancelNext, FrontierCancel, Next1, AtEnd, Peek,
   Advancing, IsCancel

LEMMA ReplayTreads ==
  ASSUME runner \in Runner, runner' \in Runner, ReplayPosition, Reached(runner), Awaited(Written(runner)),
         ReplayStep, At(runner) \in Standings(runner.program)
  PROVE  Treads(runner')
<1> DEFINE P == runner.program
           s == At(runner)
<1>0. /\ "call" \in Phases /\ "scheduled" \in Phases /\ "outcome" \in Phases
      /\ runner.phase # "decided" /\ runner.cursor <= Len(runner.log)
  BY ReplayIsUndecided DEF Phases, Reached
<1>P. ~AtEnd => Peek \in Event
  BY <1>0, PeekType
<1>S. s.pc = runner.pc /\ s.phase = runner.phase /\ s.cancelled = runner.cancelled /\ s.returned = runner.returned
  BY AtParts
<1>C. Called => /\ runner.pc \in 1..Len(P) /\ Call = P[s.pc] /\ Call.key \in Keys \cup {None}
                /\ Call.op \in {"activity", "timer"} => Call.key \in Keys
  BY <1>S, CallType DEF Called, Call, Runner, Command
<1>A. runner.phase \in {"scheduled", "outcome"} => Called
  BY DEF ReplayPosition, Called
<1>N. \A type, key, item : LET event == NewEvent(type, key, item)
                           IN event.type = type /\ event.key = key /\ event.item = item
  BY DEF NewEvent
<1>M. Track(runner') = Track(runner) /\ Moves(runner')
  BY <1>0, ReplayMoves
<1>R. ASSUME NEW r \in Runner, Place(r) = <<runner.cursor + 1, runner.queued>>, ~AtEnd
      PROVE  ReadsOn(r, Peek) /\ Meets(r, Peek)
  BY <1>R DEF ReadsOn, Meets
<1>W. ASSUME NEW r \in Runner, NEW event \in Event, Place(r) = <<runner.cursor, Append(runner.queued, event)>>, AtEnd
      PROVE  WritesOn(r, event) /\ Meets(r, event)
  BY <1>W DEF WritesOn, Meets
<1> HIDE DEF P, s
\* The calls that take an event.
<1>a. ASSUME NEW event, Called, runner.phase = "call", ScheduledCall(event) = Call.op, event.key = Call.key,
             NEW t, t = Standing(runner.pc, "scheduled", runner.cancelled, runner.returned)
      PROVE  Accepts(P, s, event, t)
  BY <1>a, <1>C, <1>S DEF Accepts
<1>b. ASSUME NEW event, Called, runner.phase = "call", CompletedCall(event) = Call.op, Call.op \in {"signal", "marker"},
             event.key = Call.key, NEW t, t = Onward(s)
      PROVE  Accepts(P, s, event, t)
  BY <1>b, <1>C, <1>S DEF Accepts
<1>c. ASSUME NEW event, runner.phase \in {"scheduled", "outcome"}, Call.op = "activity", IsRetry(event),
             event.key = Call.key, NEW t, t = Standing(runner.pc, "outcome", runner.cancelled, runner.returned)
      PROVE  Accepts(P, s, event, t)
  BY <1>c, <1>A, <1>C, <1>S DEF Accepts
<1>d. ASSUME NEW event, runner.phase \in {"scheduled", "outcome"}, CompletedCall(event) = Call.op,
             event.key = Call.key, NEW t, t = IF Unhandled(event) THEN Failing(s) ELSE Onward(s)
      PROVE  Accepts(P, s, event, t)
  BY <1>d, <1>A, <1>C, <1>S DEF Accepts
<1>1. CASE SkipLifecycleEvent \/ ConsumeRecordedCancel
  <2> DEFINE n == runner.cursor + 1
  <2>1. \/ SkipLifecycleEvent /\ runner' = [runner EXCEPT !.cursor = n]
        \/ ConsumeRecordedCancel /\ runner' = [runner EXCEPT !.cursor = n, !.cancelled = TRUE]
    BY <1>1 DEF SkipLifecycleEvent, ConsumeRecordedCancel
  <2>2. ~AtEnd /\ ~NothingNext(runner, inbox)
    <3>1. ~AtEnd /\ ~Settled
      BY <1>1 DEF SkipLifecycleEvent, ConsumeRecordedCancel, LifecycleNext, RecordedCancelNext, Next1, Settled
    <3>2. QED
      BY <1>0, <3>1, SettledNext
  <2>3. \/ Peek.type \in LifecycleEvents /\ runner' = [runner EXCEPT !.cursor = n]
        \/ /\ IsCancel(Peek) /\ runner.phase # "outcome"
           /\ runner' = [runner EXCEPT !.cursor = n, !.cancelled = TRUE]
    BY <2>1 DEF SkipLifecycleEvent, ConsumeRecordedCancel, LifecycleNext, RecordedCancelNext, Next1, IsCancel, Advancing
  <2> HIDE DEF n
  <2>4. \A t \in {[runner EXCEPT !.cursor = n], [runner EXCEPT !.cursor = n, !.cancelled = TRUE]} :
          Place(t) = <<n, runner.queued>>
    BY ZenonT(60) DEF Place, Runner
  <2>5. Meets(runner', Peek)
    BY <1>R, <2>1, <2>2, <2>4 DEF n
  <2>6. /\ At([runner EXCEPT !.cursor = n]) = At(runner)
        /\ At([runner EXCEPT !.cursor = n, !.cancelled = TRUE]) =
             Standing(runner.pc, runner.phase, TRUE, runner.returned)
    BY DEF At, Standing, Runner
  <2>7. Passed(runner')
    BY <2>2, <2>3, <2>5, <2>6 DEF Passed
  <2>8. QED
    BY <2>7 DEF Treads
<1>2. CASE ConsumeFrontierCancel
  <2> DEFINE event(i) == NewEvent("cancel.requested", None, i)
             read(i) == Consume(runner, i, event(i))
  <2>1. PICK i \in runner.frontier : runner' = [read(i) EXCEPT !.cancelled = TRUE]
    BY <1>2 DEF ConsumeFrontierCancel
  <2>2. event(i) \in Event /\ IsCancel(event(i))
    <3>1. event(i) \in Event
      BY EventType DEF EventTypes, Runner
    <3>2. QED
      BY <1>N, <3>1 DEF IsCancel
  <2>3. AtEnd /\ Advancing /\ ~NothingNext(runner, inbox)
    BY <1>0, <1>2, SettledNext DEF ConsumeFrontierCancel, FrontierCancelNext, Settled
  <2> DEFINE e == event(i)
             q == read(i)
  <2>4. q \in Runner /\ At(q) = At(runner) /\ Place(q) = <<runner.cursor, Append(runner.queued, e)>>
    BY <2>2, AtConsumed, FieldsOfConsumed
  <2>5. runner' = [q EXCEPT !.cancelled = TRUE] /\ IsCancel(e) /\ e \in Event
    BY <2>1, <2>2
  <2> HIDE DEF q, e
  <2>6. Place(runner') = Place(q)
    BY <2>4, <2>5 DEF Place, Runner
  <2>7. At(runner') = Standing(q.pc, q.phase, TRUE, q.returned)
    BY <2>4, <2>5 DEF At, Standing, Runner
  <2>8. q.pc = runner.pc /\ q.phase = runner.phase /\ q.returned = runner.returned
    BY <2>4, AtParts
  <2>9. Meets(runner', e)
    BY <1>W, <2>3, <2>4, <2>5, <2>6
  <2>10. Passed(runner')
    BY <2>3, <2>5, <2>7, <2>8, <2>9 DEF Passed, Advancing
  <2>11. QED
    BY <2>10 DEF Treads
<1>3. CASE MatchSchedule
  <2>1. /\ runner' = Matched("scheduled") /\ ~AtEnd /\ runner.phase = "call" /\ Called
        /\ ScheduledCall(Peek) = Call.op /\ Peek.key = Call.key
    BY <1>3, CallsOf DEF MatchSchedule, Calling, Next1
  <2>2. /\ Place(runner') = <<runner.cursor + 1, runner.queued>>
        /\ At(runner') = Standing(runner.pc, "scheduled", runner.cancelled, runner.returned)
    BY <1>0, <2>1, FieldsOfMatched, AtMatched
  <2>3. Took(runner')
    BY <1>R, <1>a, <2>1, <2>2 DEF Took, P, s
  <2>4. QED
    BY <2>3 DEF Treads
<1>4. CASE SkipActivityRetry
  <2>1. /\ runner' = Matched("outcome") /\ ~AtEnd /\ runner.phase \in {"scheduled", "outcome"}
        /\ Call.op = "activity" /\ IsRetry(Peek) /\ Peek.key = Call.key
    BY <1>4 DEF SkipActivityRetry, AwaitingActivity, Next1, IsRetry
  <2>2. /\ Place(runner') = <<runner.cursor + 1, runner.queued>>
        /\ At(runner') = Standing(runner.pc, "outcome", runner.cancelled, runner.returned)
    BY <1>0, <2>1, FieldsOfMatched, AtMatched
  <2>3. Took(runner')
    BY <1>R, <1>c, <2>1, <2>2 DEF Took, P, s
  <2>4. QED
    BY <2>3 DEF Treads
<1>5. CASE MatchActivityOutcome \/ MatchTimerFired
  <2> DEFINE m == Matched("call")
  <2>1. /\ ~AtEnd /\ runner.phase \in {"scheduled", "outcome"} /\ Peek.key = Call.key
        /\ CompletedCall(Peek) = Call.op
    BY <1>5, CallsOf DEF MatchActivityOutcome, MatchTimerFired, AwaitingActivity, AwaitingTimer, RecordedOutcome, Next1,
       IsOutcome, OutcomeEvents
  <2>2. runner' = IF Unhandled(Peek) THEN FailCall(m) ELSE ReturnTo(m)
    <3>1. CASE MatchActivityOutcome
      BY <3>1 DEF MatchActivityOutcome, RecordedOutcome, Next1, Unhandled, FailCall
    <3>2. CASE MatchTimerFired
      BY <3>2 DEF MatchTimerFired, Next1, Unhandled
    <3>3. QED
      BY <1>5, <3>1, <3>2
  <2>3. m \in Runner /\ Place(m) = <<runner.cursor + 1, runner.queued>>
        /\ Onward(At(m)) = Onward(s) /\ Failing(At(m)) = Failing(s)
    BY <1>0, FieldsOfMatched, AtMatched DEF s
  <2> HIDE DEF m
  <2>4. Place(runner') = <<runner.cursor + 1, runner.queued>>
    BY <2>2, <2>3, FieldsOf
  <2>5. Unhandled(Peek) => Call.key \notin Handled
    BY <2>1 DEF Unhandled
  <2>6. At(runner') = IF Unhandled(Peek) THEN Failing(s) ELSE Onward(s)
    BY <2>2, <2>3, <2>5, AtOf
  <2>7. Took(runner')
    BY <1>R, <1>d, <2>1, <2>4, <2>6 DEF Took, P, s
  <2>8. QED
    BY <2>7 DEF Treads
<1>6. CASE MatchSignal \/ MatchMarker
  <2> DEFINE m == Matched("call")
  <2>1. /\ runner' = ReturnTo(m) /\ ~AtEnd /\ runner.phase = "call" /\ Called /\ Peek.key = Call.key
        /\ Call.op \in {"signal", "marker"} /\ CompletedCall(Peek) = Call.op
    BY <1>6, CallsOf DEF MatchSignal, MatchMarker, Calling, Next1
  <2>2. m \in Runner /\ Place(m) = <<runner.cursor + 1, runner.queued>> /\ Onward(At(m)) = Onward(s)
    BY <1>0, FieldsOfMatched, AtMatched DEF s
  <2> HIDE DEF m
  <2>3. Place(runner') = <<runner.cursor + 1, runner.queued>> /\ At(runner') = Onward(s)
    BY <2>1, <2>2, FieldsOf, AtOf
  <2>4. Took(runner')
    BY <1>R, <1>b, <2>1, <2>3 DEF Took, P, s
  <2>5. QED
    BY <2>4 DEF Treads
<1>7. ASSUME NEW event \in Event
      PROVE  LET q == Queue(runner, event)
             IN /\ q \in Runner /\ At(q) = At(runner) /\ Place(q) = <<runner.cursor, Append(runner.queued, event)>>
                /\ Choice(q) = Choice(runner) /\ Point(q) = Point(runner)
  BY FieldsOf, QueueType, AtOf
<1>8. CASE ScheduleActivity \/ ScheduleTimer
  <2> DEFINE event == NewEvent(ScheduleOf(Call.op), Call.key, 0)
             queue == Queue(runner, event)
             blocked == Block(queue, Call.op)
             t == Standing(runner.pc, "scheduled", runner.cancelled, runner.returned)
  <2>1. AtEnd /\ runner.phase = "call" /\ Called /\ Call.op \in {"activity", "timer"}
    BY <1>8 DEF ScheduleActivity, ScheduleTimer, Calling
  <2>2. \/ Call.op = "activity" /\ runner' = [blocked EXCEPT !.newTask = Call.key]
        \/ Call.op = "timer" /\ runner' = [blocked EXCEPT !.newTimer = Call.key]
    BY <1>8 DEF ScheduleActivity, ScheduleTimer, Calling, ScheduleOf
  <2>3. event \in Event /\ Call.op \in WaitKinds
    BY <1>C, <2>1, EventType DEF EventTypes, WaitKinds, ScheduleOf
  <2>4. event.type = ScheduleOf(Call.op) /\ event.key = Call.key
    BY <1>N
  <2> HIDE DEF event
  <2>5. ScheduledCall(event) = Call.op
    BY <2>1, <2>4, CallsOf DEF ScheduleOf
  <2>6. /\ queue \in Runner /\ Choice(queue) = Choice(runner)
        /\ Place(queue) = <<runner.cursor, Append(runner.queued, event)>>
    BY <1>7, <2>3
  <2> HIDE DEF queue
  <2>7. blocked \in Runner
    BY <1>C, <2>1, <2>3, <2>6, BlockType
  <2>8. /\ Place(blocked) = Place(queue) /\ blocked.phase = "decided"
        /\ Choice(blocked) = <<"waiting", queue.newTask, queue.newTimer>>
    BY <2>6, FieldsOfBlocked
  <2>9. blocked.decision = "waiting" /\ blocked.newTask = runner.newTask
    BY <2>6, <2>8 DEF Choice
  <2> HIDE DEF blocked
  <2>10. /\ Place(runner') = Place(blocked) /\ runner'.phase = "decided" /\ runner'.decision = "waiting"
         /\ runner'.newTask = IF Call.op = "activity" THEN Call.key ELSE runner.newTask
    <3>1. CASE Call.op = "activity" /\ runner' = [blocked EXCEPT !.newTask = Call.key]
      BY <2>7, <2>8, <2>9, <3>1 DEF Place, Runner
    <3>2. CASE Call.op = "timer" /\ runner' = [blocked EXCEPT !.newTimer = Call.key]
      BY <2>7, <2>8, <2>9, <3>2 DEF Place, Runner
    <3>3. QED
      BY <2>2, <3>1, <3>2
  <2>11. WritesOn(runner', event)
    BY <1>W, <2>1, <2>3, <2>6, <2>8, <2>10
  <2>12. t.phase = "scheduled" /\ t.pc = runner.pc
    BY DEF Standing
  <2>13. Accepts(P, s, event, t)
    BY <1>a, <2>1, <2>4, <2>5
  <2> HIDE DEF t
  <2>14. Booked(runner')
    BY <2>1, <2>10, <2>11, <2>12, <2>13 DEF Booked, P, s
  <2>15. QED
    BY <2>14 DEF Treads
<1>9. CASE RecordActivityOutcome
  <2> DEFINE outcome == runner.outcomes[Call.key]
             event == NewEvent(OutcomeEvent[outcome], Call.key, 0)
             queue == Queue(runner, event)
  <2>1. /\ runner.phase \in {"scheduled", "outcome"} /\ Call.op = "activity" /\ NothingAwaited
        /\ outcome \in {"completed", "failed"}
    BY <1>9 DEF RecordActivityOutcome, AwaitingActivity, NothingAwaited
  <2>2. OutcomeEvent[outcome] = IF outcome = "completed" THEN "activity.completed" ELSE "activity.failed"
    BY <2>1 DEF OutcomeEvent
  <2>3. event \in Event
    BY <1>A, <1>C, <2>1, <2>2, EventType DEF EventTypes
  <2>4. event.type = OutcomeEvent[outcome] /\ event.key = Call.key
    BY <1>N
  <2>5. CompletedCall(event) = Call.op
    BY <2>1, <2>2, <2>4, CallsOf DEF IsOutcome, OutcomeEvents
  <2>6. runner' = IF Unhandled(event) THEN FailCall(queue) ELSE ReturnTo(queue)
    <3>1. \/ outcome = "completed" /\ runner' = ReturnTo(queue)
          \/ outcome = "failed" /\ runner' = FailCall(queue)
      BY <1>9, <2>2 DEF RecordActivityOutcome
    <3> HIDE DEF queue, event
    <3>2. QED
      BY <2>2, <2>4, <3>1 DEF Unhandled, FailCall
  <2>7. AtEnd
    BY <2>1, AwaitsPastTheEnd
  <2> HIDE DEF event
  <2>8. queue \in Runner /\ At(queue) = s /\ Place(queue) = <<runner.cursor, Append(runner.queued, event)>>
    BY <1>7, <2>3 DEF s
  <2> HIDE DEF queue
  <2>9. Place(runner') = Place(queue)
    BY <2>6, <2>8, FieldsOf
  <2>10. Unhandled(event) => Call.key \notin Handled
    BY <2>4 DEF Unhandled
  <2>11. At(runner') = IF Unhandled(event) THEN Failing(s) ELSE Onward(s)
    BY <2>6, <2>8, <2>10, AtOf
  <2>12. Took(runner')
    BY <1>W, <1>d, <2>1, <2>3, <2>4, <2>5, <2>7, <2>8, <2>9, <2>11 DEF Took, P, s
  <2>13. QED
    BY <2>12 DEF Treads
<1>10. CASE AwaitActivity \/ AwaitTimer \/ AwaitSignal
  <2>1. AtEnd /\ runner.phase # "finish" /\ \E kind : runner' = Block(runner, kind)
    BY <1>10 DEF AwaitActivity, AwaitTimer, AwaitSignal, AwaitingActivity, AwaitingTimer, Calling
  <2>2. /\ Place(runner') = Place(runner) /\ runner'.phase = "decided"
        /\ Choice(runner') = <<"waiting", runner.newTask, runner.newTimer>>
    BY <2>1, FieldsOfBlocked
  <2>3. QED
    BY <1>0, <2>1, <2>2 DEF Blocking, Halted, Treads
<1>11. CASE FireTimer
  <2> DEFINE event(i) == NewEvent("timer.fired", Call.key, i)
             read(i) == Consume(runner, i, event(i))
  <2>1. PICK i \in TimerItems : runner' = ReturnTo(read(i))
    BY <1>11 DEF FireTimer
  <2>2. i \in runner.frontier /\ runner.phase \in {"scheduled", "outcome"} /\ Call.op = "timer" /\ NothingAwaited
    BY <1>11 DEF FireTimer, AwaitingTimer, TimerItems, NothingAwaited
  <2> DEFINE e == event(i)
             q == read(i)
  <2>3. e \in Event
    BY <1>A, <1>C, <2>2, EventType DEF EventTypes, Runner
  <2>4. e.type = "timer.fired" /\ e.key = Call.key
    BY <1>N
  <2>5. q \in Runner /\ At(q) = s /\ Place(q) = <<runner.cursor, Append(runner.queued, e)>>
    BY <2>2, <2>3, FieldsOfConsumed, AtConsumed DEF s
  <2>6. runner' = ReturnTo(q) /\ AtEnd
    BY <2>1, <2>2, AwaitsPastTheEnd
  <2> HIDE DEF q, e
  <2>7. Place(runner') = Place(q) /\ At(runner') = Onward(s)
    BY <2>5, <2>6, FieldsOf, AtOf
  <2>8. CompletedCall(e) = Call.op /\ ~Unhandled(e)
    BY <2>2, <2>4, CallsOf DEF Unhandled
  <2>9. Took(runner')
    BY <1>W, <1>d, <2>2, <2>3, <2>4, <2>5, <2>6, <2>7, <2>8 DEF Took, P, s
  <2>10. QED
    BY <2>9 DEF Treads
<1>12. ASSUME NEW event \in Event, AtEnd, runner.phase = "call", Called, CompletedCall(event) = Call.op,
              Call.op \in {"signal", "marker"}, event.key = Call.key,
              NEW q \in Runner, At(q) = s, Place(q) = <<runner.cursor, Append(runner.queued, event)>>,
              runner' = ReturnTo(q)
       PROVE  Treads(runner')
  <2>1. Place(runner') = Place(q) /\ At(runner') = Onward(s)
    BY <1>12, FieldsOf, AtOf
  <2>2. Took(runner')
    BY <1>12, <1>W, <1>b, <2>1 DEF Took, P, s
  <2>3. QED
    BY <2>2 DEF Treads
<1>13. CASE ReceiveSignal
  <2> DEFINE event(i) == NewEvent("signal.received", Call.key, i)
             read(i) == Consume(runner, i, event(i))
  <2>1. PICK i \in SignalItems : runner' = ReturnTo(read(i))
    BY <1>13 DEF ReceiveSignal
  <2>2. i \in runner.frontier /\ runner.phase = "call" /\ Called /\ AtEnd /\ Call.op = "signal"
    BY <1>13 DEF ReceiveSignal, Calling, SignalItems
  <2>3. event(i) \in Event
    BY <1>C, <2>2, EventType DEF EventTypes, Runner
  <2>4. event(i).type = "signal.received" /\ event(i).key = Call.key
    BY <1>N
  <2>5. read(i) \in Runner /\ At(read(i)) = s /\ Place(read(i)) = <<runner.cursor, Append(runner.queued, event(i))>>
    BY <2>2, <2>3, FieldsOfConsumed, AtConsumed DEF s
  <2> HIDE DEF read, event
  <2>6. CompletedCall(event(i)) = Call.op
    BY <2>2, <2>4, CallsOf
  <2>7. QED
    BY <1>12, <2>1, <2>2, <2>3, <2>4, <2>5, <2>6
<1>14. CASE RecordMarker
  <2> DEFINE event == NewEvent("marker.recorded", Call.key, 0)
             queue == Queue(runner, event)
  <2>1. runner' = ReturnTo(queue) /\ runner.phase = "call" /\ Called /\ AtEnd /\ Call.op = "marker"
    BY <1>14 DEF RecordMarker, Calling
  <2>2. event \in Event
    BY <1>C, <2>1, EventType DEF EventTypes
  <2>3. event.type = "marker.recorded" /\ event.key = Call.key
    BY <1>N
  <2> HIDE DEF event
  <2>4. queue \in Runner /\ At(queue) = s /\ Place(queue) = <<runner.cursor, Append(runner.queued, event)>>
    BY <1>7, <2>2 DEF s
  <2> HIDE DEF queue
  <2>5. CompletedCall(event) = Call.op
    BY <2>1, <2>3, CallsOf
  <2>6. QED
    BY <1>12, <2>1, <2>2, <2>3, <2>4, <2>5
<1>15. CASE CheckCancel \/ ReturnNil
  <2> DEFINE t == At(runner')
             final(d) == [runner EXCEPT !.phase = "finish", !.returned = d]
  <2>0. \A d : /\ At(final(d)) = Standing(runner.pc, "finish", runner.cancelled, d)
               /\ Place(final(d)) = Place(runner) /\ final(d).frontier = runner.frontier
    <3>1. \A d : At(final(d)) = Standing(runner.pc, "finish", runner.cancelled, d)
      BY DEF At, Standing, Runner
    <3>2. \A d : Place(final(d)) = Place(runner) /\ final(d).frontier = runner.frontier
      BY DEF Place, Runner
    <3>3. QED
      BY <3>1, <3>2
  <2>1. \/ runner.cancelled /\ runner' = final("cancelled") /\ Calling("checkCancel")
        \/ ~runner.cancelled /\ runner' = ReturnTo(runner) /\ Calling("checkCancel")
        \/ ~Called /\ runner' = final("completed")
    BY <1>15 DEF CheckCancel, ReturnNil
  <2>2. runner.phase = "call" /\ runner.returned = "none" /\ runner.cancelled \in BOOLEAN
        /\ runner.pc \in 1..Len(P) + 1 /\ Len(P) \in Nat
    <3>1. runner.phase = "call"
      BY <1>15 DEF CheckCancel, ReturnNil, Calling
    <3>2. P \in Seq(Command)
      BY DEF Runner, P
    <3>3. QED
      BY <1>S, <3>1, <3>2 DEF Standings, s, P
  <2>3. Calling("checkCancel") => Called /\ Call.op = "checkCancel" /\ NothingNext(runner, inbox)
    BY <1>0, <2>2, SettledNext DEF Calling, Advancing
  <2>4. ~Called => runner.pc \notin 1..Len(P)
    BY <2>2 DEF Called, P
  <2> HIDE DEF final
  <2>5. CASE runner.cancelled /\ runner' = final("cancelled") /\ Calling("checkCancel")
    <3>1. t = Standing(runner.pc, "finish", runner.cancelled, "cancelled") /\ Place(runner') = Place(runner)
          /\ runner'.frontier = runner.frontier
      BY <2>0, <2>5
    <3>2. t.pc = runner.pc /\ t.phase = "finish" /\ t.cancelled = runner.cancelled /\ t.returned = "cancelled"
      BY <3>1 DEF Standing
    <3>3. runner.pc \in 1..Len(P) /\ P[runner.pc].op = "checkCancel"
      BY <1>C, <1>S, <2>3, <2>5
    <3>4. t \in Standings(P)
      BY <2>2, <3>1, <3>3 DEF Standings, Standing, Returns
    <3>5. s.pc..t.pc-1 = {} /\ s.pc <= t.pc
      BY <1>S, <2>2, <3>2
    <3> HIDE DEF t
    <3>6. Silently(P, s, t)
      BY <1>S, <2>2, <2>5, <3>2, <3>5 DEF Silently
    <3>7. Skipped(runner')
      BY <2>2, <2>3, <2>5, <3>1, <3>4, <3>6 DEF Skipped, P, s, t
    <3>8. QED
      BY <3>7 DEF Treads
  <2>6. CASE ~runner.cancelled /\ runner' = ReturnTo(runner) /\ Calling("checkCancel")
    <3>1. t = Onward(s) /\ Place(runner') = Place(runner) /\ runner'.frontier = runner.frontier
      <4>1. Reading(runner') = Reading(runner)
        BY <2>6, ReadingOf
      <4>2. QED
        BY <2>6, <4>1, AtOf, FieldsOf DEF Reading, s
    <3>2. t = Standing(runner.pc + 1, "call", runner.cancelled, "none")
      BY <1>S, <2>2, <3>1 DEF Onward
    <3>3. t.pc = runner.pc + 1 /\ t.phase = "call" /\ t.cancelled = runner.cancelled /\ t.returned = "none"
      BY <3>2 DEF Standing
    <3>4. runner.pc \in 1..Len(P) /\ P[runner.pc].op = "checkCancel"
      BY <1>C, <1>S, <2>3, <2>6
    <3>5. runner.pc + 1 \in 1..Len(P) + 1
      BY <2>2, <3>4
    <3>6. t \in Standings(P)
      BY <2>2, <3>2, <3>5 DEF Standings, Standing, Returns
    <3>7. (\A p \in s.pc..t.pc-1 : p = runner.pc) /\ s.pc <= t.pc
      BY <1>S, <2>2, <3>3
    <3> HIDE DEF t
    <3>8. Silently(P, s, t)
      BY <1>S, <2>2, <2>6, <3>3, <3>4, <3>7 DEF Silently
    <3>9. Skipped(runner')
      BY <2>2, <2>3, <2>6, <3>1, <3>6, <3>8 DEF Skipped, P, s, t
    <3>10. QED
      BY <3>9 DEF Treads
  <2>7. CASE ~Called /\ runner' = final("completed")
    <3>1. t = Standing(runner.pc, "finish", runner.cancelled, "completed") /\ Place(runner') = Place(runner)
          /\ runner'.frontier = runner.frontier
      BY <2>0, <2>7
    <3>2. t.pc = runner.pc /\ t.phase = "finish" /\ t.cancelled = runner.cancelled /\ t.returned = "completed"
      BY <3>1 DEF Standing
    <3>3. t \in Standings(P)
      BY <2>2, <2>4, <2>7, <3>1 DEF Standings, Standing, Returns
    <3>4. s.pc..t.pc-1 = {} /\ s.pc <= t.pc
      BY <1>S, <2>2, <3>2
    <3> HIDE DEF t
    <3>5. Silently(P, s, t) /\ ~Strayed(s, t)
      BY <1>S, <2>2, <3>2, <3>4 DEF Silently, Strayed
    <3>6. Skipped(runner')
      BY <2>2, <3>1, <3>3, <3>5 DEF Skipped, P, s, t
    <3>7. QED
      BY <3>6 DEF Treads
  <2>8. QED
    BY <2>1, <2>5, <2>6, <2>7
<1>16. CASE Finish
  <2>1. /\ runner.phase = "finish" /\ runner'.phase = "decided" /\ runner'.decision = runner.returned
        /\ runner.returned \in {"completed", "failed", "cancelled"}
    BY <1>16 DEF Finish, ReplayPosition, Runner
  <2>2. Finishing(runner')
    BY <1>M, <2>1 DEF Moves, Passing, Starting, Retrying, Ending, Noting, Returning, Blocking, Scheduling, Leaving,
       Point, Choice
  <2>3. QED
    BY <2>2 DEF Treads
<1>17. CASE Diverge
  <2>1. runner' = Quarantine(runner)
    BY <1>17 DEF Diverge
  <2>2. /\ Place(runner') = <<runner.cursor, <<>>>>
        /\ Choice(runner') = <<"quarantined", None, None>> /\ runner'.phase = "decided"
    BY <2>1 DEF Quarantine, Place, Choice, Runner
  <2>3. QED
    BY <1>0, <1>17, <2>2 DEF Leaving, Treads
<1>18. QED
  BY <1>1, <1>2, <1>3, <1>4, <1>5, <1>6, <1>8, <1>9, <1>10, <1>11, <1>13, <1>14, <1>15, <1>16, <1>17 DEF ReplayStep

(***************************************************************************)
(* A replay is on the trace of its function.                               *)
(***************************************************************************)

\* The activity k is the call that the function awaits.
Awaiting(program, s, k) ==
    s.phase \in {"scheduled", "outcome"} /\ program[s.pc].op = "activity" /\ program[s.pc].key = k

OnTrace(r) ==
    /\ At(r) \in Standings(r.program)
    /\ \E s : /\ Told(r.program, Written(r), Position(r), s) /\ Silently(r.program, s, At(r))
              /\ Strayed(s, At(r)) => NothingNext(r, inbox)

\* An open task is the one that the function awaits.
Waits(r) ==
    \E s : /\ Told(r.program, Written(r), Len(Written(r)), s) /\ s.phase # "finish"
           /\ \A k \in Keys : OpenTask(k) \/ k = r.newTask => Awaiting(r.program, s, k)

Ends(r) ==
    \E s, t : /\ Told(r.program, Written(r), Len(Written(r)), s)
              /\ t \in Standings(r.program) /\ Silently(r.program, s, t)
              /\ t.phase = "finish" /\ t.returned = r.decision

TracedReplay(r) ==
    /\ \E w \in Workers : r.program = Deployed[w]
    /\ r.phase # "decided" => OnTrace(r)
    /\ r.decision = "waiting" => Waits(r)
    /\ r.decision \in EndingDecisions => Ends(r)
    /\ r.decision = "quarantined" => r.queued = <<>>

LEMMA SilentFurther ==
  ASSUME NEW program, NEW s \in Standings(program), NEW c \in Standings(program), NEW t \in Standings(program),
         Silently(program, s, c), Silently(program, c, t), c.phase = "call"
  PROVE  Silently(program, s, t)
<1>1. s.pc \in Nat /\ c.pc \in Nat /\ t.pc \in Nat
  BY StandingParts
<1>2. s.pc <= c.pc /\ c.pc <= t.pc /\ t.cancelled = s.cancelled /\ c.cancelled = s.cancelled
  BY DEF Silently
<1>3. \A p \in s.pc..t.pc-1 : p \in s.pc..c.pc-1 \/ p \in c.pc..t.pc-1
  BY <1>1, <1>2
<1>4. s.pc <= t.pc /\ \A p \in s.pc..t.pc-1 : program[p].op = "checkCancel"
  BY <1>1, <1>2, <1>3 DEF Silently
<1>5. \A u \in Standings(program) : u.phase = "finish" <=> u.returned # "none"
  BY DEF Standings
<1>6. /\ c.returned = "none" /\ s.phase = "call" /\ s.returned = "none"
      /\ s.pc # c.pc => ~s.cancelled
  BY <1>5 DEF Silently
<1>7. \/ t.phase = "call" /\ t.pc = c.pc /\ t.returned = "none"
      \/ t.phase = "call" /\ ~c.cancelled
      \/ t.returned = "completed" /\ (c.pc # t.pc => ~c.cancelled)
      \/ t.returned = "cancelled" /\ c.cancelled /\ c.pc = t.pc
  BY <1>6 DEF Silently
<1>8. QED
  BY <1>2, <1>4, <1>6, <1>7 DEF Silently

\* Cancelled where it stands, the function stands as it did.
Cancelled(s) == Standing(s.pc, s.phase, TRUE, s.returned)

LEMMA CancelledStanding ==
  ASSUME NEW program, NEW s \in Standings(program), NEW c \in Standings(program),
         Silently(program, s, c), ~Strayed(s, c), c.phase # "outcome"
  PROVE  /\ s.phase # "outcome" /\ Cancelled(c) \in Standings(program)
         /\ Silently(program, Cancelled(s), Cancelled(c)) /\ ~Strayed(Cancelled(s), Cancelled(c))
<1> DEFINE u == Cancelled(s)
           t == Cancelled(c)
<1>1. s.pc = c.pc /\ (c.returned = "cancelled" => s.returned = "cancelled")
  BY DEF Strayed
<1>2. s.phase # "outcome"
  BY SilentStanding
<1>3. /\ u.pc = s.pc /\ u.phase = s.phase /\ u.cancelled = TRUE /\ u.returned = s.returned
      /\ t.pc = c.pc /\ t.phase = c.phase /\ t.cancelled = TRUE /\ t.returned = c.returned
  BY DEF Cancelled, Standing
<1>4. t \in Standings(program)
  BY DEF Cancelled, Standings, Standing
<1> HIDE DEF u, t
<1>5. Silently(program, u, t)
  <2>1. s.phase = "finish" <=> s.returned # "none"
    BY DEF Standings
  <2>2. u.pc = t.pc /\ u.pc..t.pc-1 = {} /\ u.pc <= t.pc
    BY <1>1, <1>3, StandingParts
  <2>3. \/ c.phase = s.phase /\ c.returned = s.returned
        \/ s.phase = "call" /\ c.phase = "call" /\ c.returned = "none" /\ s.returned = "none"
        \/ s.phase = "call" /\ c.returned = "completed"
        \/ s.phase = "call" /\ c.returned = "cancelled"
    <3>1. c.phase = "finish" <=> c.returned # "none"
      BY DEF Standings
    <3>2. QED
      BY <2>1, <3>1 DEF Silently
  <2>4. \/ t.phase = u.phase /\ t.returned = u.returned
        \/ u.phase = "call" /\ t.returned = "completed"
    BY <1>1, <1>3, <2>1, <2>3
  <2>5. QED
    BY <1>3, <2>2, <2>4 DEF Silently
<1>6. ~Strayed(u, t)
  BY <1>3 DEF Strayed
<1>7. QED
  BY <1>2, <1>4, <1>5, <1>6 DEF u, t

LEMMA ToldFurther ==
  ASSUME runner \in Runner, Reached(runner), NEW r \in Runner, Track(r) = Track(runner), NEW event, Meets(r, event),
         NEW s, Told(runner.program, Written(runner), Position(runner), s), NEW t, Leads(runner.program, s, event, t)
  PROVE  /\ Told(runner.program, Written(r), Position(r), t)
         /\ AtEnd => Position(r) = Len(Written(r))
<1>1. Advances(r, event) /\ (AtEnd => Position(r) = Len(Written(r)))
  <2>1. CASE ReadsOn(r, event)
    BY <2>1, Reading1 DEF ReadsOn
  <2>2. CASE AtEnd /\ WritesOn(r, event)
    BY <2>2, Writing
  <2>3. QED
    BY <2>1, <2>2 DEF Meets
<1>2. Position(runner) \in Nat /\ runner.program \in Seq(Command)
  BY WrittenType DEF Runner
<1>3. /\ Position(r) = Position(runner) + 1 /\ Agree(Written(runner), Written(r), Position(runner))
      /\ Written(r)[Position(runner) + 1] = event
  BY <1>1 DEF Advances
<1>4. Told(runner.program, Written(r), Position(runner), s)
  BY <1>2, <1>3, ToldAgrees
<1>5. Told(runner.program, Written(r), Position(runner) + 1, t)
  BY <1>2, <1>3, <1>4, ToldNext
<1>6. QED
  BY <1>1, <1>3, <1>5

\* While the function awaits nothing, no task is open, and otherwise only that of its call.
LEMMA OpenTaskIsAwaited ==
  ASSUME JournalInv, TypeOK, Replaying, runner.log = history, AtEnd, runner.phase # "decided",
         NEW k \in Keys, OpenTask(k)
  PROVE  /\ runner.phase \in {"scheduled", "outcome"}
         /\ runner.program[runner.pc].op = "activity" /\ runner.program[runner.pc].key = k
<1> DEFINE events == Written(runner)
           last == Len(events)
<1>0. runner \in Runner /\ ReplayInv(runner) /\ TaskHasEvents(k) /\ tasks[k].status \in {"queued", "claimed"}
  BY DEF JournalInv, TypeOK, OpenTask
<1>1. /\ events \in Seq(Event) /\ last = Len(runner.log) + Len(runner.queued) /\ last \in Nat
      /\ \A n \in 1..Len(history) : events[n] = history[n] /\ n \in 1..last
  <2>1. /\ events \in Seq(Event) /\ last = Len(runner.log) + Len(runner.queued)
        /\ Len(runner.log) \in Nat /\ Len(runner.queued) \in Nat
        /\ \A n \in 1..Len(runner.log) : events[n] = runner.log[n]
    BY <1>0, WrittenType
  <2> HIDE DEF events, last
  <2>2. \A n \in 1..Len(history) : n \in 1..last
    BY <2>1
  <2>3. QED
    BY <2>1, <2>2
<1>2. Position(runner) = last
  BY <1>1 DEF Position, AtEnd
<1>3. PICK m \in 1..Len(history) : Schedules(history[m], k)
  BY <1>0 DEF TaskHasEvents
<1>4. m \in 1..last /\ Schedules(events[m], k) /\ Opens(events[m])
  BY <1>1, <1>3 DEF Schedules, Opens
<1>5. ~ClosedBy(events, m, last)
  <2> SUFFICES ASSUME NEW p \in 1..last, Completes(events[m], events[p])
               PROVE  FALSE
    BY <1>1, <1>4 DEF ClosedBy
  <2>1. OutcomeOf(events[p], k)
    BY <1>4 DEF Completes, OutcomeOf, Schedules
  <2>2. CASE p \in 1..Len(history) /\ events[p] = history[p]
    BY <1>0, <2>1, <2>2 DEF TaskHasEvents
  <2>3. ASSUME NEW q \in 1..Len(runner.queued), events[p] = runner.queued[q]
        PROVE  FALSE
    <3>1. Ordinary(runner, runner.queued[q])
      BY <1>0 DEF ReplayInv, WritesFit
    <3>2. runner.outcomes[k] \in {"completed", "failed"}
      BY <2>1, <2>3, <3>1 DEF Ordinary, OutcomeOf
    <3>3. QED
      BY <1>0, <3>2 DEF ReplayInv, ReadsOutcomes
  <2>4. QED
    BY <1>0, <2>2, <2>3, WrittenEvents
<1>6. Reached(runner) /\ runner.phase \in {"call", "scheduled", "outcome", "finish"}
  BY <1>0 DEF ReplayInv, Runner, Phases
<1>7. runner.phase \notin {"call", "finish"}
  BY <1>2, <1>4, <1>5, <1>6 DEF Reached, AllClosed
<1>8. PICK n \in 1..last :
         /\ Awaits(events, n, last)
         /\ events[n].type = ScheduleOf(runner.program[runner.pc].op) /\ events[n].key = runner.program[runner.pc].key
         /\ runner.program[runner.pc].op \in {"activity", "timer"}
  BY <1>2, <1>6, <1>7 DEF Reached, AwaitsCall
<1>9. m = n
  BY <1>4, <1>5, <1>8 DEF Awaits
<1>10. QED
  BY <1>4, <1>6, <1>7, <1>8, <1>9 DEF Schedules, ScheduleOf

LEMMA ReplaysOnTrace ==
  ASSUME Types, Locking, JournalInv, ReplaysOn, TracedReplay(runner), runner' \in Runner
  PROVE  TracedReplay(runner)'
<1> DEFINE P == runner.program
           r == runner'
           c == At(runner)
           t == At(r)
<1>0. TypeOK /\ runner \in Runner /\ ReplayPosition /\ P \in Seq(Command)
  BY TypesAreTypeOK DEF TypeOK, Runner
<1>1. Replaying /\ ReplayStep /\ UNCHANGED <<history, tasks, armed, inbox, status>>
  BY DEF ReplaysOn
<1>2. ~IsTerminal /\ runner.log = history /\ runner.phase # "decided"
  BY <1>1, ReplayingIsLocked, ReplayIsUndecided
<1>3. /\ Reached(runner) /\ Awaited(Written(runner)) /\ Decided(runner)
      /\ \A n \in 1..Len(runner.log) : runner.log[n].type \notin EndingEvents
  BY <1>1, <1>2 DEF JournalInv, ReplayInv, NoEndingYet
<1>4. /\ Track(r) = Track(runner) /\ r.program = P
      /\ runner.newTask = None /\ runner.cursor <= Len(runner.log)
  <2>1. Track(r) = Track(runner)
    BY <1>0, <1>1, <1>3, ReplayMoves DEF Reached
  <2>2. QED
    BY <1>2, <1>3, <2>1 DEF Track, Decided, Choice, Reached
<1>5. c \in Standings(P) /\ c.phase = runner.phase /\ c.pc = runner.pc
      /\ c.cancelled = runner.cancelled /\ c.returned = runner.returned
  BY <1>2, AtParts DEF TracedReplay, OnTrace
<1>6. PICK s : /\ Told(P, Written(runner), Position(runner), s) /\ Silently(P, s, c)
               /\ Strayed(s, c) => NothingNext(runner, inbox)
  BY <1>2 DEF TracedReplay, OnTrace
<1>7. s \in Standings(P) /\ Position(runner) \in Nat
  BY <1>0, <1>6, ToldTells, WrittenType
<1>8. Treads(r)
  BY <1>0, <1>1, <1>3, <1>5, ReplayTreads
<1>9. r.phase # "decided" => r.decision = "none"
  <2>1. ReplayInv(runner) /\ ScheduledOnce(runner.log) /\ OutcomeIsLast(runner.log) /\ Moves(runner')
    BY <1>0, <1>1, <1>2, <1>4, ReplayMoves DEF JournalInv, HistoryIsOrdered
  <2>2. Decided(r)
    BY <1>0, <1>3, <1>4, <2>1, ReplayWritesFit
  <2>3. QED
    BY <2>2 DEF Decided, Choice
<1>p. t.phase = r.phase /\ t.pc = r.pc
  BY AtParts
<1>o. "finish" \notin {"call", "scheduled", "outcome"} /\ \A u \in Standings(P) : u.phase # "decided"
  BY DEF Standings
<1> HIDE DEF P, r, c, t
\* Where the function goes on, and where it decides.
<1>a. ASSUME t \in Standings(P), NEW u, Told(P, Written(r), Position(r), u), Silently(P, u, t),
             Strayed(u, t) => NothingNext(r, inbox)
      PROVE  TracedReplay(runner)'
  <2>1. r.phase # "decided" /\ r.decision = "none"
    BY <1>9, <1>a, <1>o, <1>p
  <2>2. OnTrace(runner)'
    BY <1>1, <1>4, <1>a DEF OnTrace, NothingNext, r, t
  <2>3. (\E w \in Workers : runner.program = Deployed[w])'
    BY <1>4 DEF TracedReplay, P, r
  <2>4. QED
    BY <2>1, <2>2, <2>3 DEF TracedReplay, EndingDecisions, r
<1>b. ASSUME r.phase = "decided", r.decision = "waiting" => Waits(runner)',
             r.decision \in EndingDecisions => Ends(runner)', r.decision = "quarantined" => r.queued = <<>>
      PROVE  TracedReplay(runner)'
  <2>1. (\E w \in Workers : runner.program = Deployed[w])'
    BY <1>4 DEF TracedReplay, P, r
  <2>2. QED
    BY <1>b, <2>1 DEF TracedReplay, r
<1>c. \A u \in Standings(P) : Silently(P, u, u) /\ ~Strayed(u, u)
  <2>1. ASSUME NEW u \in Standings(P)
        PROVE  u.pc..u.pc-1 = {} /\ u.pc <= u.pc
    BY StandingParts
  <2>2. QED
    BY <2>1 DEF Silently, Strayed
<1>10. CASE Passed(r)
  <2>1. PICK event :
          /\ Meets(r, event)
          /\ \/ event.type \in LifecycleEvents /\ t = c
             \/ /\ IsCancel(event) /\ runner.phase # "outcome"
                /\ t = Standing(c.pc, c.phase, TRUE, c.returned)
    BY <1>5, <1>10 DEF Passed, c, t
  <2>2. ~Strayed(s, c)
    BY <1>6, <1>10 DEF Passed
  <2>4. CASE event.type \in LifecycleEvents /\ t = c
    <3>1. Leads(P, s, event, s)
      BY <2>4 DEF Leads, Ignored
    <3>2. Told(P, Written(r), Position(r), s)
      BY <1>0, <1>3, <1>4, <1>6, <2>1, <3>1, ToldFurther DEF P, r
    <3>3. QED
      BY <1>5, <1>6, <1>a, <2>2, <2>4, <3>2
  <2>5. CASE /\ IsCancel(event) /\ runner.phase # "outcome"
             /\ t = Standing(c.pc, c.phase, TRUE, c.returned)
    <3> DEFINE u == Cancelled(s)
    <3>1. /\ s.phase # "outcome" /\ t \in Standings(P) /\ t = Cancelled(c)
          /\ Silently(P, u, t) /\ ~Strayed(u, t)
      BY <1>5, <1>6, <1>7, <2>2, <2>5, CancelledStanding DEF Cancelled
    <3>2. Leads(P, s, event, u)
      BY <2>5, <3>1 DEF Leads, Cancelled
    <3>3. Told(P, Written(r), Position(r), u)
      BY <1>0, <1>3, <1>4, <1>6, <2>1, <3>2, ToldFurther DEF P, r
    <3>4. QED
      BY <1>a, <3>1, <3>3
  <2>6. QED
    BY <2>1, <2>4, <2>5
<1>11. CASE Took(r)
  <2>1. PICK event : Meets(r, event) /\ Accepts(P, c, event, t)
    BY <1>11 DEF Took, P, c, t
  <2>2. Leads(P, s, event, t)
    BY <1>5, <1>6, <2>1 DEF Leads
  <2>3. Told(P, Written(r), Position(r), t)
    BY <1>0, <1>3, <1>4, <1>6, <2>1, <2>2, ToldFurther DEF P, r
  <2>4. t \in Standings(P)
    BY <1>0, <1>5, <2>1, AcceptedStanding DEF P
  <2>5. QED
    BY <1>a, <1>c, <2>3, <2>4
<1>12. CASE Skipped(r)
  <2>1. /\ Place(r) = Place(runner) /\ r.frontier = runner.frontier /\ c.phase = "call"
        /\ t \in Standings(P) /\ Silently(P, c, t) /\ (Strayed(c, t) => NothingNext(runner, inbox))
    BY <1>5, <1>12 DEF Skipped, P, c, t
  <2>2. Silently(P, s, t)
    BY <1>5, <1>6, <1>7, <2>1, SilentFurther
  <2>3. /\ Written(r) = Written(runner) /\ Position(r) = Position(runner) /\ r.cursor = runner.cursor
        /\ r.log = runner.log
    BY <1>4, <2>1, StayingPut
  <2>4. NothingNext(r, inbox) <=> NothingNext(runner, inbox)
    BY <2>1, <2>3 DEF NothingNext
  <2>5. Strayed(s, t) => Strayed(s, c) \/ Strayed(c, t)
    BY DEF Strayed
  <2>6. QED
    BY <1>6, <1>a, <2>1, <2>2, <2>3, <2>4, <2>5
<1>13. CASE Halted(r)
  <2>1. /\ AtEnd /\ runner.phase # "finish" /\ r.phase = "decided" /\ Place(r) = Place(runner)
        /\ r.newTask = None /\ r.decision = "waiting"
    BY <1>4, <1>13 DEF Halted, Blocking, Choice
  <2>2. Written(r) = Written(runner) /\ Position(runner) = Len(Written(runner))
    <3>1. Written(r) = Written(runner)
      BY <1>4, <2>1, StayingPut
    <3>2. Len(Written(runner)) = Len(runner.log) + Len(runner.queued)
      BY <1>0, WrittenType
    <3>3. QED
      BY <2>1, <3>1, <3>2 DEF Position, AtEnd
  <2>3. s.phase # "finish"
    BY <1>5, <1>6, <1>7, <2>1, SilentStanding
  <2>4. ASSUME NEW k \in Keys, OpenTask(k)
        PROVE  Awaiting(P, s, k)
    <3>1. /\ c.phase \in {"scheduled", "outcome"} /\ P[c.pc].op = "activity" /\ P[c.pc].key = k
      BY <1>0, <1>1, <1>2, <1>5, <2>1, <2>4, OpenTaskIsAwaited DEF P
    <3>2. s = c
      BY <1>5, <1>6, <1>7, <3>1, SilentStanding
    <3>3. QED
      BY <3>1, <3>2 DEF Awaiting
  <2>5. Waits(runner)'
    <3>1. \A k \in Keys : OpenTask(k)' \/ k = r.newTask => OpenTask(k)
      BY <1>1, <2>1, NoneIsNoKey DEF OpenTask
    <3>2. Told(r.program, Written(r), Len(Written(r)), s)
      BY <1>4, <1>6, <2>2
    <3>3. \A k \in Keys : OpenTask(k)' \/ k = r.newTask => Awaiting(r.program, s, k)
      BY <1>4, <2>4, <3>1
    <3>4. QED
      BY <2>3, <3>2, <3>3 DEF Waits, r
  <2>6. QED
    BY <1>b, <2>1, <2>5 DEF EndingDecisions
<1>14. CASE Booked(r)
  <2>1. /\ AtEnd /\ runner.phase = "call" /\ r.phase = "decided" /\ r.decision = "waiting"
        /\ r.newTask # None => Call.op = "activity" /\ Call.key = r.newTask
    BY <1>4, <1>14 DEF Booked
  <2>2. PICK event, u : /\ WritesOn(r, event) /\ Accepts(P, c, event, u) /\ u.phase = "scheduled" /\ u.pc = runner.pc
    BY <1>14 DEF Booked, P, c
  <2>3. Leads(P, s, event, u) /\ Meets(r, event)
    BY <1>5, <1>6, <2>1, <2>2 DEF Leads, Meets
  <2>4. Told(P, Written(r), Position(r), u) /\ Position(r) = Len(Written(r))
    BY <1>0, <1>3, <1>4, <1>6, <2>1, <2>3, ToldFurther DEF P, r
  <2>5. \A k \in Keys : ~OpenTask(k)
    BY <1>0, <1>1, <1>2, <2>1, OpenTaskIsAwaited
  <2>6. \A k \in Keys : OpenTask(k)' \/ k = r.newTask => Awaiting(r.program, u, k)
    <3>1. \A k \in Keys : ~OpenTask(k)'
      BY <1>1, <2>5 DEF OpenTask
    <3>2. ASSUME NEW k \in Keys, k = r.newTask
          PROVE  Awaiting(r.program, u, k)
      <4>1. k # None
        BY NoneIsNoKey
      <4>2. QED
        BY <1>4, <2>1, <2>2, <3>2, <4>1 DEF Awaiting, Call, P
    <3>3. QED
      BY <3>1, <3>2
  <2>7. Waits(runner)'
    BY <1>4, <2>2, <2>4, <2>6 DEF Waits, r
  <2>8. QED
    BY <1>b, <2>1, <2>7 DEF EndingDecisions
<1>15. CASE Finishing(r)
  <2>1. AtEnd /\ WritesOn(r, FinalEvent)
    <3> SUFFICES ASSUME ~AtEnd, Peek.type \in EndingEvents
                 PROVE  FALSE
      BY <1>15 DEF Finishing
    <3>1. QED
      BY <1>0, <1>3, <1>4, PeekType
  <2>2. runner.phase = "finish" /\ r.phase = "decided" /\ r.decision = runner.returned
    BY <1>15 DEF Finishing, Choice
  <2>3. FinalEvent.type \in EndingEvents
    BY <1>0, <2>2 DEF ReplayPosition, FinalEvent, NewEvent, EndingEvent, EndingEvents
  <2>4. Leads(P, s, FinalEvent, s) /\ Meets(r, FinalEvent)
    BY <2>1, <2>3 DEF Leads, Ignored, Meets
  <2>5. Told(P, Written(r), Position(r), s) /\ Position(r) = Len(Written(r))
    BY <1>0, <1>3, <1>4, <1>6, <2>1, <2>4, ToldFurther DEF P, r
  <2>6. Ends(runner)'
    BY <1>4, <1>5, <1>6, <2>2, <2>5 DEF Ends, r
  <2>7. r.decision \notin {"waiting", "quarantined"}
    BY <1>0, <2>2 DEF ReplayPosition
  <2>8. QED
    BY <1>b, <2>2, <2>6, <2>7
<1>16. CASE Leaving(r)
  <2>1. r.phase = "decided" /\ r.decision = "quarantined" /\ r.queued = <<>>
    BY <1>16 DEF Leaving, Choice, Place
  <2>2. QED
    BY <1>b, <2>1 DEF EndingDecisions
<1>17. QED
  BY <1>8, <1>10, <1>11, <1>12, <1>13, <1>14, <1>15, <1>16 DEF Treads

(***************************************************************************)
(* The run: its history is the trace of a function that is deployed.       *)
(***************************************************************************)

TracedBy(program) ==
    \E s : /\ Told(program, history, Len(history), s) /\ s.phase # "finish"
           /\ \A k \in Keys : OpenTask(k) => Awaiting(program, s, k)

TraceInv ==
    /\ ~IsTerminal => \E w \in Workers : TracedBy(Deployed[w])
    /\ IsTerminal => HistoryFitsABuild
    /\ Replaying => TracedReplay(runner)

LEMMA ToldAppended ==
  ASSUME NEW program \in Seq(Command), history \in Seq(Event), NEW event \in Event, history' = Append(history, event),
         NEW s, Told(program, history, Len(history), s), NEW t, Leads(program, s, event, t)
  PROVE  Told(program, history', Len(history'), t)
<1>1. /\ Len(history') = Len(history) + 1 /\ history'[Len(history) + 1] = event /\ Len(history) \in Nat
      /\ \A n \in 1..Len(history) : history'[n] = history[n]
  OBVIOUS
<1>2. Agree(history, history', Len(history))
  BY <1>1 DEF Agree
<1>3. Told(program, history', Len(history), s)
  BY <1>1, <1>2, ToldAgrees
<1>4. QED
  BY <1>1, <1>3, ToldNext

\* An event of the run, and not of a call, changes nothing in what the function has done.
LEMMA ProducedOn ==
  ASSUME NEW program, history \in Seq(Event), NEW event \in Event, history' = Append(history, event),
         ~Completing(event), ScheduledCall(event) = "none", Produced(program)
  PROVE  Produced(program)'
<1>1. /\ Len(history') = Len(history) + 1 /\ history'[Len(history) + 1] = event /\ Len(history) \in Nat
      /\ \A n \in 1..Len(history) : history'[n] = history[n]
  OBVIOUS
<1>2. Agree(history, history', Len(history))
  BY <1>1 DEF Agree
<1>3. \A n \in 0..Len(history) : DoneBy(history, n) = DoneBy(history', n)
  BY <1>1, <1>2, DoneByAgrees
<1>4. \A n \in 1..Len(history)+1 : n \in 1..Len(history) \/ n = Len(history) + 1
  BY <1>1
<1>5. \A n \in 1..Len(history) : n \in 0..Len(history)
  BY <1>1
<1> SUFFICES ASSUME NEW n \in 1..Len(history')
             PROVE  /\ Completing(history'[n]) =>
                         \E p \in 1..Len(program) :
                            /\ EffectsBefore(program, p) + 1 = DoneBy(history', n)
                            /\ program[p].op = CompletedCall(history'[n]) /\ program[p].key = history'[n].key
                    /\ ScheduledCall(history'[n]) # "none" =>
                         \E p \in 1..Len(program) :
                            /\ EffectsBefore(program, p) = DoneBy(history', n)
                            /\ program[p].op = ScheduledCall(history'[n]) /\ program[p].key = history'[n].key
  BY DEF Produced, Events
<1>6. CASE n \in 1..Len(history)
  BY <1>1, <1>3, <1>5, <1>6 DEF Produced, Events
<1>7. CASE n = Len(history) + 1
  BY <1>1, <1>7
<1>8. QED
  BY <1>1, <1>4, <1>6, <1>7

LEMMA TracedIsProduced ==
  ASSUME history \in Seq(Event), NEW w \in Workers, TracedBy(Deployed[w])
  PROVE  Produced(Deployed[w]) /\ HistoryFitsABuild
<1>1. Len(history) \in Nat /\ Deployed[w] \in Seq(Command)
  BY DeployedPrograms
<1>2. QED
  BY <1>1, ToldIsProduced DEF TracedBy, HistoryFitsABuild

LEMMA TraceStays ==
  ASSUME TraceInv, history' = history, IsTerminal' = IsTerminal, \A k \in Keys : OpenTask(k)' => OpenTask(k)
  PROVE  /\ ~IsTerminal' => \E w \in Workers : TracedBy(Deployed[w])'
         /\ IsTerminal' => HistoryFitsABuild'
<1>1. \A w \in Workers : TracedBy(Deployed[w]) => TracedBy(Deployed[w])'
  BY DEF TracedBy
<1>2. HistoryFitsABuild => HistoryFitsABuild'
  BY DEF HistoryFitsABuild, Produced, Events
<1>3. QED
  BY <1>1, <1>2 DEF TraceInv

LEMMA GoesKeepsTrace ==
  ASSUME Types, TraceInv, Goes, Replaying => FollowsOn(runner, inbox)
  PROVE  TraceInv'
<1>0. inbox \in Seq(InboxItem)
  BY TypesAreTypeOK DEF TypeOK
<1>1. history' = history /\ IsTerminal' = IsTerminal /\ RowsGoOn
      /\ (Replaying' => Replaying /\ runner' = runner)
  BY DEF Goes
<1>2. \A k \in Keys : OpenTask(k)' => OpenTask(k)
  BY DEF Goes, TaskGoesOn, OpenTask
<1>3. ASSUME Replaying'
      PROVE  TracedReplay(runner)'
  <2>1. runner' = runner /\ TracedReplay(runner) /\ FollowsOn(runner, inbox)
    BY <1>1, <1>3 DEF TraceInv
  <2>2. ASSUME NEW i \in runner.frontier
        PROVE  inbox'[i] = inbox[i]
    <3>1. i \in 1..Len(inbox)
      BY <2>1 DEF FollowsOn, InHand, RowsIn, Rows
    <3>2. inbox' = inbox \/ \E item : inbox' = Append(inbox, item)
      BY <1>1 DEF RowsGoOn
    <3>3. QED
      BY <1>0, <3>1, <3>2
  <2>3. NothingNext(runner, inbox) <=> NothingNext(runner, inbox')
    BY <2>2 DEF NothingNext, Oldest
  <2>4. OnTrace(runner) => OnTrace(runner)'
    BY <2>1, <2>3 DEF OnTrace
  <2>5. Waits(runner) => Waits(runner)'
    BY <1>2, <2>1 DEF Waits
  <2>6. Ends(runner) => Ends(runner)'
    BY <2>1 DEF Ends
  <2>7. QED
    BY <2>1, <2>4, <2>5, <2>6 DEF TracedReplay
<1>4. QED
  BY <1>1, <1>2, <1>3, TraceStays DEF TraceInv

LEMMA RetriedKeepsTrace ==
  ASSUME Types, TraceInv, Retried
  PROVE  TraceInv'
<1>0. history \in Seq(Event)
  BY TypesAreTypeOK DEF TypeOK
<1>1. PICK a \in ActivityWorkers :
        /\ aw[a].key \in Keys /\ HoldsTask(a)
        /\ tasks' = TaskSetTo(aw[a].key, "queued")
        /\ history' = Append(history, NewEvent("activity.retry_scheduled", aw[a].key, 0))
  BY DEF Retried
<1> DEFINE key == aw[a].key
           event == NewEvent("activity.retry_scheduled", key, 0)
<1>2. event \in Event /\ event.key = key /\ IsRetry(event)
  <2>1. event \in Event
    BY <1>1, EventType DEF EventTypes
  <2>2. QED
    BY <2>1 DEF NewEvent, IsRetry
<1>3. ~Completing(event) /\ ScheduledCall(event) = "none" /\ ~Unhandled(event)
  BY <1>2, EventCalls DEF Unhandled, IsRetry
<1>4. ~Replaying' /\ status' = status /\ OpenTask(key) /\ history' = Append(history, event)
  BY <1>1 DEF Retried, HoldsTask, OpenTask
<1>5. \A k \in Keys : OpenTask(k)' => OpenTask(k)
  BY <1>1, <1>4 DEF TaskSetTo, OpenTask
<1> HIDE DEF event
<1>6. ASSUME IsTerminal
      PROVE  HistoryFitsABuild'
  BY <1>0, <1>2, <1>3, <1>4, <1>6, ProducedOn DEF TraceInv, HistoryFitsABuild
<1>7. ASSUME ~IsTerminal
      PROVE  \E w \in Workers : TracedBy(Deployed[w])'
  <2>1. PICK w \in Workers : TracedBy(Deployed[w])
    BY <1>7 DEF TraceInv
  <2> DEFINE P == Deployed[w]
  <2>2. PICK s : /\ Told(P, history, Len(history), s) /\ s.phase # "finish"
                 /\ \A k \in Keys : OpenTask(k) => Awaiting(P, s, k)
    BY <2>1 DEF TracedBy
  <2>3. P \in Seq(Command) /\ s \in Standings(P) /\ Len(history) \in Nat
    <3>1. P \in Seq(Command) /\ Len(history) \in Nat
      BY <1>0, DeployedPrograms
    <3> HIDE DEF P
    <3>2. QED
      BY <2>2, <3>1, ToldTells
  <2> DEFINE t == Standing(s.pc, "outcome", s.cancelled, s.returned)
  <2> HIDE DEF P
  <2>4. Awaiting(P, s, key)
    BY <1>1, <1>4, <2>2
  <2>5. s.pc \in 1..Len(P)
    BY <2>3, <2>4 DEF Awaiting, Standings
  <2>6. Silently(P, s, s)
    <3>1. s.pc..s.pc-1 = {} /\ s.pc <= s.pc
      BY <2>3, StandingParts
    <3>2. QED
      BY <3>1 DEF Silently
  <2>7. Accepts(P, s, event, t)
    BY <1>2, <2>4, <2>5 DEF Accepts, Awaiting
  <2>8. Leads(P, s, event, t)
    BY <2>3, <2>6, <2>7 DEF Leads
  <2>9. Told(P, history', Len(history'), t)
    BY <1>0, <1>2, <1>4, <2>2, <2>3, <2>8, ToldAppended
  <2>10. t.phase = "outcome" /\ t.pc = s.pc
    BY DEF Standing
  <2> HIDE DEF t
  <2>11. \A k \in Keys : OpenTask(k)' => Awaiting(P, t, k)
    BY <1>5, <2>2, <2>10 DEF Awaiting
  <2>12. QED
    BY <2>9, <2>10, <2>11 DEF TracedBy, P
<1>8. IsTerminal' <=> IsTerminal
  BY <1>4 DEF IsTerminal
<1>9. QED
  BY <1>4, <1>6, <1>7, <1>8 DEF TraceInv

\* An event that is not the function's leaves it where it stands.
LEMMA IgnoredKeepsTrace ==
  ASSUME Types, NEW event \in Event, event.type \in Ignored, history' = Append(history, event)
  PROVE  /\ HistoryFitsABuild => HistoryFitsABuild'
         /\ (\A k \in Keys : OpenTask(k)' => OpenTask(k)) =>
              \A w \in Workers : TracedBy(Deployed[w]) => TracedBy(Deployed[w])'
<1>0. history \in Seq(Event)
  BY TypesAreTypeOK DEF TypeOK
<1>1. ~Completing(event) /\ ScheduledCall(event) = "none"
  BY EventCalls
<1>2. HistoryFitsABuild => HistoryFitsABuild'
  BY <1>0, <1>1, ProducedOn DEF HistoryFitsABuild
<1>3. ASSUME \A k \in Keys : OpenTask(k)' => OpenTask(k), NEW w \in Workers, TracedBy(Deployed[w])
      PROVE  TracedBy(Deployed[w])'
  <2> DEFINE P == Deployed[w]
  <2>1. PICK s : /\ Told(P, history, Len(history), s) /\ s.phase # "finish"
                 /\ \A k \in Keys : OpenTask(k) => Awaiting(P, s, k)
    BY <1>3 DEF TracedBy
  <2>2. P \in Seq(Command)
    BY DeployedPrograms
  <2>3. Leads(P, s, event, s)
    BY DEF Leads
  <2> HIDE DEF P
  <2>4. Told(P, history', Len(history'), s)
    BY <1>0, <2>1, <2>2, <2>3, ToldAppended
  <2>5. QED
    BY <1>3, <2>1, <2>4 DEF TracedBy, P
<1>4. QED
  BY <1>2, <1>3

LEMMA InterruptedKeepsTrace ==
  ASSUME Types, TraceInv, Interrupted
  PROVE  TraceInv'
<1>1. PICK type \in LifecycleEvents : history' = Append(history, NewEvent(type, None, 0))
  BY DEF Interrupted
<1> DEFINE event == NewEvent(type, None, 0)
<1>2. event \in Event /\ event.type \in Ignored
  <2>1. event \in Event
    BY EventType DEF EventTypes
  <2>2. QED
    BY <2>1 DEF NewEvent, Ignored
<1>3. ~IsTerminal /\ ~IsTerminal' /\ ~Replaying' /\ \A k \in Keys : OpenTask(k)' => OpenTask(k)
  BY DEF Interrupted, OpenTask
<1> HIDE DEF event
<1>4. \E w \in Workers : TracedBy(Deployed[w])'
  BY <1>1, <1>2, <1>3, IgnoredKeepsTrace DEF TraceInv, event
<1>5. QED
  BY <1>3, <1>4 DEF TraceInv

LEMMA StoppedKeepsTrace ==
  ASSUME Types, TraceInv, Stopped
  PROVE  TraceInv'
<1> DEFINE event == NewEvent(StatusEvent[status'], None, 0)
<1>1. /\ ~IsTerminal /\ IsTerminal' /\ ~Replaying' /\ history' = Append(history, event)
      /\ status' \in {"terminated", "failed"}
  BY DEF Stopped
<1>2. StatusEvent[status'] \in {"workflow.terminated", "workflow.failed"}
  BY <1>1 DEF StatusEvent
<1>3. event \in Event /\ event.type \in Ignored
  <2>1. event \in Event
    BY <1>2, EventType DEF EventTypes, EndingEvents
  <2>2. QED
    BY <1>2, <2>1 DEF NewEvent, Ignored, EndingEvents
<1> HIDE DEF event
<1>4. HistoryFitsABuild
  BY <1>1, TypesAreTypeOK, TracedIsProduced DEF TraceInv, TypeOK
<1>5. HistoryFitsABuild'
  BY <1>1, <1>3, <1>4, IgnoredKeepsTrace
<1>6. QED
  BY <1>1, <1>5 DEF TraceInv

LEMMA ActivatesKeepsTrace ==
  ASSUME Types, TraceInv, Activates, runner' \in Runner
  PROVE  TraceInv'
<1>1. PICK w \in Workers, frontier \in SUBSET Nat :
        runner' = NewRunner(Deployed[w], history, frontier, [k \in Keys |-> ReadOutcome(k)])
  BY DEF Activates
<1> DEFINE r == runner'
           P == Deployed[w]
<1>2. /\ r.queued = <<>> /\ r.cursor = 0 /\ r.phase = "call" /\ r.decision = "none" /\ r.program = P
      /\ r.pc = 1 /\ r.cancelled = FALSE /\ r.returned = "none"
  BY <1>1 DEF NewRunner
<1>3. P \in Seq(Command)
  BY DeployedPrograms
<1> HIDE DEF r, P
<1>4. At(r) = Start /\ Position(r) = 0
  <2>1. At(r) = Start
    BY <1>2 DEF At, Start
  <2>2. Len(r.queued) = 0
    BY <1>2
  <2>3. QED
    BY <1>2, <2>1, <2>2 DEF Position
<1>5. Start \in Standings(P) /\ Told(P, Written(r), 0, Start)
  BY <1>3, StartStands, ToldFirst
<1>6. Silently(P, Start, Start) /\ ~Strayed(Start, Start)
  <2>1. Start.pc..Start.pc-1 = {} /\ Start.pc <= Start.pc
    BY <1>5, StandingParts
  <2>2. QED
    BY <2>1 DEF Silently, Strayed
<1>7. OnTrace(runner)'
  BY <1>2, <1>4, <1>5, <1>6 DEF OnTrace, r
<1>8. TracedReplay(runner)'
  BY <1>2, <1>7 DEF TracedReplay, EndingDecisions, r, P
<1>9. ~IsTerminal /\ ~IsTerminal' /\ UNCHANGED <<history, tasks, armed, inbox>>
  BY DEF Activates
<1>10. \A k \in Keys : OpenTask(k)' => OpenTask(k)
  BY <1>9 DEF OpenTask
<1>11. IsTerminal' = IsTerminal
  BY <1>9 DEF IsTerminal
<1>12. QED
  BY <1>8, <1>9, <1>10, <1>11, TraceStays DEF TraceInv

LEMMA ReplaysOnKeepsTrace ==
  ASSUME Types, Locking, JournalInv, TraceInv, ReplaysOn, runner' \in Runner
  PROVE  TraceInv'
<1>1. UNCHANGED <<history, tasks, armed, inbox, status>> /\ Replaying
  BY DEF ReplaysOn
<1>2. IsTerminal' = IsTerminal /\ \A k \in Keys : OpenTask(k)' => OpenTask(k)
  BY <1>1 DEF IsTerminal, OpenTask
<1>3. TracedReplay(runner)'
  BY <1>1, ReplaysOnTrace DEF TraceInv
<1>4. QED
  BY <1>1, <1>2, <1>3, TraceStays DEF TraceInv

LEMMA CommittedKeepsTrace ==
  ASSUME Types, JournalInv, TraceInv, Committed, tasks' \in [Keys -> Task]
  PROVE  TraceInv'
<1>0. runner \in Runner /\ history \in Seq(Event)
  BY TypesAreTypeOK DEF TypeOK
<1>1. /\ history' = Written(runner) /\ ~IsTerminal /\ ~Replaying' /\ TracedReplay(runner)
      /\ runner.phase = "decided"
  BY DEF Committed, TraceInv, Written
<1>2. PICK w \in Workers : runner.program = Deployed[w]
  BY <1>1 DEF TracedReplay
<1> DEFINE P == Deployed[w]
<1>3. P \in Seq(Command) /\ history' \in Seq(Event) /\ Len(history') \in Nat
  <2>1. history' \in Seq(Event)
    BY <1>0, <1>1, WrittenType
  <2>2. QED
    BY <2>1, DeployedPrograms
<1> HIDE DEF P
<1>4. CASE runner.decision = "waiting" /\ ~IsTerminal'
  <2>1. PICK s : /\ Told(P, history', Len(history'), s) /\ s.phase # "finish"
                 /\ \A k \in Keys : OpenTask(k) \/ k = runner.newTask => Awaiting(P, s, k)
    BY <1>1, <1>2, <1>4 DEF TracedReplay, Waits, P
  <2>2. tasks' = [k \in Keys |-> IF k = runner.newTask THEN [NoTask EXCEPT !.status = "queued"] ELSE tasks[k]]
    BY <1>4 DEF Committed
  <2>3. \A k \in Keys : OpenTask(k)' => OpenTask(k) \/ k = runner.newTask
    BY <2>2 DEF OpenTask
  <2>4. TracedBy(Deployed[w])'
    BY <2>1, <2>3 DEF TracedBy, P
  <2>5. QED
    BY <1>1, <1>4, <2>4 DEF TraceInv
<1>5. CASE runner.decision \in EndingDecisions /\ IsTerminal'
  <2>1. PICK s : Told(P, history', Len(history'), s)
    BY <1>1, <1>2, <1>5 DEF TracedReplay, Ends, P
  <2>2. Produced(P)'
    BY <1>3, <2>1, ToldIsProduced
  <2>3. HistoryFitsABuild'
    BY <2>2 DEF HistoryFitsABuild, P
  <2>4. QED
    BY <1>1, <1>5, <2>3 DEF TraceInv
<1>6. CASE runner.decision = "quarantined" /\ ~IsTerminal' /\ UNCHANGED tasks
  <2>1. history' = history
    BY <1>0, <1>1, <1>6, WrittenType DEF TracedReplay, Committed
  <2>2. \A k \in Keys : OpenTask(k)' => OpenTask(k)
    BY <1>6 DEF OpenTask
  <2>3. IsTerminal' = IsTerminal
    BY <1>1, <1>6 DEF IsTerminal
  <2>4. QED
    BY <1>1, <1>6, <2>1, <2>2, <2>3, TraceStays DEF TraceInv
<1>7. QED
  <2>1. status' \in {"completed", "failed", "cancelled"} => IsTerminal'
    BY DEF IsTerminal, TerminalStatuses
  <2>2. \/ runner.decision = "waiting" /\ ~IsTerminal'
        \/ runner.decision \in EndingDecisions /\ IsTerminal'
        \/ runner.decision = "quarantined" /\ ~IsTerminal' /\ UNCHANGED tasks
    BY <2>1 DEF Committed, EndingDecisions
  <2>3. QED
    BY <1>4, <1>5, <1>6, <2>2

LEMMA InitTraced ==
  ASSUME Init, Workers # {}
  PROVE  TraceInv
<1>1. history = <<>> /\ status = "queued" /\ tasks = [k \in Keys |-> NoTask]
      /\ \A w \in Workers : wf[w] = [pc |-> "idle", horizon |-> 0]
  BY DEF Init
<1>2. ~Replaying /\ ~IsTerminal /\ \A k \in Keys : ~OpenTask(k)
  BY <1>1 DEF Replaying, IsTerminal, TerminalStatuses, OpenTask, NoTask
<1>3. PICK w \in Workers : TRUE
  OBVIOUS
<1>4. Deployed[w] \in Seq(Command) /\ Len(history) = 0
  BY <1>1, DeployedPrograms
<1>5. Told(Deployed[w], history, Len(history), Start) /\ Start.phase = "call"
  BY <1>4, ToldFirst DEF Start, Standing
<1>6. QED
  BY <1>2, <1>5 DEF TraceInv, TracedBy

LEMMA TraceGoesOn ==
  ASSUME RunInv, TraceInv, [Next]_vars
  PROVE  TraceInv'
<1>1. RunInv' /\ Steps
  BY RunGoesOn
<1>2. /\ Types /\ Locking /\ JournalInv /\ (Replaying => FollowsOn(runner, inbox))
      /\ tasks' \in [Keys -> Task] /\ runner' \in Runner
  BY <1>1 DEF RunInv, ReadingInv, InboxInv, Types, WorkTypes, ReplayTypes
<1>3. QED
  BY <1>1, <1>2, GoesKeepsTrace, RetriedKeepsTrace, InterruptedKeepsTrace, StoppedKeepsTrace, ActivatesKeepsTrace,
     ReplaysOnKeepsTrace, CommittedKeepsTrace DEF Steps

\* Workers of different builds never splice their functions together: at all times
\* some deployed function could have written the whole history of the run, however
\* its activations and those of other builds follow one another (replay.go:556-1030).
\* There are workers; without one there is no deployed function to speak of.
THEOREM HistoriesFitABuild == Workers # {} => (Spec => []HistoryFitsABuild)
<1> SUFFICES ASSUME Workers # {}
             PROVE  Spec => []HistoryFitsABuild
  OBVIOUS
<1> DEFINE IInv == RunInv /\ TraceInv
<1>1. Init => IInv
  BY InitRun, InitTraced
<1>2. IInv /\ [Next]_vars => IInv'
  BY RunGoesOn, TraceGoesOn
<1>3. IInv => HistoryFitsABuild
  <2>1. RunInv => history \in Seq(Event)
    BY TypesAreTypeOK DEF RunInv, ReadingInv, TypeOK
  <2>2. QED
    BY <2>1, TracedIsProduced DEF TraceInv
<1>4. QED
  BY <1>1, <1>2, <1>3, PTL DEF Spec

(***************************************************************************)
(* One build: what it has written it replays.                              *)
(***************************************************************************)

\* A call accepts an event in one way, and a cancellation point accepts none.
LEMMA AcceptsOnce ==
  ASSUME NEW program \in Seq(Command), NEW c \in Standings(program), NEW event,
         NEW t, Accepts(program, c, event, t), NEW u, Accepts(program, c, event, u)
  PROVE  t = u /\ program[c.pc].op # "checkCancel"
<1> DEFINE op == program[c.pc].op
<1>1. op \in Ops
  BY DEF Accepts, Command
<1>2. /\ ScheduledCall(event) = op => ~Completing(event) /\ ~IsRetry(event)
      /\ CompletedCall(event) = op => Completing(event) /\ ~IsRetry(event)
  BY <1>1, EventCalls DEF Completing, Ops
<1>3. op = "checkCancel" => ScheduledCall(event) # op /\ CompletedCall(event) # op
  BY EventCalls
<1>4. op # "checkCancel"
  BY <1>3 DEF Accepts
<1>5. \/ /\ c.phase = "call" /\ ScheduledCall(event) = op
         /\ t = Standing(c.pc, "scheduled", c.cancelled, c.returned)
      \/ /\ c.phase = "call" /\ CompletedCall(event) = op
         /\ t = Onward(c)
      \/ /\ c.phase \in {"scheduled", "outcome"} /\ IsRetry(event)
         /\ t = Standing(c.pc, "outcome", c.cancelled, c.returned)
      \/ /\ c.phase \in {"scheduled", "outcome"} /\ CompletedCall(event) = op
         /\ t = IF Unhandled(event) THEN Failing(c) ELSE Onward(c)
  BY DEF Accepts
<1>6. \/ /\ c.phase = "call" /\ ScheduledCall(event) = op
         /\ u = Standing(c.pc, "scheduled", c.cancelled, c.returned)
      \/ /\ c.phase = "call" /\ CompletedCall(event) = op
         /\ u = Onward(c)
      \/ /\ c.phase \in {"scheduled", "outcome"} /\ IsRetry(event)
         /\ u = Standing(c.pc, "outcome", c.cancelled, c.returned)
      \/ /\ c.phase \in {"scheduled", "outcome"} /\ CompletedCall(event) = op
         /\ u = IF Unhandled(event) THEN Failing(c) ELSE Onward(c)
  BY DEF Accepts
<1> HIDE DEF op
<1>7. t = u
  BY <1>2, <1>5, <1>6
<1>8. QED
  BY <1>4, <1>7 DEF op

\* From where the function stands there is one next call that takes an effect.
LEMMA NextCallIsOne ==
  ASSUME NEW program \in Seq(Command), NEW s \in Standings(program),
         NEW c \in Standings(program), Silently(program, s, c),
         NEW d \in Standings(program), Silently(program, s, d), d.phase # "finish",
         d.pc \in 1..Len(program), program[d.pc].op # "checkCancel"
  PROVE  /\ c.phase # "finish"
         /\ (c.pc \in 1..Len(program) => program[c.pc].op # "checkCancel") => c = d
<1>1. /\ s.pc \in Nat /\ c.pc \in Nat /\ d.pc \in Nat /\ Len(program) \in Nat
      /\ c.pc \in 1..Len(program) + 1
  BY StandingParts
<1>2. /\ s.phase = "finish" <=> s.returned # "none"
      /\ c.phase = "finish" <=> c.returned # "none"
      /\ d.phase = "finish" <=> d.returned # "none"
      /\ c.returned = "completed" => c.pc \notin 1..Len(program)
      /\ c.returned = "cancelled" => program[c.pc].op = "checkCancel"
  BY DEF Standings
<1>3. d.returned = "none" /\ s.phase # "finish" /\ s.returned = "none"
  BY <1>2, SilentStanding
<1>4. s.pc <= c.pc /\ s.pc <= d.pc /\ c.cancelled = s.cancelled /\ d.cancelled = s.cancelled
      /\ (\A p \in s.pc..c.pc-1 : program[p].op = "checkCancel")
      /\ (\A p \in s.pc..d.pc-1 : program[p].op = "checkCancel")
  BY DEF Silently
<1>5. d.pc \notin s.pc..c.pc-1
  BY <1>4
<1>6. c.pc <= d.pc
  BY <1>1, <1>4, <1>5
<1>7. c.phase # "finish"
  <2> SUFFICES ASSUME c.phase = "finish"
               PROVE  FALSE
    OBVIOUS
  <2>1. \/ c.returned = "completed"
        \/ c.returned = "cancelled" /\ s.cancelled /\ s.pc = c.pc
    BY <1>2, <1>3 DEF Silently
  <2>2. c.returned # "completed"
    BY <1>1, <1>2, <1>6
  <2>3. c.returned = "cancelled" /\ s.cancelled /\ program[s.pc].op = "checkCancel"
    BY <1>2, <2>1, <2>2
  <2>4. d.pc = s.pc
    BY <1>2, <1>3, <2>3 DEF Silently
  <2>5. QED
    BY <2>3, <2>4
<1>8. ASSUME c.pc \in 1..Len(program) => program[c.pc].op # "checkCancel"
      PROVE  c = d
  <2>1. c.pc \in 1..Len(program)
    BY <1>1, <1>4, <1>6
  <2>2. c.pc \notin s.pc..d.pc-1
    BY <1>4, <1>8, <2>1
  <2>3. c.pc = d.pc
    BY <1>1, <1>4, <1>6, <2>2
  <2>4. c.phase = d.phase /\ c.returned = d.returned
    BY <1>2, <1>3, <1>7 DEF Silently
  <2>5. QED
    BY <1>4, <2>3, <2>4, StandingParts
<1>9. QED
  BY <1>7, <1>8

\* An event of a call that is next on the function's trace is one of the call it is at.
LEMMA NextIsTaken ==
  ASSUME NEW program \in Seq(Command), NEW s \in Standings(program),
         NEW c \in Standings(program), Silently(program, s, c),
         NEW event, NEW u, Leads(program, s, event, u),
         event.type \notin Ignored, IsCancel(event) => c.phase = "outcome"
  PROVE  /\ c.phase # "finish"
         /\ (c.pc \in 1..Len(program) => program[c.pc].op # "checkCancel") => Accepts(program, c, event, u)
<1>1. PICK d \in Standings(program) : Silently(program, s, d) /\ Accepts(program, d, event, u)
  <2>1. c.phase = "outcome" => s.phase = "outcome"
    BY SilentStanding
  <2>2. QED
    BY <2>1 DEF Leads
<1>2. d.phase # "finish" /\ d.pc \in 1..Len(program) /\ program[d.pc].op # "checkCancel"
  BY <1>1, AcceptedStanding, AcceptsOnce
<1>3. QED
  BY <1>1, <1>2, NextCallIsOne

\* The next event of the record is none that advanceState takes.
CallIsNext(r) ==
    LET event == r.log[r.cursor + 1]
    IN event.type \notin LifecycleEvents /\ ~(IsCancel(event) /\ event.key = None)

\* What is still to be read is what the function does from where it is.
Foreseen(r) ==
    r.cursor # Len(r.log) =>
       \E f : /\ Path(r.program, r.log, Len(r.log), f)
              /\ Silently(r.program, f[r.cursor], At(r))
              /\ Strayed(f[r.cursor], At(r)) => CallIsNext(r)

LEMMA ForeseenFurther ==
  ASSUME runner \in Runner, Reached(runner), At(runner) \in Standings(runner.program), Foreseen(runner),
         NEW r \in Runner, Track(r) = Track(runner), Treads(r), r.phase # "decided"
  PROVE  Foreseen(r)
<1> DEFINE P == runner.program
           log == runner.log
           c == At(runner)
           t == At(r)
<1>0. /\ P \in Seq(Command) /\ r.program = P /\ r.log = log /\ runner.cursor \in Nat /\ Len(log) \in Nat
      /\ runner.cursor <= Len(log) /\ c.phase = runner.phase /\ c \in Standings(P)
      /\ \A u \in {runner, r} : At(u).pc = u.pc /\ At(u).phase = u.phase /\ At(u).returned = u.returned
                                /\ At(u).cancelled = u.cancelled
  BY AtParts DEF Runner, Track, Reached
<1> SUFFICES ASSUME r.cursor # Len(log)
             PROVE  \E f : /\ Path(P, log, Len(log), f) /\ Silently(P, f[r.cursor], t)
                           /\ Strayed(f[r.cursor], t) => CallIsNext(r)
  BY <1>0 DEF Foreseen
<1>1. /\ Passed(r) \/ Took(r) \/ Skipped(r)
      /\ Skipped(r) => r.cursor = runner.cursor
      /\ \A event : Meets(r, event) => IF AtEnd THEN r.cursor = runner.cursor
                                       ELSE event = log[runner.cursor + 1] /\ r.cursor = runner.cursor + 1
  BY DEF Treads, Halted, Blocking, Booked, Finishing, Leaving, Skipped, Meets, ReadsOn, WritesOn, Place, Peek
<1>2. ~AtEnd
  BY <1>1 DEF AtEnd, Passed, Took
<1>3. PICK f : /\ Path(P, log, Len(log), f) /\ Silently(P, f[runner.cursor], c)
               /\ Strayed(f[runner.cursor], c) => CallIsNext(runner)
  BY <1>2 DEF Foreseen, AtEnd
<1> DEFINE s == f[runner.cursor]
           n == runner.cursor + 1
           event == log[n]
           u == f[n]
<1>4. n \in 1..Len(log) /\ n - 1 = runner.cursor /\ runner.cursor \in 0..Len(log) /\ n \in 0..Len(log)
  BY <1>0, <1>2 DEF AtEnd
<1>5. s \in Standings(P) /\ u \in Standings(P) /\ Leads(P, s, event, u)
  BY <1>3, <1>4 DEF Path
<1>6. NothingNext(runner, inbox) => CallIsNext(runner)
  BY <1>2 DEF NothingNext, CallIsNext, AtEnd
<1>7. event.type \in Ignored \/ IsCancel(event) => ~\E d \in Standings(P) : Accepts(P, d, event, u)
  BY <1>0, AcceptedStanding
<1>8. Silently(P, s, c) /\ (Strayed(s, c) => CallIsNext(runner))
  BY <1>3
<1> HIDE DEF P, c, t, s, n, event, u
<1>9. CASE Passed(r)
  <2>1. /\ r.cursor = n
        /\ \/ event.type \in LifecycleEvents /\ t = c
           \/ IsCancel(event) /\ c.phase # "outcome" /\ t = Cancelled(c)
    BY <1>0, <1>1, <1>2, <1>9 DEF Passed, c, t, event, n, Cancelled, log
  <2>2. ~Strayed(s, c)
    <3>1. ~CallIsNext(runner)
      BY <1>2, <1>9 DEF Passed, NothingNext, CallIsNext, AtEnd
    <3>2. QED
      BY <1>8, <3>1
  <2>3. CASE event.type \in LifecycleEvents /\ t = c
    <3>1. u = s
      BY <1>5, <1>7, <2>3, EventCalls DEF Leads, Ignored
    <3>2. QED
      BY <1>3, <1>8, <2>1, <2>2, <2>3, <3>1 DEF u, s
  <2>4. CASE IsCancel(event) /\ c.phase # "outcome" /\ t = Cancelled(c)
    <3>1. u = Cancelled(s)
      BY <1>5, <1>7, <2>4, EventCalls DEF Leads, Cancelled
    <3>2. Silently(P, u, t) /\ ~Strayed(u, t)
      BY <1>0, <1>5, <1>8, <2>2, <2>4, <3>1, CancelledStanding DEF P, c
    <3>3. QED
      BY <1>3, <2>1, <3>2 DEF u
  <2>5. QED
    BY <2>1, <2>3, <2>4
<1>10. CASE Took(r)
  <2>1. r.cursor = n /\ Accepts(P, c, event, t)
    BY <1>1, <1>2, <1>10 DEF Took, P, c, t, event, n, log
  <2>2. t \in Standings(P) /\ event.type \notin Ignored /\ ~IsCancel(event)
    BY <1>0, <2>1, AcceptedStanding DEF P, c
  <2>3. P[c.pc].op # "checkCancel"
    BY <1>0, <2>1, AcceptsOnce DEF P, c
  <2>4. Accepts(P, c, event, u)
    BY <1>0, <1>5, <1>8, <2>2, <2>3, NextIsTaken DEF P, c
  <2>5. t = u
    BY <1>0, <2>1, <2>4, AcceptsOnce DEF P, c
  <2>6. t.pc..t.pc-1 = {} /\ t.pc <= t.pc
    BY <2>2, StandingParts
  <2>7. Silently(P, u, t) /\ ~Strayed(u, t)
    BY <2>5, <2>6 DEF Silently, Strayed
  <2>8. QED
    BY <1>3, <2>1, <2>7 DEF u
<1>11. CASE Skipped(r)
  <2>1. /\ r.cursor = runner.cursor /\ c.phase = "call" /\ t \in Standings(P) /\ Silently(P, c, t)
        /\ Strayed(c, t) => CallIsNext(runner)
    BY <1>0, <1>1, <1>6, <1>11 DEF Skipped, P, c, t
  <2>2. Silently(P, s, t)
    BY <1>0, <1>5, <1>8, <2>1, SilentFurther DEF P, c
  <2>3. Strayed(s, t) => Strayed(s, c) \/ Strayed(c, t)
    BY DEF Strayed
  <2>4. CallIsNext(r) <=> CallIsNext(runner)
    BY <1>0, <2>1 DEF CallIsNext, log
  <2>5. QED
    BY <1>3, <1>8, <2>1, <2>2, <2>3, <2>4 DEF s
<1>12. QED
  BY <1>1, <1>9, <1>10, <1>11

\* A replay that foresees what it reads finds no event that it cannot match.
LEMMA ForeseenFits ==
  ASSUME runner \in Runner, Reached(runner), ReplayPosition, At(runner) \in Standings(runner.program),
         Foreseen(runner), \A n \in 1..Len(runner.log) :
                              /\ runner.log[n].type \notin EndingEvents
                              /\ IsCancel(runner.log[n]) => runner.log[n].key = None
  PROVE  ~Diverge
<1> DEFINE P == runner.program
           log == runner.log
           c == At(runner)
<1> SUFFICES ASSUME Diverge
             PROVE  FALSE
  OBVIOUS
<1>0. /\ P \in Seq(Command) /\ runner.cursor \in Nat /\ Len(log) \in Nat
      /\ runner.cursor <= Len(log) /\ c \in Standings(P)
      /\ c.phase = runner.phase /\ c.pc = runner.pc
  BY AtParts DEF Runner, Reached
<1>1. Settled /\ ~AtEnd /\ (MismatchAtCall \/ MismatchAtWait \/ runner.phase = "finish")
  BY DEF Diverge, MismatchAtCall, MismatchAtWait, EndsAsRecorded
<1>2. PICK f : Path(P, log, Len(log), f) /\ Silently(P, f[runner.cursor], c)
  BY <1>1 DEF Foreseen, AtEnd
<1> DEFINE s == f[runner.cursor]
           n == runner.cursor + 1
           event == log[n]
           u == f[n]
<1>3. n \in 1..Len(log) /\ n - 1 = runner.cursor /\ runner.cursor \in 0..Len(log)
  BY <1>0, <1>1 DEF AtEnd
<1>4. s \in Standings(P) /\ Leads(P, s, event, u) /\ Silently(P, s, c)
  BY <1>2, <1>3 DEF Path
<1>5. Peek = event /\ event.type \notin EndingEvents /\ (IsCancel(event) => event.key = None)
  BY <1>3 DEF Peek
<1> HIDE DEF P, c, s, n, event, u
<1>6. event.type \notin Ignored
  BY <1>1, <1>5 DEF Ignored, Settled, LifecycleNext
<1>7. IsCancel(event) => c.phase = "outcome"
  <2>1. Advancing => ~IsCancel(event)
    BY <1>1, <1>5 DEF Settled, RecordedCancelNext, Next1, IsCancel
  <2>2. runner.phase \in {"call", "scheduled", "outcome", "finish"}
    BY <1>0 DEF Standings
  <2>3. QED
    BY <1>0, <2>1, <2>2 DEF Advancing
<1>8. /\ c.phase # "finish"
      /\ (c.pc \in 1..Len(P) => P[c.pc].op # "checkCancel") => Accepts(P, c, event, u)
  BY <1>0, <1>4, <1>6, <1>7, NextIsTaken DEF P, c
<1>9. Called /\ Call = P[c.pc] /\ Call.op # "checkCancel"
      /\ (MismatchAtCall => c.phase = "call") /\ (MismatchAtWait => c.phase \in {"scheduled", "outcome"})
  <2>1. Call = P[c.pc]
    BY <1>0 DEF Call, P
  <2>2. MismatchAtCall => Called /\ Call.op # "checkCancel" /\ c.phase = "call"
    BY <1>0 DEF MismatchAtCall
  <2>3. MismatchAtWait => c.phase \in {"scheduled", "outcome"} /\ Call.op # "checkCancel"
    BY <1>0 DEF MismatchAtWait, AwaitingActivity, AwaitingTimer
  <2>4. c.phase \in {"scheduled", "outcome"} => Called
    BY <1>0 DEF ReplayPosition, Called
  <2>5. QED
    BY <1>0, <1>1, <1>8, <2>1, <2>2, <2>3, <2>4
<1>10. Accepts(P, c, event, u)
  BY <1>8, <1>9
<1>11. /\ Call.key = event.key
       /\ \/ c.phase = "call" /\ ScheduledCall(event) = Call.op
          \/ c.phase = "call" /\ CompletedCall(event) = Call.op /\ Call.op \in {"signal", "marker"}
          \/ c.phase \in {"scheduled", "outcome"} /\ IsRetry(event) /\ Call.op = "activity"
          \/ c.phase \in {"scheduled", "outcome"} /\ CompletedCall(event) = Call.op
  BY <1>9, <1>10 DEF Accepts
<1>12. /\ ScheduledCall(event) = "activity" => event.type = "activity.scheduled"
       /\ ScheduledCall(event) = "timer" => event.type = "timer.scheduled"
       /\ CompletedCall(event) = "signal" => event.type = "signal.received"
       /\ CompletedCall(event) = "marker" => event.type = "marker.recorded"
       /\ CompletedCall(event) = "timer" => event.type = "timer.fired"
       /\ CompletedCall(event) = "activity" => event.type \in {"activity.completed", "activity.failed"}
       /\ ScheduledCall(event) \in {"activity", "timer", "none"}
  BY DEF ScheduledCall, CompletedCall, OutcomeEvents
<1>13. CASE MismatchAtCall
  <2>1. c.phase = "call" /\ Call.op \in {"activity", "timer", "signal", "marker"}
    BY <1>9, <1>13 DEF MismatchAtCall
  <2>2. \/ Call.op = "activity" /\ event.type = "activity.scheduled"
        \/ Call.op = "timer" /\ event.type = "timer.scheduled"
        \/ Call.op = "signal" /\ event.type = "signal.received"
        \/ Call.op = "marker" /\ event.type = "marker.recorded"
    BY <1>11, <1>12, <2>1
  <2>3. QED
    BY <1>1, <1>5, <1>11, <1>13, <2>2 DEF MismatchAtCall, Next1
<1>14. CASE MismatchAtWait
  <2>1. c.phase \in {"scheduled", "outcome"}
    BY <1>9, <1>14
  <2>2. \/ Call.op = "activity" /\ (IsRetry(event) \/ event.type \in {"activity.completed", "activity.failed"})
        \/ Call.op = "timer" /\ event.type = "timer.fired"
    <3>1. Call.op \in {"activity", "timer"}
      BY <1>14 DEF MismatchAtWait, AwaitingActivity, AwaitingTimer
    <3>2. QED
      BY <1>11, <1>12, <2>1, <3>1
  <2>3. QED
    BY <1>1, <1>5, <1>11, <1>14, <2>2 DEF MismatchAtWait, AwaitingActivity, AwaitingTimer, NoRecordedOutcome,
       RecordedOutcome, Next1, IsRetry
<1>15. QED
  BY <1>0, <1>1, <1>8, <1>13, <1>14

\* The requests to cancel that the history tells of are for the run, and have no key.
LEMMA CancelsOfTheRun ==
  ASSUME inbox \in Seq(InboxItem), InboxInv
  PROVE  \A n \in 1..Len(history) : IsCancel(history[n]) => history[n].key = None
<1> SUFFICES ASSUME NEW n \in 1..Len(history), IsCancel(history[n])
             PROVE  history[n].key = None
  OBVIOUS
<1>1. CarriesRow(history[n], inbox)
  BY DEF InboxInv, Journalled, Carried, CarriesNone, CarryingTypes, IsCancel
<1>2. inbox[history[n].item].kind = "cancel" /\ history[n].item \in Rows(inbox)
  <2>1. history[n].item \in Rows(inbox) /\ EventOf(inbox[history[n].item].kind) = "cancel.requested"
    BY <1>1 DEF CarriesRow, IsCancel
  <2>2. inbox[history[n].item].kind \in {"signal", "cancel", "timer"}
    <3>1. inbox[history[n].item] \in InboxItem
      BY <2>1 DEF Rows
    <3>2. QED
      BY <3>1 DEF InboxItem
  <2>3. QED
    BY <2>1, <2>2 DEF EventOf
<1>3. QED
  BY <1>1, <1>2 DEF CarriesRow, InboxInv, CancelsHaveNoKey

\* The steps of a run, as far as they concern the replay.
LEMMA RunnerGoesOn ==
  ASSUME [Next]_vars
  PROVE  ReplaysOn \/ runner' = runner \/ runner'.decision = "none"
<1>0. /\ NoReplay.decision = "none"
      /\ \A program, log, frontier, outcomes : NewRunner(program, log, frontier, outcomes).decision = "none"
  BY DEF NoReplay, NewRunner
<1>1. ASSUME NEW w \in Workers, Activation(w)
      PROVE  ReplaysOn \/ runner' = runner \/ runner'.decision = "none"
  <2>1. CASE Replay(w)
    BY <2>1 DEF Replay, Replaying, ReplaysOn, runVars, workVars
  <2>2. CASE StartReplay(w)
    BY <1>0, <2>2 DEF StartReplay
  <2>3. CASE CommitWaiting(w) \/ CommitEnded(w) \/ CommitQuarantined(w) \/ CommitCancelled(w)
    BY <1>0, <2>3 DEF CommitWaiting, CommitEnded, CommitQuarantined, CommitCancelled, Committing
  <2>4. CASE ClaimNextRun(w) \/ BeginTx(w) \/ DropStaleClaim(w) \/ FailUnregistered(w) \/ ReleaseRuns(w)
    BY <2>4 DEF ClaimNextRun, BeginTx, DropStaleClaim, FailUnregistered, ReleaseRuns
  <2>5. QED
    BY <1>1, <2>1, <2>2, <2>3, <2>4 DEF Activation
<1>2. ASSUME NEW a \in ActivityWorkers, Execution(a)
      PROVE  runner' = runner
  BY <1>2 DEF Execution, ClaimActivityTask, StartOutcome, CommitOutcome, RetryActivity, DropStaleOutcome, ReleaseTasks
<1>3. ASSUME WorkerFailure
      PROVE  runner' = runner \/ runner'.decision = "none"
  BY <1>0, <1>3 DEF WorkerFailure, CrashWorker, StopWorker, CrashActivityWorker, StopActivityWorker, LeaveWorker,
     LeaveActivityWorker
<1>4. ASSUME LeaseExpiry \/ LateLeaseExpiry \/ Timers
      PROVE  runner' = runner
  <2>1. CASE LeaseExpiry
    BY <2>1 DEF LeaseExpiry, ExpireRunLease, ExpireTaskLease, LoseTaskLease
  <2>2. CASE LateLeaseExpiry
    BY <2>2 DEF LateLeaseExpiry, ExpireRunLeaseLate, ExpireTaskLeaseLate, LoseTaskLease
  <2>3. CASE Timers
    BY <2>3 DEF Timers, TimerDue, ListDueTimers, WakeDueRun
  <2>4. QED
    BY <1>4, <2>1, <2>2, <2>3
<1>5. ASSUME Control
      PROVE  runner' = runner
  BY <1>5 DEF Control, SignalRun, CancelRun, SuspendRun, ResumeRun, TerminateRun, Controlling
<1>6. CASE UNCHANGED vars
  BY <1>6 DEF vars
<1>7. QED
  BY <1>1, <1>2, <1>3, <1>4, <1>5, <1>6 DEF Next

\* All workers run one build.
OneBuild == \A v, w \in Workers : Deployed[v] = Deployed[w]

SteadyInv ==
    /\ ReplayNeverDiverges
    /\ Replaying /\ runner.phase # "decided" => Foreseen(runner)

LEMMA ReplaysOnSteadily ==
  ASSUME Types, Locking, InboxInv, JournalInv, TraceInv, SteadyInv, ReplaysOn, runner' \in Runner
  PROVE  SteadyInv'
<1> DEFINE r == runner'
<1>0. TypeOK /\ runner \in Runner /\ ReplayPosition
  BY TypesAreTypeOK DEF TypeOK
<1>1. Replaying /\ ReplayStep
  BY DEF ReplaysOn
<1>2. ~IsTerminal /\ runner.log = history /\ runner.phase # "decided"
  BY <1>1, ReplayingIsLocked, ReplayIsUndecided
<1>3. /\ Reached(runner) /\ Awaited(Written(runner)) /\ Decided(runner) /\ ReplayInv(runner)
      /\ ScheduledOnce(runner.log) /\ OutcomeIsLast(runner.log)
      /\ \A n \in 1..Len(runner.log) : /\ runner.log[n].type \notin EndingEvents
                                       /\ IsCancel(runner.log[n]) => runner.log[n].key = None
  BY <1>0, <1>1, <1>2, CancelsOfTheRun DEF TypeOK, JournalInv, ReplayInv, NoEndingYet, HistoryIsOrdered
<1>4. At(runner) \in Standings(runner.program) /\ Foreseen(runner)
  BY <1>1, <1>2 DEF TraceInv, TracedReplay, OnTrace, SteadyInv
<1>5. Treads(r) /\ Track(r) = Track(runner) /\ Moves(r)
  BY <1>0, <1>1, <1>3, <1>4, ReplayTreads, ReplayMoves DEF Reached
<1>6. ~Diverge
  BY <1>0, <1>3, <1>4, ForeseenFits
<1>7. Decided(r)
  BY <1>0, <1>2, <1>3, <1>5, ReplayWritesFit
<1>8. r.phase # "decided" => Foreseen(r)
  BY <1>0, <1>3, <1>4, <1>5, ForeseenFurther
<1>9. runner.phase = "finish" => runner.returned # "quarantined"
  BY <1>0 DEF ReplayPosition
<1> HIDE DEF r
<1>10. r.decision # "quarantined"
  <2>1. At(r).phase = r.phase /\ runner.program \in Seq(Command)
        /\ \A u \in Standings(runner.program) : u.phase # "decided"
    BY <1>0, AtParts DEF Runner, Standings
  <2>2. CASE Passed(r) \/ Took(r) \/ Skipped(r)
    <3>1. Passed(r) => r.phase = runner.phase
      BY <2>1, AtParts DEF Passed, Standing
    <3>2. Took(r) => At(r) \in Standings(runner.program)
      BY <1>4, <2>1, AcceptedStanding DEF Took
    <3>3. r.phase # "decided"
      BY <1>2, <2>1, <2>2, <3>1, <3>2 DEF Skipped
    <3>4. QED
      BY <1>7, <3>3 DEF Decided, Choice
  <2>3. CASE Halted(r) \/ Booked(r)
    BY <2>3 DEF Halted, Blocking, Booked, Choice
  <2>4. CASE Finishing(r)
    BY <1>9, <2>4 DEF Finishing, Choice
  <2>5. QED
    BY <1>5, <1>6, <2>2, <2>3, <2>4 DEF Treads
<1>11. Foreseen(r) => Foreseen(runner)'
  BY DEF Foreseen, CallIsNext, r
<1>12. QED
  BY <1>8, <1>10, <1>11 DEF SteadyInv, ReplayNeverDiverges, r

LEMMA ActivatesSteadily ==
  ASSUME OneBuild, Types, TraceInv, Activates
  PROVE  SteadyInv'
<1>1. PICK w \in Workers, frontier \in SUBSET Nat :
        runner' = NewRunner(Deployed[w], history, frontier, [k \in Keys |-> ReadOutcome(k)])
  BY DEF Activates
<1> DEFINE r == runner'
           P == Deployed[w]
<1>2. /\ r.cursor = 0 /\ r.phase = "call" /\ r.decision = "none" /\ r.program = P /\ r.log = history
      /\ r.pc = 1 /\ r.cancelled = FALSE /\ r.returned = "none"
  BY <1>1 DEF NewRunner
<1>3. At(r) = Start
  BY <1>2 DEF At, Start
<1>4. PICK v \in Workers : TracedBy(Deployed[v])
  BY DEF Activates, TraceInv
<1>5. Deployed[v] = P /\ P \in Seq(Command)
  BY DeployedPrograms DEF OneBuild
<1> HIDE DEF P, r
<1>6. PICK f : Path(P, history, Len(history), f)
  BY <1>4, <1>5 DEF TracedBy, Told
<1>7. f[0] = Start /\ Start \in Standings(P)
  BY <1>5, <1>6, StartStands DEF Path
<1>8. Start.pc..Start.pc-1 = {} /\ Start.pc <= Start.pc
  BY <1>7, StandingParts
<1>9. Silently(P, f[0], At(r)) /\ ~Strayed(f[0], At(r))
  BY <1>3, <1>7, <1>8 DEF Silently, Strayed
<1>10. Foreseen(r)
  BY <1>2, <1>6, <1>9 DEF Foreseen
<1>11. Foreseen(runner)'
  BY <1>10 DEF Foreseen, CallIsNext, r
<1>12. QED
  BY <1>2, <1>11 DEF SteadyInv, ReplayNeverDiverges, r

LEMMA SteadilyOn ==
  ASSUME OneBuild, RunInv, TraceInv, SteadyInv, [Next]_vars
  PROVE  SteadyInv'
<1>1. RunInv' /\ Steps
  BY RunGoesOn
<1>2. Types /\ Locking /\ InboxInv /\ JournalInv /\ runner' \in Runner
  BY <1>1 DEF RunInv, ReadingInv, Types, ReplayTypes
<1>3. CASE ReplaysOn
  BY <1>2, <1>3, ReplaysOnSteadily
<1>4. CASE Activates
  BY <1>2, <1>4, ActivatesSteadily
<1>5. CASE ~ReplaysOn /\ ~Activates
  <2>1. Replaying' => Replaying /\ runner' = runner
    BY <1>1, <1>5 DEF Steps, Goes, Retried, Interrupted, Stopped, Committed
  <2>2. ReplayNeverDiverges'
    BY <1>5, RunnerGoesOn DEF SteadyInv, ReplayNeverDiverges
  <2>3. (Replaying /\ runner.phase # "decided" => Foreseen(runner))'
    BY <2>1 DEF SteadyInv, Foreseen, CallIsNext
  <2>4. QED
    BY <2>2, <2>3 DEF SteadyInv
<1>6. QED
  BY <1>3, <1>4, <1>5

\* A build that has not changed replays every history it has written: whatever
\* other transactions append between two activations, and however these end, no
\* context call meets an event it cannot match and no run is quarantined
\* (replayMismatch, replay.go:1111).  All workers run one build here; with several
\* a quarantine is what keeps HistoryFitsABuild.
THEOREM OneBuildNeverDiverges == OneBuild /\ Workers # {} => (Spec => []ReplayNeverDiverges)
<1> SUFFICES ASSUME OneBuild, Workers # {}
             PROVE  Spec => []ReplayNeverDiverges
  OBVIOUS
<1> DEFINE IInv == RunInv /\ TraceInv /\ SteadyInv
<1>1. Init => IInv
  <2>1. Init => SteadyInv
    BY DEF Init, SteadyInv, ReplayNeverDiverges, NoReplay, NewRunner, Replaying
  <2>2. QED
    BY <2>1, InitRun, InitTraced
<1>2. IInv /\ [Next]_vars => IInv'
  BY RunGoesOn, TraceGoesOn, SteadilyOn
<1>3. IInv => ReplayNeverDiverges
  BY DEF SteadyInv
<1>4. QED
  BY <1>1, <1>2, <1>3, PTL DEF Spec

(***************************************************************************)
(* The journal of a history: the n-th call that has taken effect is the    *)
(* one that the n-th completing event completes.                           *)
(***************************************************************************)

LEMMA CountGrows ==
  ASSUME NEW marks, NEW m \in Nat, NEW n \in Nat, m <= n
  PROVE  /\ Cardinality(marks \cap (1..m)) \in Nat /\ Cardinality(marks \cap (1..n)) \in Nat
         /\ Cardinality(marks \cap (1..m)) <= Cardinality(marks \cap (1..n))
         /\ m < n /\ n \in marks => Cardinality(marks \cap (1..m)) + 1 <= Cardinality(marks \cap (1..n))
<1> DEFINE low == marks \cap (1..m)
           high == marks \cap (1..n)
<1>1. IsFiniteSet(1..n)
  BY FS_Interval
<1>2. IsFiniteSet(high) /\ low \in SUBSET high /\ (m < n /\ n \in marks => low \cup {n} \in SUBSET high /\ n \notin low)
  <2>1. high \in SUBSET (1..n)
    OBVIOUS
  <2>2. IsFiniteSet(high)
    BY <1>1, <2>1, FS_Subset
  <2>3. 1..m \subseteq 1..n /\ (m < n => n \in 1..n /\ n \notin 1..m)
    OBVIOUS
  <2>4. QED
    BY <2>2, <2>3
<1> HIDE DEF low, high
<1>3. IsFiniteSet(low) /\ Cardinality(low) <= Cardinality(high) /\ Cardinality(low) \in Nat /\ Cardinality(high) \in Nat
  BY <1>2, FS_Subset, FS_CardinalityType
<1>4. ASSUME m < n, n \in marks
      PROVE  Cardinality(low) + 1 <= Cardinality(high)
  <2>1. Cardinality(low \cup {n}) = Cardinality(low) + 1
    BY <1>2, <1>3, <1>4, FS_AddElement
  <2>2. Cardinality(low \cup {n}) <= Cardinality(high)
    BY <1>2, <1>4, FS_Subset
  <2>3. QED
    BY <2>1, <2>2
<1>5. QED
  BY <1>3, <1>4 DEF low, high

LEMMA DoneByGrows ==
  ASSUME NEW events, NEW m \in Nat, NEW n \in Nat, m <= n
  PROVE  /\ DoneBy(events, m) \in Nat /\ DoneBy(events, n) \in Nat /\ DoneBy(events, m) <= DoneBy(events, n)
         /\ m < n /\ Completing(events[n]) => DoneBy(events, m) + 1 <= DoneBy(events, n)
<1> DEFINE marks == {p \in Nat : Completing(events[p])}
<1>1. ASSUME NEW k \in Nat
      PROVE  DoneBy(events, k) = Cardinality(marks \cap (1..k))
  <2>1. {p \in 1..k : Completing(events[p])} = marks \cap (1..k)
    OBVIOUS
  <2>2. QED
    BY <2>1 DEF DoneBy
<1>2. n \in marks <=> Completing(events[n])
  OBVIOUS
<1>3. /\ DoneBy(events, m) = Cardinality(marks \cap (1..m))
      /\ DoneBy(events, n) = Cardinality(marks \cap (1..n))
  BY <1>1
<1> HIDE DEF marks
<1>4. /\ Cardinality(marks \cap (1..m)) \in Nat /\ Cardinality(marks \cap (1..n)) \in Nat
      /\ Cardinality(marks \cap (1..m)) <= Cardinality(marks \cap (1..n))
      /\ m < n /\ n \in marks => Cardinality(marks \cap (1..m)) + 1 <= Cardinality(marks \cap (1..n))
  BY CountGrows
<1>5. QED
  BY ONLY <1>2, <1>3, <1>4

LEMMA EffectsGrow ==
  ASSUME NEW program, NEW p \in Nat \ {0}, NEW q \in Nat \ {0}, p <= q
  PROVE  /\ EffectsBefore(program, p) \in Nat /\ EffectsBefore(program, q) \in Nat
         /\ EffectsBefore(program, p) <= EffectsBefore(program, q)
         /\ p < q /\ program[p].op # "checkCancel" => EffectsBefore(program, p) + 1 <= EffectsBefore(program, q)
<1>1. ASSUME NEW m \in Nat \ {0}, NEW n \in Nat \ {0}, m <= n
      PROVE  /\ EffectsBefore(program, m) \in Nat /\ EffectsBefore(program, n) \in Nat
             /\ EffectsBefore(program, m) <= EffectsBefore(program, n)
  <2> DEFINE marks == {i \in Nat : program[i].op # "checkCancel"}
  <2>1. ASSUME NEW k \in Nat \ {0}
        PROVE  EffectsBefore(program, k) = Cardinality(marks \cap (1..k-1))
    <3>1. {i \in 1..k-1 : program[i].op # "checkCancel"} = marks \cap (1..k-1)
      OBVIOUS
    <3>2. QED
      BY <3>1 DEF EffectsBefore
  <2>2. /\ EffectsBefore(program, m) = Cardinality(marks \cap (1..m-1))
        /\ EffectsBefore(program, n) = Cardinality(marks \cap (1..n-1))
    BY <2>1
  <2>3. m - 1 \in Nat /\ n - 1 \in Nat /\ m - 1 <= n - 1
    BY <1>1
  <2> HIDE DEF marks
  <2>4. /\ Cardinality(marks \cap (1..m-1)) \in Nat /\ Cardinality(marks \cap (1..n-1)) \in Nat
        /\ Cardinality(marks \cap (1..m-1)) <= Cardinality(marks \cap (1..n-1))
    BY <2>3, CountGrows
  <2>5. QED
    BY ONLY <2>2, <2>4
<1>2. p < q => p + 1 \in Nat \ {0} /\ p + 1 <= q
  OBVIOUS
<1>3. program[p].op # "checkCancel" => EffectsBefore(program, p + 1) = EffectsBefore(program, p) + 1
  BY EffectsNext
<1>4. p < q => EffectsBefore(program, p + 1) <= EffectsBefore(program, q)
  BY <1>1, <1>2
<1>5. QED
  BY <1>1, <1>3, <1>4

\* What an event that completes a call puts into the journal.
Entry(event) == [op |-> CompletedCall(event), key |-> event.key, ok |-> event.type # "activity.failed"]

JournalOf(events) ==
    [i \in 1..DoneBy(events, Len(events)) |->
       Entry(events[CHOOSE n \in 1..Len(events) : Completing(events[n]) /\ DoneBy(events, n) = i])]

LEMMA JournalIsOf == Journal = JournalOf(history) /\ Journal' = JournalOf(history')
BY DEF Journal, JournalOf, Entry, Events

LEMMA JournalEntries ==
  ASSUME NEW events, Len(events) \in Nat
  PROVE  /\ JournalOf(events) = [i \in 1..DoneBy(events, Len(events)) |-> JournalOf(events)[i]]
         /\ \A n \in 1..Len(events) : Completing(events[n]) =>
              /\ DoneBy(events, n) \in 1..DoneBy(events, Len(events))
              /\ JournalOf(events)[DoneBy(events, n)] = Entry(events[n])
<1> DEFINE last == Len(events)
<1>1. JournalOf(events) = [i \in 1..DoneBy(events, last) |-> JournalOf(events)[i]]
  BY DEF JournalOf
<1>2. ASSUME NEW n \in 1..last, Completing(events[n])
      PROVE  /\ DoneBy(events, n) \in 1..DoneBy(events, last)
             /\ JournalOf(events)[DoneBy(events, n)] = Entry(events[n])
  <2> DEFINE i == DoneBy(events, n)
             fits(m) == Completing(events[m]) /\ DoneBy(events, m) = i
             m == CHOOSE m \in 1..last : fits(m)
  <2>1. i \in 1..DoneBy(events, last)
    <3>1. 0 \in Nat /\ n \in Nat /\ 0 <= n /\ 0 < n /\ n <= last
      OBVIOUS
    <3>2. DoneBy(events, 0) + 1 <= DoneBy(events, n) /\ DoneBy(events, n) <= DoneBy(events, last)
          /\ DoneBy(events, n) \in Nat /\ DoneBy(events, last) \in Nat
      BY <1>2, <3>1, DoneByGrows
    <3>3. DoneBy(events, 0) = 0
      BY DoneByNext
    <3>4. QED
      BY <3>2, <3>3
  <2>2. m \in 1..last /\ fits(m)
    BY <1>2
  <2>3. m = n
    <3> HIDE DEF m
    <3>1. m \in Nat /\ n \in Nat
      BY <2>2
    <3>2. m < n => DoneBy(events, m) + 1 <= DoneBy(events, n)
      BY <1>2, <3>1, DoneByGrows
    <3>3. n < m => DoneBy(events, n) + 1 <= DoneBy(events, m)
      BY <2>2, <3>1, DoneByGrows
    <3>4. DoneBy(events, n) \in Nat /\ DoneBy(events, m) \in Nat
      BY <3>1, DoneByGrows
    <3>5. QED
      BY <2>2, <3>1, <3>2, <3>3, <3>4
  <2>4. JournalOf(events)[i] = Entry(events[m])
    BY <2>1 DEF JournalOf
  <2>5. QED
    BY <2>1, <2>3, <2>4
<1>3. QED
  BY <1>1, <1>2

\* A journal is a sequence, as long as calls have taken effect.
LEMMA LengthOf ==
  ASSUME NEW n \in Nat, NEW f, f = [i \in 1..n |-> f[i]]
  PROVE  Len(f) = n
<1> DEFINE S == {f[i] : i \in 1..n}
<1>1. f \in [1..n -> S]
  <2>1. [i \in 1..n |-> f[i]] \in [1..n -> S]
    OBVIOUS
  <2>2. QED
    BY <2>1
<1> HIDE DEF S
<1>2. f \in Seq(S)
  BY <1>1
<1>3. Len(f) \in Nat /\ DOMAIN f = 1..Len(f)
  BY <1>2, LenProperties
<1>4. DOMAIN f = 1..n
  BY <1>1
<1>5. QED
  BY <1>3, <1>4

\* A history that goes on keeps what is in the journal.
LEMMA JournalGrows ==
  ASSUME NEW former, Len(former) \in Nat, NEW latter, Len(latter) \in Nat, Len(former) <= Len(latter),
         Agree(former, latter, Len(former)), Ranked(former, Len(former))
  PROVE  /\ Len(JournalOf(former)) = DoneBy(former, Len(former))
         /\ Len(JournalOf(latter)) = DoneBy(latter, Len(latter))
         /\ Len(JournalOf(former)) <= Len(JournalOf(latter))
         /\ \A i \in 1..Len(JournalOf(former)) : JournalOf(latter)[i] = JournalOf(former)[i]
         /\ Len(JournalOf(former)) = Len(JournalOf(latter)) => JournalOf(former) = JournalOf(latter)
<1> DEFINE last == Len(former)
           m == DoneBy(former, last)
           n == DoneBy(latter, Len(latter))
<1>1. \A k \in 0..last : DoneBy(former, k) = DoneBy(latter, k)
  BY DoneByAgrees
<1>2. m \in Nat /\ n \in Nat /\ m <= n
  <2>1. last \in 0..last
    OBVIOUS
  <2>2. DoneBy(latter, last) \in Nat /\ n \in Nat /\ DoneBy(latter, last) <= n
    BY DoneByGrows
  <2>3. QED
    BY <1>1, <2>1, <2>2
<1>3. /\ JournalOf(former) = [i \in 1..m |-> JournalOf(former)[i]]
      /\ JournalOf(latter) = [i \in 1..n |-> JournalOf(latter)[i]]
  BY JournalEntries
<1>4. ASSUME NEW i \in 1..m
      PROVE  JournalOf(latter)[i] = JournalOf(former)[i]
  <2>1. PICK k \in 1..last : Completing(former[k]) /\ DoneBy(former, k) = i
    BY DEF Ranked
  <2>2. k \in 1..Len(latter) /\ k \in 0..last /\ latter[k] = former[k]
    BY DEF Agree
  <2>3. DoneBy(latter, k) = i
    BY <1>1, <2>1, <2>2
  <2>4. JournalOf(former)[i] = Entry(former[k])
    BY <2>1, JournalEntries
  <2>5. JournalOf(latter)[i] = Entry(latter[k])
    BY <2>1, <2>2, <2>3, JournalEntries
  <2>6. QED
    BY <2>2, <2>4, <2>5
<1> HIDE DEF m, n
<1>5. Len(JournalOf(former)) = m /\ Len(JournalOf(latter)) = n
  BY <1>2, <1>3, LengthOf
<1>6. m = n => JournalOf(former) = JournalOf(latter)
  <2> SUFFICES ASSUME m = n
               PROVE  JournalOf(former) = JournalOf(latter)
    OBVIOUS
  <2>1. [i \in 1..m |-> JournalOf(former)[i]] = [i \in 1..m |-> JournalOf(latter)[i]]
    BY <1>4
  <2>2. QED
    BY <1>3, <2>1
<1>7. QED
  BY <1>2, <1>4, <1>5, <1>6 DEF m, n

(***************************************************************************)
(* What DurableExecution makes of the function.                            *)
(***************************************************************************)

\* The function of the build that DurableExecution is about.
Prog == Deployed[CHOOSE w \in Workers : TRUE]
Total == EffectsBefore(Prog, Len(Prog) + 1)

\* DurableExecution counts as this module does.
LEMMA SameCardinality == \A S : Durable!Cardinality(S) = Cardinality(S)
BY DEF Durable!Cardinality, Cardinality

LEMMA EffectsOf ==
  ASSUME Prog \in Seq(Command)
  PROVE  /\ Total \in Nat /\ Len(Durable!Effects) = Total
         /\ \A p \in 1..Len(Prog) :
              /\ EffectsBefore(Prog, p) \in 0..Total
              /\ Prog[p].op # "checkCancel" => /\ EffectsBefore(Prog, p) + 1 \in 1..Total
                                               /\ Durable!Effects[EffectsBefore(Prog, p) + 1] = Prog[p]
              /\ Prog[p].op = "checkCancel" => EffectsBefore(Prog, p) \in Durable!CancelPoints
<1> DEFINE last == Len(Prog)
           calls == {i \in 1..last : Prog[i].op # "checkCancel"}
<1>1. last \in Nat /\ last + 1 \in Nat \ {0}
  OBVIOUS
<1>2. Durable!EffectCalls = calls
  BY DEF Durable!EffectCalls, Prog
<1>3. Total \in Nat /\ Cardinality(calls) = Total
  <2>1. 1..(last+1)-1 = 1..last
    OBVIOUS
  <2>2. Cardinality(calls) = Total
    BY <2>1 DEF EffectsBefore, Total
  <2>3. QED
    BY <1>1, <2>2, EffectsNext DEF Total
<1>4. ASSUME NEW p \in 1..last
      PROVE  Durable!Before(p) = EffectsBefore(Prog, p)
  <2>1. {j \in calls : j < p} = {q \in 1..p-1 : Prog[q].op # "checkCancel"}
    OBVIOUS
  <2> HIDE DEF calls
  <2>2. QED
    BY <1>2, <2>1, SameCardinality DEF Durable!Before, EffectsBefore
<1>5. ASSUME NEW p \in 1..last
      PROVE  /\ EffectsBefore(Prog, p) \in 0..Total
             /\ Prog[p].op # "checkCancel" => EffectsBefore(Prog, p) + 1 \in 1..Total
  <2>1. p \in Nat \ {0} /\ p < last + 1 /\ p <= last + 1
    OBVIOUS
  <2>2. /\ EffectsBefore(Prog, p) \in Nat /\ EffectsBefore(Prog, p) <= Total
        /\ Prog[p].op # "checkCancel" => EffectsBefore(Prog, p) + 1 <= Total
    BY <1>1, <2>1, EffectsGrow DEF Total
  <2>3. QED
    BY <1>3, <2>2
<1>6. Durable!Effects = [n \in 1..Total |-> Prog[CHOOSE i \in calls : Durable!Before(i) + 1 = n]]
  <2> HIDE DEF calls
  <2>1. Durable!Cardinality(Durable!EffectCalls) = Total
    BY <1>2, <1>3, SameCardinality
  <2>2. QED
    BY <1>2, <2>1 DEF Durable!Effects, Prog
<1>7. ASSUME NEW p \in 1..last, Prog[p].op # "checkCancel"
      PROVE  Durable!Effects[EffectsBefore(Prog, p) + 1] = Prog[p]
  <2> DEFINE n == EffectsBefore(Prog, p) + 1
             i == CHOOSE i \in calls : Durable!Before(i) + 1 = n
  <2>1. i \in calls /\ Durable!Before(i) + 1 = n
    BY <1>4, <1>7
  <2>2. Durable!Effects[n] = Prog[i]
    BY <1>5, <1>6, <1>7
  <2> HIDE DEF i
  <2>3. i \in 1..last /\ Prog[i].op # "checkCancel" /\ i \in Nat \ {0} /\ p \in Nat \ {0}
    BY <2>1
  <2>4. EffectsBefore(Prog, i) + 1 = n
    BY <1>4, <2>1, <2>3
  <2>5. i < p => EffectsBefore(Prog, i) + 1 <= EffectsBefore(Prog, p)
    BY <2>3, EffectsGrow
  <2>6. p < i => EffectsBefore(Prog, p) + 1 <= EffectsBefore(Prog, i)
    BY <1>7, <2>3, EffectsGrow
  <2>7. EffectsBefore(Prog, p) \in Nat /\ EffectsBefore(Prog, i) \in Nat
    BY <2>3, EffectsNext
  <2>8. i = p
    BY <2>3, <2>4, <2>5, <2>6, <2>7
  <2>9. QED
    BY <2>2, <2>8
<1>8. ASSUME NEW p \in 1..last, Prog[p].op = "checkCancel"
      PROVE  EffectsBefore(Prog, p) \in Durable!CancelPoints
  <2>1. p \in 1..last \ calls
    BY <1>8
  <2>2. Durable!Before(p) \in Durable!CancelPoints
    BY <1>2, <2>1 DEF Durable!CancelPoints, Prog
  <2>3. QED
    BY <1>4, <2>2
<1>9. Len(Durable!Effects) = Total
  <2>1. Durable!Effects = [n \in 1..Total |-> Durable!Effects[n]]
    BY <1>6
  <2>2. QED
    BY <1>3, <2>1, LengthOf
<1>10. QED
  BY <1>3, <1>5, <1>7, <1>8, <1>9

\* An error that ends the function is the last call that has taken effect.
LEMMA UnhandledIsLast ==
  ASSUME NEW program \in Seq(Command), NEW events, Len(events) \in Nat, NEW s,
         Told(program, events, Len(events), s), NEW m \in 1..Len(events), Unhandled(events[m])
  PROVE  /\ Completing(events[m]) /\ DoneBy(events, m) = DoneBy(events, Len(events))
         /\ s.returned = "failed"
<1> DEFINE last == Len(events)
           done == DoneBy(events, last)
<1>1. PICK f : Path(program, events, last, f) /\ Tallied(program, events, last, f) /\ f[last] = s
  BY DEF Told
<1>2. Completing(events[m])
  BY EventCalls DEF Completing
<1>3. ASSUME NEW k \in 1..last, m < k
      PROVE  ~Completing(events[k])
  <2>1. k - 1 \in 0..last /\ m \in 1..k-1
    BY <1>3
  <2>2. FailedBy(events, k - 1)
    BY <2>1 DEF FailedBy
  <2>3. f[k - 1] \in Standings(program) /\ f[k - 1].returned = "failed" /\ Leads(program, f[k - 1], events[k], f[k])
    BY <1>1, <2>1, <2>2 DEF Path, Tallied
  <2>4. f[k - 1].phase = "finish"
    BY <2>3 DEF Standings
  <2>5. QED
    BY <2>3, <2>4, LedStanding
<1>4. s.returned = "failed"
  <2>1. FailedBy(events, last)
    BY DEF FailedBy
  <2>2. QED
    BY <2>1, ToldTells
<1>5. DoneBy(events, m) = done
  <2>1. {p \in 1..last : Completing(events[p])} = {p \in 1..m : Completing(events[p])}
    BY <1>3
  <2>2. QED
    BY <2>1 DEF DoneBy
<1>6. QED
  BY <1>2, <1>4, <1>5

\* The journal of a history that the function has written is that of its effects;
\* only an error that ends the function is not handled, and that is the last entry.
Failures(journal) == {i \in 1..Len(journal) : ~journal[i].ok}

LEMMA EntryParts ==
  ASSUME NEW event
  PROVE  /\ Entry(event).op = CompletedCall(event) /\ Entry(event).key = event.key
         /\ Entry(event).ok <=> event.type # "activity.failed"
         /\ Entry(event).ok \in BOOLEAN
         /\ Entry(event) = [op |-> CompletedCall(event), key |-> event.key, ok |-> Entry(event).ok]
<1>1. Entry(event).op = CompletedCall(event) /\ Entry(event).key = event.key
  BY DEF Entry
<1>2. Entry(event).ok = (event.type # "activity.failed")
  BY DEF Entry
<1>3. Entry(event) = [op |-> CompletedCall(event), key |-> event.key, ok |-> Entry(event).ok]
  BY <1>2 DEF Entry
<1>4. QED
  BY <1>1, <1>2, <1>3

LEMMA JournalTells ==
  ASSUME Prog \in Seq(Command), NEW events, Len(events) \in Nat, NEW s, Told(Prog, events, Len(events), s),
         NEW journal, journal = JournalOf(events)
  PROVE  /\ Len(journal) = Effective(Prog, s) /\ Len(journal) \in 0..Total
         /\ journal = [i \in 1..Len(journal) |-> journal[i]]
         /\ \A i \in 1..Len(journal) :
              /\ journal[i] = [op |-> Durable!Effects[i].op, key |-> Durable!Effects[i].key, ok |-> journal[i].ok]
              /\ journal[i].ok \in BOOLEAN
         /\ s.returned # "failed" => Failures(journal) \subseteq Durable!MayFail
         /\ s.returned = "failed" =>
              /\ Len(journal) \in Failures(journal) /\ Durable!Effects[Len(journal)].op = "activity"
              /\ Len(journal) \notin Durable!MayFail
              /\ Failures(journal) \ {Len(journal)} \subseteq Durable!MayFail
<1> DEFINE last == Len(events)
           n == DoneBy(events, last)
<1>1. /\ s \in Standings(Prog) /\ n = Effective(Prog, s) /\ Ranked(events, last)
      /\ s.returned = "failed" <=> FailedBy(events, last)
  BY ToldTells
<1>2. journal = [i \in 1..n |-> journal[i]] /\ n \in Nat
  BY JournalEntries, DoneByGrows
<1>3. Len(journal) = n
  BY <1>2, LengthOf
<1>4. Len(Durable!Effects) = Total /\ Total \in Nat
  BY EffectsOf
<1>5. \A k \in 1..last : Completing(events[k]) =>
         \E p \in 1..Len(Prog) : /\ EffectsBefore(Prog, p) + 1 = DoneBy(events, k)
                                 /\ Prog[p].op = CompletedCall(events[k]) /\ Prog[p].key = events[k].key
  BY ToldMatches
<1>6. ASSUME NEW i \in 1..n
      PROVE  \E k \in 1..last :
                /\ Completing(events[k]) /\ DoneBy(events, k) = i /\ journal[i] = Entry(events[k])
                /\ i \in 1..Total /\ Durable!Effects[i].op = CompletedCall(events[k])
                /\ Durable!Effects[i].key = events[k].key
  <2>1. PICK k \in 1..last : Completing(events[k]) /\ DoneBy(events, k) = i
    BY <1>1 DEF Ranked
  <2>2. journal[i] = Entry(events[k])
    BY <2>1, JournalEntries
  <2>3. PICK p \in 1..Len(Prog) : /\ EffectsBefore(Prog, p) + 1 = i
                                  /\ Prog[p].op = CompletedCall(events[k]) /\ Prog[p].key = events[k].key
    BY <1>5, <2>1
  <2>4. CompletedCall(events[k]) # "checkCancel"
    BY EventCalls
  <2>5. i \in 1..Total /\ Durable!Effects[i] = Prog[p]
    BY <2>3, <2>4, EffectsOf
  <2>6. QED
    BY <2>1, <2>2, <2>3, <2>5
<1> HIDE DEF n
<1>7. ASSUME NEW i \in 1..n
      PROVE  /\ journal[i] = [op |-> Durable!Effects[i].op, key |-> Durable!Effects[i].key, ok |-> journal[i].ok]
             /\ journal[i].ok \in BOOLEAN
  BY <1>6, EntryParts
<1>8. ASSUME NEW i \in 1..n, ~journal[i].ok
      PROVE  /\ i \in 1..Total /\ Durable!Effects[i].op = "activity"
             /\ i \notin Durable!MayFail => s.returned = "failed" /\ i = n
  <2>1. PICK k \in 1..last :
                /\ Completing(events[k]) /\ DoneBy(events, k) = i /\ journal[i] = Entry(events[k])
                /\ i \in 1..Total /\ Durable!Effects[i].op = CompletedCall(events[k])
                /\ Durable!Effects[i].key = events[k].key
    BY <1>6
  <2>2. events[k].type = "activity.failed"
    BY <1>8, <2>1, EntryParts
  <2>3. CompletedCall(events[k]) = "activity"
    BY <2>2 DEF CompletedCall, OutcomeEvents
  <2>4. i \notin Durable!MayFail => Unhandled(events[k])
    BY <1>4, <2>1, <2>2, <2>3 DEF Durable!MayFail, Unhandled
  <2>5. Unhandled(events[k]) => s.returned = "failed" /\ i = n
    BY <2>1, UnhandledIsLast DEF n
  <2>6. QED
    BY <2>1, <2>3, <2>4, <2>5
<1>9. n \in 0..Total
  <2>1. n # 0 => n \in 1..n
    BY <1>2 DEF n
  <2>2. n # 0 => n \in 1..Total
    BY <1>6, <2>1
  <2>3. QED
    BY <1>4, <2>2
<1>10. ASSUME s.returned = "failed"
      PROVE  n \in 1..n /\ ~journal[n].ok /\ n \notin Durable!MayFail
  <2>1. PICK m \in 1..last : Unhandled(events[m])
    BY <1>1, <1>10 DEF FailedBy
  <2>2. Completing(events[m]) /\ DoneBy(events, m) = n
    BY <2>1, UnhandledIsLast DEF n
  <2>3. n \in 1..n /\ journal[n] = Entry(events[m])
    BY <2>2, JournalEntries DEF n
  <2>4. ~journal[n].ok
    BY <2>1, <2>3, EntryParts DEF Unhandled
  <2>5. n \notin Durable!MayFail
    <3>1. journal[n] = [op |-> Durable!Effects[n].op, key |-> Durable!Effects[n].key, ok |-> journal[n].ok]
      BY <1>7, <2>3
    <3>2. Durable!Effects[n].key = events[m].key
      BY <2>3, <3>1, EntryParts
    <3>3. QED
      BY <2>1, <3>2 DEF Durable!MayFail, Unhandled
  <2>6. QED
    BY <2>3, <2>4, <2>5
<1>11. s.returned # "failed" => Failures(journal) \subseteq Durable!MayFail
  BY <1>3, <1>8 DEF Failures
<1>12. s.returned = "failed" =>
              /\ n \in Failures(journal) /\ Durable!Effects[n].op = "activity" /\ n \notin Durable!MayFail
              /\ Failures(journal) \ {n} \subseteq Durable!MayFail
  BY <1>3, <1>8, <1>10 DEF Failures
<1>13. QED
  BY <1>1, <1>2, <1>3, <1>7, <1>9, <1>11, <1>12 DEF n

(***************************************************************************)
(* Each step of the run is a step of DurableExecution, or none.            *)
(***************************************************************************)

Outcome == IF IsTerminal THEN status ELSE "open"

LEMMA JournalGoesOn ==
  ASSUME Prog \in Seq(Command), history \in Seq(Event), history' \in Seq(Event),
         Len(history) <= Len(history'), Agree(history, history', Len(history)),
         NEW s, Told(Prog, history, Len(history), s), NEW t, Told(Prog, history', Len(history'), t)
  PROVE  /\ Len(Journal) \in Nat /\ Len(Journal') \in Nat /\ Len(Journal) <= Len(Journal')
         /\ Len(Journal) = Len(Journal') => Journal' = Journal
         /\ Durable!GrowTo(Len(Journal'), Failures(Journal'))
<1> DEFINE former == JournalOf(history)
           latter == JournalOf(history')
           n == Len(latter)
<1>1. Journal = former /\ Journal' = latter
  BY JournalIsOf
<1>2. Len(history) \in Nat /\ Len(history') \in Nat
  OBVIOUS
<1>3. Ranked(history, Len(history))
  BY <1>2, ToldTells
<1>4. /\ Len(former) <= Len(latter) /\ \A i \in 1..Len(former) : latter[i] = former[i]
      /\ Len(former) = Len(latter) => former = latter
  BY <1>2, <1>3, JournalGrows
<1>5. Len(former) \in 0..Total
  BY <1>2, JournalTells
<1>6. /\ Len(latter) \in 0..Total /\ latter = [i \in 1..Len(latter) |-> latter[i]]
      /\ \A i \in 1..Len(latter) :
           /\ latter[i] = [op |-> Durable!Effects[i].op, key |-> Durable!Effects[i].key, ok |-> latter[i].ok]
           /\ latter[i].ok \in BOOLEAN
  BY <1>2, JournalTells
<1>7. Total \in Nat
  BY EffectsOf
<1> HIDE DEF former, latter
<1>8. ASSUME NEW i \in 1..n
      PROVE  latter[i] = IF i <= Len(former) THEN former[i]
                         ELSE [op |-> Durable!Effects[i].op, key |-> Durable!Effects[i].key, ok |-> i \notin Failures(latter)]
  <2>1. i <= Len(former) => i \in 1..Len(former)
    BY <1>5, <1>7
  <2>2. i \notin Failures(latter) <=> latter[i].ok
    BY DEF Failures
  <2>3. latter[i].ok = (i \notin Failures(latter))
    BY <1>6, <2>2
  <2>4. latter[i] = [op |-> Durable!Effects[i].op, key |-> Durable!Effects[i].key, ok |-> i \notin Failures(latter)]
    BY <1>6, <2>3
  <2>5. QED
    BY <1>4, <2>1, <2>4
<1>9. latter = [i \in 1..n |->
                  IF i <= Len(former) THEN former[i]
                  ELSE [op |-> Durable!Effects[i].op, key |-> Durable!Effects[i].key, ok |-> i \notin Failures(latter)]]
  BY <1>6, <1>8
<1>10. Durable!GrowTo(n, Failures(latter))
  BY <1>1, <1>9 DEF Durable!GrowTo
<1>11. QED
  BY <1>1, <1>4, <1>5, <1>6, <1>7, <1>10

\* An event that completes no call changes no journal.
LEMMA SameJournal ==
  ASSUME history \in Seq(Event), NEW event \in Event, history' = Append(history, event), ~Completing(event),
         Ranked(history, Len(history))
  PROVE  Journal' = Journal
<1>1. /\ Len(history') = Len(history) + 1 /\ history'[Len(history) + 1] = event /\ Len(history) \in Nat
      /\ Len(history) <= Len(history') /\ Len(history') \in Nat /\ Len(history) \in 0..Len(history)
      /\ \A n \in 1..Len(history) : history'[n] = history[n]
  OBVIOUS
<1>2. Agree(history, history', Len(history))
  BY <1>1 DEF Agree
<1>3. DoneBy(history', Len(history)) = DoneBy(history, Len(history))
  BY <1>1, <1>2, DoneByAgrees
<1>4. /\ DoneBy(history', Len(history) + 1) = DoneBy(history', Len(history)) + (IF Completing(event) THEN 1 ELSE 0)
      /\ DoneBy(history', Len(history)) \in Nat
  BY <1>1, DoneByNext
<1>5. DoneBy(history', Len(history')) = DoneBy(history, Len(history))
  BY <1>1, <1>3, <1>4
<1>6. JournalOf(history') = JournalOf(history)
  BY <1>1, <1>2, <1>5, JournalGrows
<1>7. QED
  BY <1>6, JournalIsOf

LEMMA Rests ==
  ASSUME Journal' = Journal, Outcome' = Outcome
  PROVE  UNCHANGED Durable!dvars
BY DEF Durable!dvars, Outcome

LEMMA InitDurable ==
  ASSUME Init
  PROVE  Durable!Init
<1>1. history = <<>> /\ status = "queued"
  BY DEF Init
<1>2. 1..Len(history) = {} /\ Len(history) = 0 /\ ~IsTerminal
  BY <1>1 DEF IsTerminal, TerminalStatuses
<1>3. DoneBy(history, Len(history)) = 0
  BY <1>2, DoneByNext
<1>4. Journal = <<>>
  BY <1>3 DEF Journal
<1>5. QED
  BY <1>2, <1>4 DEF Durable!Init

\* A run that is going on has written the history of the one build.
LEMMA WrittenByProg ==
  ASSUME Types, TraceInv, OneBuild, Workers # {}
  PROVE  /\ Prog \in Seq(Command) /\ history \in Seq(Event)
         /\ ~IsTerminal => /\ \E s : Told(Prog, history, Len(history), s) /\ s.returned # "failed"
                           /\ Ranked(history, Len(history))
         /\ Replaying => runner.program = Prog
<1>1. \A w \in Workers : Deployed[w] = Prog
  BY DEF OneBuild, Prog
<1>2. Prog \in Seq(Command)
  BY <1>1, DeployedPrograms
<1>3. history \in Seq(Event)
  BY TypesAreTypeOK DEF TypeOK
<1>4. ASSUME ~IsTerminal
      PROVE  /\ \E s : Told(Prog, history, Len(history), s) /\ s.returned # "failed"
             /\ Ranked(history, Len(history))
  <2>1. PICK s : Told(Prog, history, Len(history), s) /\ s.phase # "finish"
    BY <1>1, <1>4 DEF TraceInv, TracedBy
  <2>2. s \in Standings(Prog) /\ Ranked(history, Len(history))
    <3>1. Len(history) \in Nat
      BY <1>3
    <3>2. QED
      BY <2>1, <3>1, ToldTells
  <2>3. s.returned # "failed"
    BY <2>1, <2>2 DEF Standings
  <2>4. QED
    BY <2>1, <2>2, <2>3
<1>5. Replaying => runner.program = Prog
  BY <1>1 DEF TraceInv, TracedReplay
<1>6. QED
  BY <1>2, <1>3, <1>4, <1>5

\* What a commit makes of the journal, and where the function then stands.
LEMMA CommittedJournal ==
  ASSUME Types, TraceInv, OneBuild, Workers # {}, Committed, NEW t, Told(Prog, history', Len(history'), t)
  PROVE  /\ Len(Journal) \in Nat /\ Len(Journal') \in Nat /\ Len(Journal) <= Len(Journal')
         /\ Len(Journal) = Len(Journal') => Journal' = Journal
         /\ Durable!GrowTo(Len(Journal'), Failures(Journal'))
         /\ Len(Journal') = Effective(Prog, t) /\ Len(Journal') \in 0..Total /\ Len(Durable!Effects) = Total
         /\ Len(Journal') \in Durable!Reachable
         /\ t.returned # "failed" => Failures(Journal') \subseteq Durable!MayFail
         /\ t.returned = "failed" =>
              /\ Len(Journal') > Len(Journal) /\ Durable!Effects[Len(Journal')].op = "activity"
              /\ Len(Journal') \notin Durable!MayFail
              /\ Failures(Journal') \ {Len(Journal')} \subseteq Durable!MayFail
              /\ Failures(Journal') = (Failures(Journal') \ {Len(Journal')}) \cup {Len(Journal')}
<1>1. /\ Prog \in Seq(Command) /\ history \in Seq(Event) /\ ~IsTerminal
      /\ Ranked(history, Len(history))
  BY WrittenByProg DEF Committed
<1>2. PICK s : Told(Prog, history, Len(history), s) /\ s.returned # "failed"
  BY WrittenByProg DEF Committed
<1>3. /\ runner \in Runner /\ history' = Written(runner) /\ runner.log = history
  BY TypesAreTypeOK DEF TypeOK, Committed, Written
<1>4. /\ history' \in Seq(Event) /\ Len(history) \in Nat /\ Len(history') \in Nat
      /\ Len(history) <= Len(history') /\ Agree(history, history', Len(history))
  <2>1. /\ history' \in Seq(Event) /\ Len(history') = Len(history) + Len(runner.queued)
        /\ Len(runner.queued) \in Nat
        /\ \A n \in 1..Len(history) : history'[n] = history[n]
    BY <1>1, <1>3, WrittenType
  <2>2. QED
    BY <1>1, <2>1 DEF Agree
<1>5. /\ Len(Journal) \in Nat /\ Len(Journal') \in Nat /\ Len(Journal) <= Len(Journal')
      /\ Len(Journal) = Len(Journal') => Journal' = Journal
      /\ Durable!GrowTo(Len(Journal'), Failures(Journal'))
  BY <1>1, <1>2, <1>4, JournalGoesOn
<1>6. Failures(Journal) \subseteq Durable!MayFail
  BY <1>1, <1>2, <1>4, JournalIsOf, JournalTells
<1>7. /\ Len(Journal') = Effective(Prog, t) /\ Len(Journal') \in 0..Total
      /\ t.returned # "failed" => Failures(Journal') \subseteq Durable!MayFail
      /\ t.returned = "failed" =>
              /\ Len(Journal') \in Failures(Journal') /\ Durable!Effects[Len(Journal')].op = "activity"
              /\ Len(Journal') \notin Durable!MayFail
              /\ Failures(Journal') \ {Len(Journal')} \subseteq Durable!MayFail
  BY <1>1, <1>4, JournalIsOf, JournalTells
<1>8. Len(Durable!Effects) = Total
  BY <1>1, EffectsOf
<1>9. Len(Journal') \in Durable!Reachable
  BY <1>5, <1>7, <1>8 DEF Durable!Reachable
<1>10. t.returned = "failed" => Len(Journal') > Len(Journal)
  <2>1. t.returned = "failed" => Journal' # Journal
    BY <1>6, <1>7
  <2>2. QED
    BY <1>5, <2>1
<1>11. QED
  BY <1>5, <1>7, <1>8, <1>9, <1>10

LEMMA CommittedDurably ==
  ASSUME Types, TraceInv, OneBuild, Workers # {}, Committed
  PROVE  [Durable!Next]_(Durable!dvars)
<1> DEFINE n == Len(Journal')
           failures == Failures(Journal')
<1>0. ~IsTerminal /\ TracedReplay(runner) /\ runner.program = Prog /\ history' = Written(runner)
      /\ runner \in Runner /\ Prog \in Seq(Command) /\ history \in Seq(Event)
  BY TypesAreTypeOK, WrittenByProg DEF TypeOK, Committed, TraceInv, Written
<1>1. Outcome = "open"
  BY <1>0 DEF Outcome
<1>2. ASSUME runner.decision = "waiting", ~IsTerminal'
      PROVE  [Durable!Next]_(Durable!dvars)
  <2>1. PICK s : Told(Prog, history', Len(history'), s) /\ s.phase # "finish"
    BY <1>0, <1>2 DEF TracedReplay, Waits
  <2>2. s.returned # "failed"
    <3>1. s \in Standings(Prog)
      BY <2>1 DEF Told, Path
    <3>2. QED
      BY <2>1, <3>1 DEF Standings
  <2>3. Outcome' = Outcome
    BY <1>0, <1>2 DEF Outcome
  <2>4. /\ n > Len(Journal) \/ Journal' = Journal
        /\ n \in Durable!Reachable /\ failures \in SUBSET Durable!MayFail /\ Durable!GrowTo(n, failures)
    BY <2>1, <2>2, CommittedJournal
  <2>5. n > Len(Journal) => Durable!Advance
    BY <2>3, <2>4 DEF Durable!Advance, Outcome
  <2>6. QED
    BY <1>1, <2>3, <2>4, <2>5, Rests DEF Durable!Next, Outcome
<1>3. ASSUME runner.decision \in EndingDecisions, status' = runner.decision
      PROVE  Durable!Next
  <2>1. PICK s, t : /\ Told(Prog, history', Len(history'), s)
                    /\ t \in Standings(Prog) /\ Silently(Prog, s, t)
                    /\ t.phase = "finish" /\ t.returned = runner.decision
    BY <1>0, <1>3 DEF TracedReplay, Ends
  <2>2. /\ Effective(Prog, s) = Effective(Prog, t)
        /\ s.returned = "failed" <=> t.returned = "failed"
    <3>1. s \in Standings(Prog)
      BY <2>1 DEF Told, Path
    <3>2. QED
      BY <2>1, <3>1, SilentStanding
  <2>3. Outcome' = runner.decision
    BY <1>3 DEF Outcome, IsTerminal, TerminalStatuses, EndingDecisions
  <2>4. /\ n = Effective(Prog, t) /\ n \in Durable!Reachable /\ Durable!GrowTo(n, failures)
        /\ Len(Durable!Effects) = Total
    BY <2>1, <2>2, CommittedJournal
  <2>5. t.returned # "failed" => failures \in SUBSET Durable!MayFail /\ n = EffectsBefore(Prog, t.pc)
    <3>1. t.returned # "failed" => failures \subseteq Durable!MayFail
      BY <2>1, <2>2, CommittedJournal
    <3>2. t.returned # "failed" => n = EffectsBefore(Prog, t.pc)
      <4>1. t.pc \in Nat \ {0}
        BY <2>1, StandingParts
      <4>2. EffectsBefore(Prog, t.pc) \in Nat
        BY <4>1, EffectsNext
      <4>3. QED
        BY <2>4, <4>2 DEF Effective
    <3>3. QED
      BY <3>1, <3>2
  <2>6. CASE runner.decision = "completed"
    <3>1. t.pc = Len(Prog) + 1
      BY <1>0, <2>1, <2>6 DEF Standings
    <3>2. n = Len(Durable!Effects) /\ failures \in SUBSET Durable!MayFail
      BY <2>1, <2>4, <2>5, <2>6, <3>1 DEF Total
    <3>3. Durable!Complete
      BY <2>3, <2>4, <2>6, <3>2 DEF Durable!Complete, Outcome
    <3>4. QED
      BY <1>1, <3>3 DEF Durable!Next, Outcome
  <2>7. CASE runner.decision = "cancelled"
    <3>1. t.pc \in 1..Len(Prog) /\ Prog[t.pc].op = "checkCancel"
      BY <2>1, <2>7 DEF Standings
    <3>2. n \in Durable!Reachable \cap Durable!CancelPoints /\ failures \in SUBSET Durable!MayFail
      BY <1>0, <2>1, <2>4, <2>5, <2>7, <3>1, EffectsOf
    <3>3. Durable!Cancel
      BY <2>3, <2>4, <2>7, <3>2 DEF Durable!Cancel, Outcome
    <3>4. QED
      BY <1>1, <3>3 DEF Durable!Next, Outcome
  <2>8. CASE runner.decision = "failed"
    <3> DEFINE others == failures \ {n}
    <3>1. /\ n > Len(Journal) /\ Durable!Effects[n].op = "activity" /\ n \notin Durable!MayFail
          /\ others \in SUBSET Durable!MayFail /\ failures = others \cup {n}
      BY <2>1, <2>2, <2>8, CommittedJournal
    <3>2. Durable!GrowTo(n, others \cup {n})
      BY <2>4, <3>1
    <3> HIDE DEF others
    <3>3. Durable!Fail
      BY <2>3, <2>4, <2>8, <3>1, <3>2 DEF Durable!Fail, Outcome
    <3>4. QED
      BY <1>1, <3>3 DEF Durable!Next, Outcome
  <2>9. QED
    BY <1>3, <2>6, <2>7, <2>8 DEF EndingDecisions
<1>4. ASSUME runner.decision = "quarantined", ~IsTerminal'
      PROVE  [Durable!Next]_(Durable!dvars)
  <2>1. history' = history
    BY <1>0, <1>4, WrittenType DEF TracedReplay, Committed
  <2>2. Journal' = Journal
    BY <2>1, JournalIsOf
  <2>3. Outcome' = Outcome
    BY <1>0, <1>4 DEF Outcome
  <2>4. QED
    BY <2>2, <2>3, Rests
<1>5. QED
  BY <1>2, <1>3, <1>4 DEF Committed, EndingDecisions

LEMMA StepsDurably ==
  ASSUME Types, TraceInv, EndInv, OneBuild, Registered = Workers, Workers # {}, Steps
  PROVE  [Durable!Next]_(Durable!dvars)
<1>0. /\ history \in Seq(Event)
      /\ ~IsTerminal => Ranked(history, Len(history))
  BY WrittenByProg
<1>1. ASSUME history' = history, Outcome' = Outcome
      PROVE  UNCHANGED Durable!dvars
  BY <1>1, JournalIsOf, Rests
<1>2. CASE Goes
  BY <1>1, <1>2 DEF Goes, Outcome
<1>3. CASE Activates
  BY <1>1, <1>3 DEF Activates, Outcome
<1>4. CASE ReplaysOn
  BY <1>1, <1>4 DEF ReplaysOn, Outcome, IsTerminal
<1>5. CASE Retried
  <2>1. PICK k \in Keys : /\ tasks[k].status = "claimed"
                          /\ history' = Append(history, NewEvent("activity.retry_scheduled", k, 0))
    BY <1>5 DEF Retried, HoldsTask
  <2> DEFINE event == NewEvent("activity.retry_scheduled", k, 0)
  <2>2. ~IsTerminal /\ Outcome' = Outcome
    BY <1>5, <2>1 DEF Retried, EndInv, OpenTask, Outcome, IsTerminal
  <2>3. event \in Event /\ ~Completing(event)
    <3>1. event \in Event
      BY EventType DEF EventTypes
    <3>2. event.type = "activity.retry_scheduled"
      BY DEF NewEvent
    <3>3. QED
      BY <3>1, <3>2 DEF Completing, CompletedCall, OutcomeEvents
  <2>4. history' = Append(history, event)
    BY <2>1
  <2> HIDE DEF event
  <2>5. Journal' = Journal
    BY <1>0, <2>2, <2>3, <2>4, SameJournal
  <2>6. QED
    BY <2>2, <2>5, Rests
<1>6. CASE Interrupted
  <2>1. PICK type \in LifecycleEvents : history' = Append(history, NewEvent(type, None, 0))
    BY <1>6 DEF Interrupted
  <2> DEFINE event == NewEvent(type, None, 0)
  <2>2. ~IsTerminal /\ Outcome' = Outcome
    BY <1>6 DEF Interrupted, Outcome
  <2>3. event \in Event /\ ~Completing(event)
    <3>1. event \in Event
      BY EventType DEF EventTypes
    <3>2. event.type \in Ignored
      BY DEF NewEvent, Ignored
    <3>3. QED
      BY <3>1, <3>2, EventCalls
  <2>4. history' = Append(history, event)
    BY <2>1
  <2> HIDE DEF event
  <2>5. Journal' = Journal
    BY <1>0, <2>2, <2>3, <2>4, SameJournal
  <2>6. QED
    BY <2>2, <2>5, Rests
<1>7. CASE Stopped
  <2> DEFINE event == NewEvent("workflow.terminated", None, 0)
  <2>1. ~IsTerminal /\ IsTerminal' /\ status' = "terminated" /\ history' = Append(history, event)
    BY <1>7 DEF Stopped, StatusEvent
  <2>2. event \in Event /\ ~Completing(event)
    <3>1. event \in Event
      BY EventType DEF EventTypes, EndingEvents
    <3>2. event.type \in Ignored
      BY DEF NewEvent, Ignored, EndingEvents
    <3>3. QED
      BY <3>1, <3>2, EventCalls
  <2> HIDE DEF event
  <2>3. Journal' = Journal
    BY <1>0, <2>1, <2>2, SameJournal
  <2>4. Durable!Next
    BY <2>1, <2>3 DEF Durable!Next, Durable!Terminate
  <2>5. QED
    BY <2>4
<1>8. CASE Committed
  BY <1>8, CommittedDurably
<1>9. QED
  BY <1>2, <1>3, <1>4, <1>5, <1>6, <1>7, <1>8 DEF Steps

\* Whatever crashes, leases, retries, requests and other workers do, the rows of the
\* run's history and its status are what one uninterrupted execution of the function
\* could have reached: each call takes effect at most once, in the order of the
\* function and never after the end (engine/README.md:17).  All workers run one
\* build, it registers the run's version, and there is a worker.
THEOREM RunsAreDurable ==
  OneBuild /\ Registered = Workers /\ Workers # {} => (Spec => ImplementsDurableExecution)
<1> SUFFICES ASSUME OneBuild, Registered = Workers, Workers # {}
             PROVE  Spec => ImplementsDurableExecution
  OBVIOUS
<1> DEFINE IInv == RunInv /\ TraceInv /\ EndInv
<1>1. Init => IInv /\ Durable!Init
  BY InitRun, InitTraced, InitDurable
<1>2. IInv /\ [Next]_vars => IInv' /\ [Durable!Next]_(Durable!dvars)
  <2> SUFFICES ASSUME IInv, [Next]_vars
               PROVE  IInv' /\ [Durable!Next]_(Durable!dvars)
    OBVIOUS
  <2>1. RunInv' /\ Steps /\ TraceInv'
    BY RunGoesOn, TraceGoesOn
  <2>2. EndInv'
    BY <2>1, EndGoesOn DEF RunInv, ReadingInv, InboxInv
  <2>3. [Durable!Next]_(Durable!dvars)
    BY <2>1, StepsDurably DEF RunInv, ReadingInv
  <2>4. QED
    BY <2>1, <2>2, <2>3
<1>3. QED
  BY <1>1, <1>2, PTL DEF Spec, Durable!Spec, ImplementsDurableExecution

=============================================================================
