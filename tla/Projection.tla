------------------------------ MODULE Projection ------------------------------
(***************************************************************************)
(* The projection of one run into the debugger's tables.  Whoever changes  *)
(* the run writes its status and the newest history id into the run's      *)
(* trace; projectors follow the history row by row and write events and    *)
(* activity spans; purge, repair and retention reduce the trace or ask for *)
(* a rebuild.  All of them serialise on the trace row's lock, but what     *)
(* they write may have been read before they got it.                       *)
(*                                                                         *)
(* Sources: engine/internal/projector/projector.go, engine/pkg/projection, *)
(* internal/enginecontrol/service.go, engine/internal/store/retention.go,  *)
(* and the code that appends to a run's history.                           *)
(***************************************************************************)
EXTENDS Integers, Sequences, FiniteSets

CONSTANTS
    Activities,  \* keys of the activities that the run may schedule, one at a time
    Projectors,  \* the projectors of the runtime processes that are up
    BuildMayMiss,\* some worker's build does not register the run's version
    NoRead,      \* the outcome transaction has not read the run
    Allowed      \* bounds: signals, retries, purges, repairs, crashes

ASSUME MissIsBoolean == BuildMayMiss \in BOOLEAN

BudgetKinds == {"signals", "retries", "purges", "repairs", "crashes"}
ASSUME AllowedBudget == Allowed \in [BudgetKinds -> Nat]

Ends == {"completed", "failed", "cancelled", "terminated"}
Cleanups == {"cancelled", "terminated"}   \* the ends whose projection cleans up
Statuses == {"queued", "running", "waiting"} \cup Ends
Reduced == {"summary_only", "journal_expired"}
Rows == {<<"started", "">>} \cup {<<"ended", end>> : end \in Ends}
        \cup ({"scheduled", "completed", "failed", "retried"} \X Activities)

VARIABLES
    run,        \* status and tasks of the run
    history,    \* every row that was ever appended; a row's id is its position
    deleted,    \* the rows up to this id have been deleted
    trace,      \* the run's row of public.traces, its spans and its span events
    projector,  \* what a projector has selected, before it has the trace's lock
    outcome,    \* the activity of an open outcome transaction, the run's status it has read
    budget

vars == <<run, history, deleted, trace, projector, outcome, budget>>

Tasks == {"none", "open", "succeeded", "failed", "cancelled"}
Span == [status : {"none", "running", "completed", "failed"}, ended : BOOLEAN]
NoSpan == [status |-> "none", ended |-> FALSE]

\* `since' stands for the detail that was deleted: there is none of the rows up to it.
Trace == [state : {"up_to_date", "catching_up"} \cup Reduced,
          latest : Nat, projected : Nat, runStatus : Statuses, status : {"running"} \cup Ends,
          events : SUBSET Nat, spans : [Activities -> Span], since : Nat]

\* A target: the checkpoint and the next row that a projector has read, or 0.
Targets == [from : Nat, row : Nat]
NoTarget == [from |-> 0, row |-> 0]

TypeOK ==
    /\ run \in [status : Statuses, tasks : [Activities -> Tasks]]
    /\ history \in Seq(Rows)
    /\ deleted \in 0 .. Len(history)
    /\ trace \in Trace
    /\ trace.projected <= trace.latest /\ trace.latest <= Len(history)
    /\ projector \in [Projectors -> Targets]
    /\ outcome \in [activity : Activities, status : Statuses] \cup {NoRead}
    /\ budget \in [BudgetKinds -> Nat]

NoSpans == [a \in Activities |-> NoSpan]

\* CreateTraceShell, whether a client, a parent or a continuation starts the run.
TraceShell == [state |-> "up_to_date", latest |-> 1, projected |-> 1, runStatus |-> "queued",
               status |-> "running", events |-> {}, spans |-> NoSpans, since |-> 1]

\* A start creates the run, its first history row and its trace in one transaction.
Init ==
    /\ run = [status |-> "queued", tasks |-> [a \in Activities |-> "none"]]
    /\ history = <<<<"started", "">>>>
    /\ deleted = 0
    /\ trace = TraceShell
    /\ projector = [p \in Projectors |-> NoTarget]
    /\ outcome = NoRead
    /\ budget = Allowed

HasEnded == run.status \in Ends
OpenTasks == {a \in Activities : run.tasks[a] = "open"}
MaxId == IF Len(history) > deleted THEN Len(history) ELSE 0   \* of the rows that exist
Spend(kind) == budget[kind] > 0 /\ budget' = [budget EXCEPT ![kind] = @ - 1]

(***************************************************************************)
(* The run.  Its writers hold the run's lock, and write the trace last.    *)
(***************************************************************************)

\* Mutated: the state is left as it is.
LatestOnly(t, id) == [t EXCEPT !.latest = id]

\* UpdateLatestHistory, for a row that has just been appended.
UpdateLatest(t, id) ==
    [t EXCEPT !.latest = id, !.state = IF t.projected >= id THEN "up_to_date" ELSE "catching_up"]

\* SyncRunSummary: what it writes is a row that the caller has read.
SyncSummary(t, status) == [t EXCEPT !.runStatus = status]

\* Rows are appended, the run gets a status, and its trace follows in one transaction.
Commit(rows, status, tasks) ==
    /\ history' = history \o rows
    /\ run' = [status |-> status, tasks |-> tasks]
    /\ trace' = LET t == SyncSummary(trace, status)
                    u == IF rows = <<>> THEN t ELSE UpdateLatest(t, Len(history'))
                IN IF status \in Ends THEN [u EXCEPT !.status = status] ELSE u
    /\ UNCHANGED <<deleted, projector, outcome>>

ClaimNextRun ==
    /\ run.status = "queued"
    /\ Commit(<<>>, "running", run.tasks)
    /\ UNCHANGED budget

\* The outcome row that the activation writes when its function gets the outcome.
Recorded ==
    LET done == {a \in Activities : /\ run.tasks[a] \in {"succeeded", "failed"}
                                    /\ \A i \in DOMAIN history :
                                         history[i] \notin {<<"completed", a>>, <<"failed", a>>}}
    IN IF done = {} THEN <<>>
       ELSE LET a == CHOOSE a \in done : TRUE
            IN <<<<IF run.tasks[a] = "succeeded" THEN "completed" ELSE "failed", a>>>>

\* An activation waits for the open activity, or schedules one, or completes or fails.
Activate ==
    /\ run.status = "running"
    /\ \/ OpenTasks # {} /\ Commit(<<>>, "waiting", run.tasks)
       \/ /\ OpenTasks = {}
          /\ \E a \in Activities :
               /\ run.tasks[a] = "none"
               /\ Commit(Append(Recorded, <<"scheduled", a>>), "waiting", [run.tasks EXCEPT ![a] = "open"])
       \/ /\ OpenTasks = {}
          /\ \E end \in {"completed", "failed"} :
               Commit(Append(Recorded, <<"ended", end>>), end, run.tasks)
    /\ UNCHANGED budget

\* The worker that has claimed the run does not know its version: the run fails, and
\* its tasks stay as they are.
FailUnregistered ==
    /\ BuildMayMiss
    /\ run.status = "running"
    /\ Commit(<<<<"ended", "failed">>>>, "failed", run.tasks)
    /\ UNCHANGED budget

\* Mutated: open tasks are cancelled past the lock of an outcome transaction.
LocksIgnored == TRUE

\* Cancelling an open task waits for the transaction that stores its outcome.
TasksUnlocked == outcome = NoRead

Cancelled(tasks) == [a \in Activities |-> IF tasks[a] = "open" THEN "cancelled" ELSE tasks[a]]

\* The activation cancels its run, or the API terminates it.
Cancel ==
    /\ run.status = "running" \/ (run.status \in {"queued", "waiting"} /\ budget["signals"] > 0)
    /\ OpenTasks = {} \/ TasksUnlocked
    /\ LET end == IF run.status = "running" THEN "cancelled" ELSE "terminated"
       IN Commit(<<<<"ended", end>>>>, end, Cancelled(run.tasks))
    /\ UNCHANGED budget

\* A signal, or a timer that has come due, wakes a waiting run.
Signal ==
    /\ Spend("signals")
    /\ ~HasEnded
    /\ Commit(<<>>, IF run.status = "waiting" THEN "queued" ELSE run.status, run.tasks)

Outcomes == {"succeeded", "failed"}

\* The outcome of an activity is stored; a waiting run is woken, and its row stays
\* locked until the trace is written.
StoreAndWake ==
    /\ run.status = "waiting"
    /\ outcome = NoRead
    /\ \E a \in OpenTasks, result \in Outcomes :
         Commit(<<>>, "queued", [run.tasks EXCEPT ![a] = result])
    /\ UNCHANGED budget

\* Otherwise the run is read without a lock, ...
ReadForSummary ==
    /\ run.status # "waiting"
    /\ outcome = NoRead
    /\ \E a \in OpenTasks : outcome' = [activity |-> a, status |-> run.status]
    /\ UNCHANGED <<run, history, deleted, trace, projector, budget>>

\* ... and its trace is written when the trace's lock is granted.
StoreAndSync ==
    /\ outcome # NoRead
    /\ \E result \in Outcomes : run' = [run EXCEPT !.tasks[outcome.activity] = result]
    /\ trace' = SyncSummary(trace, outcome.status)
    /\ outcome' = NoRead
    /\ UNCHANGED <<history, deleted, projector, budget>>

\* retryTask: it looks at the task's claim only, and not at the run's status.
Retry ==
    /\ Spend("retries")
    /\ outcome = NoRead
    /\ \E a \in OpenTasks :
         /\ history' = Append(history, <<"retried", a>>)
         /\ trace' = UpdateLatest(trace, Len(history'))
    /\ UNCHANGED <<run, deleted, projector, outcome>>

(***************************************************************************)
(* Projectors.                                                             *)
(***************************************************************************)

\* selectProjectionTarget and the read of the next row, before any lock is held.
Select(p) ==
    LET latest == IF MaxId > 0 THEN MaxId ELSE trace.latest
        next == IF trace.projected >= deleted THEN trace.projected + 1 ELSE deleted + 1
    IN /\ projector[p] = NoTarget
       /\ trace.state \notin Reduced
       /\ trace.projected < latest
       /\ projector' = [projector EXCEPT ![p] =
            [from |-> trace.projected, row |-> IF next <= Len(history) THEN next ELSE 0]]
       /\ UNCHANGED <<run, history, deleted, trace, outcome, budget>>

\* Mutated: a span that exists keeps its status.
FirstStatus(spans, kind, a) ==
    IF spans[a] = NoSpan
    THEN [spans EXCEPT ![a] = [status |-> IF kind = "scheduled" THEN "running" ELSE kind,
                               ended |-> kind # "scheduled"]]
    ELSE spans

\* UpsertActivitySpan: the status is overwritten, an end time is kept.
UpsertSpan(spans, kind, a) ==
    [spans EXCEPT ![a] = [status |-> IF kind = "scheduled" THEN "running" ELSE kind,
                          ended |-> spans[a].ended \/ kind # "scheduled"]]

\* CloseTerminalActivitySpan: UPDATE ... WHERE end_time IS NULL.
CloseTerminalActivitySpan(span) ==
    IF span.status # "none" /\ ~span.ended THEN [status |-> "failed", ended |-> TRUE] ELSE span

\* projectTerminalCleanup, for the tasks that the run's end has cancelled.
CloseSpans(spans) ==
    [a \in Activities |-> IF run.tasks[a] = "cancelled" THEN CloseTerminalActivitySpan(spans[a])
                          ELSE spans[a]]

\* projectActivityScheduled, -Completed and -Failed.
ProjectActivity(t, kind, a) == [t EXCEPT !.spans = UpsertSpan(@, kind, a)]

\* WriteTerminalProjection: the trace and its root span, whose status is the trace's.
WriteTerminalProjection(t, end) == [t EXCEPT !.status = end]

\* projectHistoryRow: an event per row and variant, inserted once.
ProjectRow(t, id) ==
    LET row == history[id]
        u == [t EXCEPT !.events = @ \cup {id}]
    IN CASE row[1] \in {"scheduled", "completed", "failed"} ->
              ProjectActivity(u, row[1], row[2])
         [] row[1] = "ended" ->
              [WriteTerminalProjection(u, row[2]) EXCEPT
                 !.spans = IF row[2] \in Cleanups THEN CloseSpans(@) ELSE @]
         [] OTHER -> u

\* Mutated: the checkpoint stays where it is.
CheckpointKept(t, id) == t

\* AdvanceCheckpoint: the state is computed from the rows that exist.
AdvanceCheckpoint(t, id) ==
    LET projected == IF t.projected < id THEN id ELSE t.projected
    IN [t EXCEPT !.latest = IF @ < MaxId THEN MaxId ELSE @,
                 !.projected = projected,
                 !.state = IF MaxId <= projected THEN "up_to_date" ELSE "catching_up"]

\* WithProjectionBarrier.
Writable(t) == t.state \notin Reduced

\* The projector has the trace's lock: it writes the row, the checkpoint and the run's
\* summary, unless the trace has been reduced since.
Project(p) ==
    /\ projector[p] # NoTarget
    /\ projector' = [projector EXCEPT ![p] = NoTarget]
    /\ trace' = LET target == projector[p]
                IN IF ~Writable(trace) THEN trace
                   ELSE IF target.row = 0 THEN AdvanceCheckpoint(trace, target.from)
                   ELSE SyncSummary(AdvanceCheckpoint(ProjectRow(trace, target.row), target.row),
                                    run.status)
    /\ UNCHANGED <<run, history, deleted, outcome, budget>>

Crash(p) ==
    /\ projector[p] # NoTarget
    /\ Spend("crashes")
    /\ projector' = [projector EXCEPT ![p] = NoTarget]
    /\ UNCHANGED <<run, history, deleted, trace, outcome>>

(***************************************************************************)
(* Purge, repair and retention.                                            *)
(***************************************************************************)

\* EnsureTerminalShell.
TerminalShell(t) == [t EXCEPT !.runStatus = run.status, !.status = run.status]

\* PurgeProjectionDetail and the new state; the checkpoint stays where it is.
Purged(t, state) ==
    [t EXCEPT !.events = {}, !.spans = NoSpans, !.state = state,
              !.since = IF state = "journal_expired" THEN Len(history) ELSE t.projected]

\* PurgeRun, asked for by a client or by the platform's retention job.
PurgeRun(mode) ==
    /\ HasEnded
    /\ Spend("purges")
    /\ LET kept == IF mode = "full" THEN {"journal_expired"} ELSE Reduced
       IN \/ /\ trace.state \in kept
             /\ trace' = TerminalShell(trace)
             /\ UNCHANGED deleted
          \/ /\ trace.state \notin kept
             /\ trace' = Purged(TerminalShell(trace),
                                IF mode = "full" THEN "journal_expired" ELSE "summary_only")
             /\ deleted' = IF mode = "full" THEN Len(history) ELSE deleted
    /\ UNCHANGED <<run, history, projector, outcome>>

\* RepairRun, alone or for a candidate of a backfill.
RepairRun ==
    /\ Spend("repairs")
    /\ trace.state = "summary_only"
    /\ trace.projected < MaxId
    /\ trace' = [trace EXCEPT !.state = "catching_up"]
    /\ UNCHANGED <<run, history, deleted, projector, outcome>>

\* GetRetainableTerminalRunForUpdate; the row locks hold until the commit.
Retainable(t) == t.projected >= t.latest /\ t.state # "journal_expired"

\* ReapTerminalRunJournal: the engine's retention deletes history, inbox and tasks, and
\* leaves the projected detail.
Reap ==
    /\ HasEnded
    /\ outcome = NoRead
    /\ Retainable(trace)
    /\ deleted' = Len(history)
    /\ run' = [run EXCEPT !.tasks = [a \in Activities |-> "none"]]
    /\ trace' = [trace EXCEPT !.state = "journal_expired"]
    /\ UNCHANGED <<history, projector, outcome, budget>>

RunStep == ClaimNextRun \/ Activate \/ FailUnregistered \/ Cancel
OutcomeStep == StoreAndWake \/ ReadForSummary \/ StoreAndSync
ControlStep == Signal \/ Retry \/ RepairRun \/ \E mode \in {"projection_only", "full"} : PurgeRun(mode)

Next ==
    \/ RunStep
    \/ OutcomeStep
    \/ ControlStep
    \/ Reap
    \/ \E p \in Projectors : Select(p) \/ Project(p) \/ Crash(p)

\* Projectors poll for ever.
Fairness == \A p \in Projectors : WF_vars(Select(p)) /\ WF_vars(Project(p))

Spec == Init /\ [][Next]_vars /\ Fairness
=============================================================================
