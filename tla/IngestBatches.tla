---------------------------- MODULE IngestBatches ----------------------------
(***************************************************************************)
(* Ingestion of telemetry: a batch is written inline by the request that   *)
(* brings it, or accepted with its payload and written by a background     *)
(* job; either way in one transaction, at most once per batch key, and     *)
(* with rollup jobs that recompute the aggregates of the traces it names.  *)
(*                                                                         *)
(* Sources: internal/ingest/{service,processor}.go, internal/jobs/         *)
(* {ingest_batch,trace_rollup,cleanup}.go, internal/jobargs, the queries   *)
(* of db/platform/queries/{batches,traces,spans,rollups}.sql.  The job     *)
(* queue (River) is external: a job that fails or whose process dies is    *)
(* run again, and a job has one execution at a time.                       *)
(***************************************************************************)
EXTENDS Integers, FiniteSets

CONSTANTS
    Keys,       \* batch keys of one project
    Clients,    \* requests in flight at a time
    Traces,     \* external trace ids
    Rank,       \* their order
    Defines,    \* the traces that a batch carries itself, by batch key
    Refers,     \* those that it or its spans name
    Modes,      \* how requests are sent: "sync", "async"
    None,       \* no batch key
    ConflictAttempts, MaxRollupLoops,
    Allowed     \* bounds: conflicts (lost deadlocks), crashes (of a process or
                \* a connection)

ASSUME RankOrders == \A s, t \in Traces : Rank[s] \in Int /\ (Rank[s] = Rank[t] => s = t)
ASSUME BatchesAreTraces == \A k \in Keys : Refers[k] \subseteq Traces /\ Defines[k] \subseteq Refers[k]
ASSUME NamesAreDistinct == Keys \cap Clients = {} /\ None \notin Keys
ASSUME Limits == ConflictAttempts \in Nat \ {0} /\ MaxRollupLoops \in Nat \ {0}

BudgetKinds == {"conflicts", "crashes"}
ASSUME AllowedBudget == Allowed \in [BudgetKinds -> Nat] /\ Modes \subseteq {"sync", "async"}

VARIABLES
    batch,     \* ingest_batches
    payload,   \* the keys of ingest_batch_payloads
    job,       \* the ingest_batch job of a batch
    trace,     \* traces, with their spans and their aggregate
    tx,        \* what a client's request, or a batch's job, is doing
    rollup,    \* the trace_rollup job of a trace
    budget

vars == <<batch, payload, job, trace, tx, rollup, budget>>

\* A batch row.  `late': its reference_timeout has passed.  `written' counts the
\* transactions that have committed its content.
BatchStatuses == {"none", "queued", "processing", "completed", "failed"}
Batch == [status : BatchStatuses, late : BOOLEAN, written : Nat]
Finished == {"completed", "failed"}

\* A trace row: its spans, and those that its aggregate counts, by the batch they
\* came with.
Trace == [exists : BOOLEAN, version : Nat, spans : SUBSET Keys, total : SUBSET Keys]

\* A request (of a client) or an execution (of a batch's job).  `locked': the trace
\* rows its transaction has locked; `enqueued': the rollup jobs it has inserted.
Processes == Clients \cup Keys
Stages == {"idle", "claiming", "loading", "locking", "committing", "unsure", "requeueing",
           "failing", "returning"}
Transaction == [stage : Stages, key : Keys \cup {None}, attempt : 0..ConflictAttempts,
                locked : SUBSET Traces, enqueued : SUBSET Traces]
Idle == [stage |-> "idle", key |-> None, attempt |-> 0, locked |-> {}, enqueued |-> {}]

JobStates == {"none", "available", "running"}
Rollup == [job : JobStates, stage : {"idle", "read", "computed", "updated", "returning"},
           before : Nat, sum : SUBSET Keys, loops : 0..MaxRollupLoops]
NoRollup == [job |-> "none", stage |-> "idle", before |-> 0, sum |-> {}, loops |-> 0]

TypeOK ==
    /\ batch \in [Keys -> Batch]
    /\ payload \subseteq Keys
    /\ job \in [Keys -> JobStates]
    /\ trace \in [Traces -> Trace]
    /\ tx \in [Processes -> Transaction]
    /\ rollup \in [Traces -> Rollup]
    /\ budget \in [BudgetKinds -> Nat]

Init ==
    /\ batch = [k \in Keys |-> [status |-> "none", late |-> FALSE, written |-> 0]]
    /\ payload = {}
    /\ job = [k \in Keys |-> "none"]
    /\ trace = [t \in Traces |-> [exists |-> FALSE, version |-> 0, spans |-> {}, total |-> {}]]
    /\ tx = [p \in Processes |-> Idle]
    /\ rollup = [t \in Traces |-> NoRollup]
    /\ budget = Allowed

Move(p, stage) == tx' = [tx EXCEPT ![p].stage = stage]
\* A rollback gives up the locks and the rollup jobs; the process goes on with `stage'.
RollBack(p, stage) ==
    tx' = [tx EXCEPT ![p].stage = stage, ![p].locked = {}, ![p].enqueued = {}]
Spend(kind) == budget[kind] > 0 /\ budget' = [budget EXCEPT ![kind] = @ - 1]
MarkBatch(k, status) == batch' = [batch EXCEPT ![k].status = status]

---------------------------------------------------------------------------
(* Requests *)

\* A request that has inserted the row and not committed: the next insert waits for it.
ClaimPending(k) == \E c \in Clients : tx[c].key = k /\ tx[c].stage \in {"locking", "committing"}

\* Mutated: the existing row is taken for an insert.
InsertedOrNot(k) == TRUE
\* ClaimBatchOrGetExisting inserts the row; any other request is answered "duplicate"
\* and changes nothing.
Inserted(k) == batch[k].status = "none"

\* Ingest: the claim begins the transaction that writes the batch.
Ingest(c, k) ==
    /\ "sync" \in Modes /\ tx[c].stage = "idle"
    /\ ~ClaimPending(k) /\ Inserted(k)
    /\ tx' = [tx EXCEPT ![c] = [Idle EXCEPT !.stage = "locking", !.key = k, !.attempt = 1]]
    /\ UNCHANGED <<batch, payload, job, trace, rollup, budget>>

\* retryOnConflict: the next attempt claims afresh, or finds a duplicate by now.
IngestAgain(c) ==
    /\ tx[c].stage = "claiming" /\ ~ClaimPending(tx[c].key)
    /\ IF Inserted(tx[c].key) THEN Move(c, "locking") ELSE tx' = [tx EXCEPT ![c] = Idle]
    /\ UNCHANGED <<batch, payload, job, trace, rollup, budget>>

\* AcceptAsync: the row, the payload and the job become visible together.
AcceptAsync(c, k) ==
    /\ "async" \in Modes /\ tx[c].stage = "idle"
    /\ ~ClaimPending(k) /\ Inserted(k)
    /\ MarkBatch(k, "queued")
    /\ payload' = payload \cup {k}
    /\ job' = [job EXCEPT ![k] = "available"]
    /\ UNCHANGED <<trace, tx, rollup, budget>>

\* retryOnConflict gives up.
LastAttempt(c) == tx[c].attempt = ConflictAttempts

\* Postgres aborts a transaction that is in a deadlock with a terminate or a project
\* deletion: a request starts again or gives up, a job goes back to the queue.
Conflict(p) ==
    /\ tx[p].stage = "locking" /\ Spend("conflicts")
    /\ IF p \in Keys
       THEN RollBack(p, "requeueing")
       ELSE tx' = [tx EXCEPT ![p] = IF LastAttempt(p) THEN Idle
                                    ELSE [Idle EXCEPT !.stage = "claiming", !.key = tx[p].key,
                                                      !.attempt = tx[p].attempt + 1]]
    /\ UNCHANGED <<batch, payload, job, trace, rollup>>

---------------------------------------------------------------------------
(* The write path that both share: ProcessBatch *)

Unlocked(t) == \A p \in Processes : t \notin tx[p].locked

\* Mutated: traces are locked in the order of the request.
AnyOrder(p, t) == t \in Refers[tx[p].key] \ tx[p].locked
\* lockTraces goes through the traces in the order of their external ids.
NextTrace(p, t) ==
    /\ t \in Refers[tx[p].key] \ tx[p].locked
    /\ \A s \in Refers[tx[p].key] \ tx[p].locked : Rank[t] <= Rank[s]

\* A trace that the batch only refers to must be visible.
Missing(p, t) == t \notin Defines[tx[p].key] /\ ~trace[t].exists

LockTrace(p, t) ==
    /\ tx[p].stage = "locking" /\ NextTrace(p, t)
    /\ ~Missing(p, t) /\ Unlocked(t)
    /\ tx' = [tx EXCEPT ![p].locked = @ \cup {t}]
    /\ UNCHANGED <<batch, payload, job, trace, rollup, budget>>

\* DependencyNotReadyError: invalid for a request; a job waits for it until the
\* reference_timeout.
DependencyNotReady(p, t) ==
    /\ tx[p].stage = "locking" /\ NextTrace(p, t) /\ Missing(p, t)
    /\ IF p \in Clients THEN tx' = [tx EXCEPT ![p] = Idle]
       ELSE RollBack(p, IF batch[p].late THEN "failing" ELSE "requeueing")
    /\ UNCHANGED <<batch, payload, job, trace, rollup, budget>>

\* Spans and events are written and rollups enqueued: an insert is skipped where the
\* trace has an active job (ActiveUniqueStates, which a running job belongs to).
Write(p) ==
    /\ tx[p].stage = "locking" /\ tx[p].locked = Refers[tx[p].key]
    /\ tx' = [tx EXCEPT ![p].stage = "committing",
                        ![p].enqueued = {t \in tx[p].locked : rollup[t].job = "none"}]
    /\ UNCHANGED <<batch, payload, job, trace, rollup, budget>>

\* What a committed batch leaves.
Apply(p) ==
    LET k == tx[p].key
    IN /\ trace' = [t \in Traces |->
                       IF t \in tx[p].locked
                       THEN [trace[t] EXCEPT !.exists = TRUE, !.version = @ + 1, !.spans = @ \cup {k}]
                       ELSE trace[t]]
       /\ rollup' = [t \in Traces |->
                       IF t \in tx[p].enqueued THEN [rollup[t] EXCEPT !.job = "available"]
                       ELSE rollup[t]]
       /\ batch' = [batch EXCEPT ![k].status = "completed", ![k].written = @ + 1]
       /\ payload' = payload \ {k}

Commit(p) ==
    /\ tx[p].stage = "committing"
    /\ Apply(p)
    /\ IF p \in Clients THEN tx' = [tx EXCEPT ![p] = Idle] ELSE RollBack(p, "returning")
    /\ UNCHANGED <<job, budget>>

---------------------------------------------------------------------------
(* The job of an accepted batch: IngestBatchWorker.Work *)

\* The rows that claimBatch lets a job work on.
Processable(k) == batch[k].status \notin Finished

\* claimBatch: a batch that is processing is resumed, one that has ended is left alone.
ClaimBatch(k) ==
    /\ job[k] = "available"
    /\ job' = [job EXCEPT ![k] = "running"]
    /\ tx' = [tx EXCEPT ![k] = [Idle EXCEPT !.key = k,
                 !.stage = IF Processable(k) THEN "loading" ELSE "returning"]]
    /\ IF batch[k].status = "queued" THEN MarkBatch(k, "processing") ELSE UNCHANGED batch
    /\ UNCHANGED <<payload, trace, rollup, budget>>

\* loadRequest: without its payload a batch is lost.
LoadRequest(k) ==
    /\ tx[k].stage = "loading"
    /\ Move(k, IF k \in payload THEN "locking" ELSE "failing")
    /\ UNCHANGED <<batch, payload, job, trace, rollup, budget>>

\* Any error of the read is taken for a terminal one.
LoadFails(k) ==
    /\ tx[k].stage = "loading" /\ Spend("crashes")
    /\ Move(k, "failing")
    /\ UNCHANGED <<batch, payload, job, trace, rollup>>

\* The connection breaks during COMMIT, which has taken effect or not.
CommitLost(p) ==
    /\ tx[p].stage = "committing" /\ Spend("crashes")
    /\ \/ Apply(p)
       \/ UNCHANGED <<batch, payload, trace, rollup>>
    /\ IF p \in Clients THEN tx' = [tx EXCEPT ![p] = Idle] ELSE RollBack(p, "unsure")
    /\ UNCHANGED job

\* Mutated: the error of a commit is only logged.
ErrorSwallowed(k) == "returning"
\* resolveCommitOutcome: a batch that has ended is done with; otherwise the error is
\* returned, and the job runs again.
Resolved(k) ==
    IF batch[k].status = "failed" \/ (batch[k].status = "completed" /\ k \notin payload)
    THEN "returning" ELSE "idle"

Return(k, stage) ==
    IF stage = "idle"
    THEN job' = [job EXCEPT ![k] = "available"] /\ tx' = [tx EXCEPT ![k] = Idle]
    ELSE UNCHANGED job /\ Move(k, stage)

ResolveCommitOutcome(k) ==
    /\ tx[k].stage = "unsure"
    /\ Return(k, Resolved(k))
    /\ UNCHANGED <<batch, payload, trace, rollup, budget>>

\* retryBatch: the batch is queued again, and the error makes the job run again.
RetryBatch(k) ==
    /\ tx[k].stage = "requeueing"
    /\ MarkBatch(k, "queued")
    /\ Return(k, "idle")
    /\ UNCHANGED <<payload, trace, rollup, budget>>

\* finishTerminalFailure
FinishTerminalFailure(k) ==
    /\ tx[k].stage = "failing"
    /\ MarkBatch(k, "failed") /\ Move(k, "returning")
    /\ UNCHANGED <<payload, job, trace, rollup, budget>>

\* The queue takes note that the job has returned without an error.
JobCompleted(k) ==
    /\ tx[k].stage = "returning"
    /\ job' = [job EXCEPT ![k] = "none"] /\ tx' = [tx EXCEPT ![k] = Idle]
    /\ UNCHANGED <<batch, payload, trace, rollup, budget>>

\* A process dies, or a job's context times out (then no later statement of the job
\* gets through either): its transaction is rolled back, the job rescued.
Crash(p) ==
    /\ tx[p].stage # "idle" /\ Spend("crashes")
    /\ tx' = [tx EXCEPT ![p] = Idle]
    /\ job' = IF p \in Keys THEN [job EXCEPT ![p] = "available"] ELSE job
    /\ UNCHANGED <<batch, payload, trace, rollup>>

\* server_received_at + DependencyRetryWindow passes.
ReferenceTimeout(k) ==
    /\ batch[k].status \in {"queued", "processing"} /\ ~batch[k].late
    /\ batch' = [batch EXCEPT ![k].late = TRUE]
    /\ UNCHANGED <<payload, job, trace, tx, rollup, budget>>

\* Mutated: a payload expires whatever became of its batch.
Old(k) == k \in payload
\* A payload that is old enough, of a batch that has failed.
Expired(k) == k \in payload /\ batch[k].status = "failed"

\* CleanupExpiredPayloads
Cleanup(k) ==
    /\ Expired(k)
    /\ payload' = payload \ {k}
    /\ UNCHANGED <<batch, job, trace, tx, rollup, budget>>

---------------------------------------------------------------------------
(* The rollup of a trace: TraceRollupWorker.Work *)

RollupMoves(t, stage) == rollup' = [rollup EXCEPT ![t].stage = stage]

\* Each pass begins with a read of the version.
Pass(t, loops) ==
    [NoRollup EXCEPT !.job = "running", !.stage = "read", !.before = trace[t].version, !.loops = loops]

StartRollup(t) ==
    /\ rollup[t].job = "available"
    /\ rollup' = [rollup EXCEPT ![t] = Pass(t, 0)]
    /\ UNCHANGED <<batch, payload, job, trace, tx, budget>>

ComputeTraceRollups(t) ==
    /\ rollup[t].stage = "read"
    /\ rollup' = [rollup EXCEPT ![t].stage = "computed", ![t].sum = trace[t].spans]
    /\ UNCHANGED <<batch, payload, job, trace, tx, budget>>

\* The update waits for a batch that has locked the trace.
UpdateTraceRollups(t) ==
    /\ rollup[t].stage = "computed" /\ Unlocked(t)
    /\ trace' = [trace EXCEPT ![t].total = rollup[t].sum]
    /\ RollupMoves(t, "updated")
    /\ UNCHANGED <<batch, payload, job, tx, budget>>

\* Mutated: one pass is taken for enough.
ChangeIgnored(t) == FALSE
\* The version has risen since the pass began.
Changed(t) == trace[t].version > rollup[t].before

\* A trace that changed is rolled up again, a bounded number of times.
CheckVersion(t) ==
    LET loops == rollup[t].loops + 1
    IN /\ rollup[t].stage = "updated"
       /\ rollup' = [rollup EXCEPT ![t] =
             IF Changed(t) /\ loops < MaxRollupLoops THEN Pass(t, loops)
             ELSE [@ EXCEPT !.stage = "returning", !.loops = loops]]
       /\ UNCHANGED <<batch, payload, job, trace, tx, budget>>

RollupCompleted(t) ==
    /\ rollup[t].stage = "returning"
    /\ rollup' = [rollup EXCEPT ![t] = NoRollup]
    /\ UNCHANGED <<batch, payload, job, trace, tx, budget>>

\* The job fails or its process dies.
RollupFails(t) ==
    /\ rollup[t].stage # "idle" /\ Spend("crashes")
    /\ rollup' = [rollup EXCEPT ![t] = [NoRollup EXCEPT !.job = "available"]]
    /\ UNCHANGED <<batch, payload, job, trace, tx>>

---------------------------------------------------------------------------
WritePath(p) ==
    \/ \E t \in Traces : LockTrace(p, t) \/ DependencyNotReady(p, t)
    \/ Write(p)
    \/ Commit(p)

JobStep(k) ==
    \/ ClaimBatch(k) \/ LoadRequest(k)
    \/ WritePath(k)
    \/ ResolveCommitOutcome(k) \/ RetryBatch(k) \/ FinishTerminalFailure(k)
    \/ JobCompleted(k)

RollupStep(t) ==
    \/ StartRollup(t) \/ ComputeTraceRollups(t)
    \/ UpdateTraceRollups(t) \/ CheckVersion(t) \/ RollupCompleted(t)

Next ==
    \/ \E c \in Clients, k \in Keys : Ingest(c, k) \/ AcceptAsync(c, k)
    \/ \E c \in Clients : IngestAgain(c) \/ WritePath(c)
    \/ \E k \in Keys : JobStep(k) \/ LoadFails(k) \/ ReferenceTimeout(k) \/ Cleanup(k)
    \/ \E p \in Processes : Conflict(p) \/ CommitLost(p) \/ Crash(p)
    \/ \E t \in Traces : RollupStep(t) \/ RollupFails(t)

\* Requests that were begun go on, the queue runs its jobs and repeats those that
\* failed, and time passes.
Fairness ==
    /\ \A c \in Clients : WF_vars(IngestAgain(c) \/ WritePath(c))
    /\ \A k \in Keys : WF_vars(JobStep(k)) /\ WF_vars(ReferenceTimeout(k))
    /\ \A t \in Traces : WF_vars(RollupStep(t))

Spec == Init /\ [][Next]_vars /\ Fairness
=============================================================================
