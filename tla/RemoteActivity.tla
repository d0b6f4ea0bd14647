--------------------------- MODULE RemoteActivity ----------------------------
(***************************************************************************)
(* The protocol by which workers outside the engine execute the activities *)
(* of one run: they claim tasks over HTTP, prove with heartbeats that they *)
(* are alive, and report an outcome, which the engine accepts until a      *)
(* grace period after the lease.  Requests and answers get lost or late; a *)
(* worker that misses an answer gives up, and is started again.            *)
(*                                                                         *)
(* Sources: internal/api/engine_activities.go, the remote queries of       *)
(* engine/db/queries/activity_tasks.sql, sdks/python/.../worker.py.        *)
(***************************************************************************)
EXTENDS Integers, Sequences, FiniteSets

CONSTANTS
    Tasks,        \* the run's remote activity tasks
    Workers,      \* worker processes
    KeepsId,      \* a worker that is started again has the worker_id it had before
    Slots,        \* a worker's concurrency_limit
    MaxAttempts,  \* a task's max_attempts
    Allowed       \* bounds: failures (crashes, lost requests and answers, shutdowns),
                  \* lateness (ends of leases that a worker is using), terminates

ASSUME KeepsIdIsBoolean == KeepsId \in BOOLEAN
ASSUME Limits == Slots \in Nat \ {0} /\ MaxAttempts \in Nat \ {0}
ASSUME TasksAreFinite == IsFiniteSet(Tasks)
ASSUME NobodyIsNoWorker == "nobody" \notin Workers

BudgetKinds == {"failures", "lateness", "terminates"}
ASSUME AllowedBudget == Allowed \in [BudgetKinds -> Nat]

VARIABLES
    task,      \* engine.activity_tasks rows
    retries,   \* failed_attempt of the run's activity.retry_scheduled rows, by task
    worker,    \* the worker processes
    requests,  \* requests on their way to the server
    budget

vars == <<task, retries, worker, requests, budget>>

Results == {"ok", "error", "fatal"}
Nobody == <<"nobody", 0>>
Ids == (Workers \X Nat) \cup {Nobody}

\* A task row.  Its lease is live, or over for less than the completion grace, or
\* for longer; the number of its claims is its attempt_count.  `reported' is the
\* claim whose execution produced the outcome that is stored.
Task == [status : {"queued", "claimed", "completed", "failed", "cancelled"},
         claimedBy : Ids, lease : {"none", "live", "grace", "over"},
         attempts : Nat, reported : Nat]
NewTask == [status |-> "queued", claimedBy |-> Nobody, lease |-> "none",
            attempts |-> 0, reported |-> 0]
IsEnded(t) == task[t].status \in {"completed", "failed", "cancelled"}

\* What a worker has of a task: nothing, or an execution for one of its claims.
Execution == [claim : Nat, result : {"none"} \cup Results, lost : BOOLEAN]
NoExecution == [claim |-> 0, result |-> "none", lost |-> FALSE]

\* The worker's loop is one thread: it sends a request and waits for its answer.
Kinds == {"claim", "heartbeat", "complete", "fail"}
Request == [kind : Kinds, from : Ids, task : Tasks \cup {"none"},
            claim : Nat, fatal : BOOLEAN, slots : Nat]

Worker == [up : BOOLEAN, draining : BOOLEAN, started : Nat,
           inFlight : [Tasks -> Execution], waiting : BOOLEAN]
Idle == [t \in Tasks |-> NoExecution]

TypeOK ==
    /\ \A t \in Tasks :
         /\ task[t].status = "claimed" <=> task[t].claimedBy # Nobody
         /\ task[t].status = "claimed" <=> task[t].lease # "none"
    /\ task \in [Tasks -> Task]
    /\ retries \in [Tasks -> Seq(Nat)]
    /\ worker \in [Workers -> Worker]
    /\ requests \subseteq Request
    /\ budget \in [BudgetKinds -> Nat]

Init ==
    /\ task = [t \in Tasks |-> NewTask]
    /\ retries = [t \in Tasks |-> <<>>]
    /\ worker = [w \in Workers |-> [up |-> TRUE, draining |-> FALSE, started |-> 0,
                                    inFlight |-> Idle, waiting |-> FALSE]]
    /\ requests = {}
    /\ budget = Allowed

Id(w) == <<w, IF KeepsId THEN 0 ELSE worker[w].started>>
InFlight(w) == {t \in Tasks : worker[w].inFlight[t] # NoExecution}

(***************************************************************************)
(* The worker process.                                                     *)
(***************************************************************************)

Loops(w) == worker[w].up /\ ~worker[w].waiting

Send(w, kind, t, fatal, slots, inFlight) ==
    LET claim == IF t \in Tasks THEN worker[w].inFlight[t].claim ELSE 0
    IN /\ requests' = requests \cup
            {[kind |-> kind, from |-> Id(w), task |-> t, claim |-> claim,
              fatal |-> fatal, slots |-> slots]}
       /\ worker' = [worker EXCEPT ![w].waiting = TRUE, ![w].inFlight = inFlight]
       /\ UNCHANGED <<task, retries, budget>>

\* poll_once: claim as many tasks as there are free slots.
SendClaim(w) ==
    /\ Loops(w)
    /\ ~worker[w].draining
    /\ Cardinality(InFlight(w)) < Slots
    /\ Send(w, "claim", "none", FALSE, Slots - Cardinality(InFlight(w)), worker[w].inFlight)

\* _tick_heartbeats.
SendHeartbeat(w, t) ==
    /\ Loops(w)
    /\ t \in InFlight(w)
    /\ worker[w].inFlight[t].result = "none"
    /\ ~worker[w].inFlight[t].lost
    /\ Send(w, "heartbeat", t, FALSE, 0, worker[w].inFlight)

\* A handler returns, raises, or raises NonRetryableError, in a thread of its own.
Finish(w, t, result) ==
    /\ worker[w].up
    /\ t \in InFlight(w)
    /\ worker[w].inFlight[t].result = "none"
    /\ worker' = [worker EXCEPT ![w].inFlight[t].result = result]
    /\ UNCHANGED <<task, retries, requests, budget>>

HasLost(w, t) == worker[w].inFlight[t].lost

\* _drain_finished: the finished task is forgotten first, and then reported unless
\* its lease was lost.
SendOutcome(w, t) ==
    /\ Loops(w)
    /\ t \in InFlight(w)
    /\ worker[w].inFlight[t].result # "none"
    /\ ~HasLost(w, t)
    /\ LET result == worker[w].inFlight[t].result
       IN Send(w, IF result = "ok" THEN "complete" ELSE "fail", t, result = "fatal", 0,
               [worker[w].inFlight EXCEPT ![t] = NoExecution])

DropLost(w, t) ==
    /\ Loops(w)
    /\ t \in InFlight(w)
    /\ worker[w].inFlight[t].result # "none"
    /\ HasLost(w, t)
    /\ worker' = [worker EXCEPT ![w].inFlight[t] = NoExecution]
    /\ UNCHANGED <<task, retries, requests, budget>>

\* stop: the loop ends, and wait_for_idle goes on with heartbeats and reports.
Drain(w) ==
    /\ worker[w].up
    /\ ~worker[w].draining
    /\ budget["failures"] > 0
    /\ budget' = [budget EXCEPT !["failures"] = @ - 1]
    /\ worker' = [worker EXCEPT ![w].draining = TRUE]
    /\ UNCHANGED <<task, retries, requests>>

Leave(w) == [worker EXCEPT ![w].up = FALSE, ![w].waiting = FALSE, ![w].inFlight = Idle]

\* run returns when the worker is idle, or when its shutdown timeout is over.
Exit(w) ==
    /\ Loops(w)
    /\ worker[w].draining
    /\ worker' = Leave(w)
    /\ UNCHANGED <<task, retries, requests, budget>>

\* A crash, or a request without an answer: run raises NetworkError and the process
\* ends.  The request may still be on its way.
Fail(w) ==
    /\ worker[w].up
    /\ budget["failures"] > 0
    /\ budget' = [budget EXCEPT !["failures"] = @ - 1]
    /\ worker' = Leave(w)
    /\ UNCHANGED <<task, retries, requests>>

\* Whoever runs the workers starts another one.
Restart(w) ==
    /\ ~worker[w].up
    /\ worker' = [worker EXCEPT ![w].up = TRUE, ![w].draining = FALSE, ![w].started = @ + 1]
    /\ UNCHANGED <<task, retries, requests, budget>>

(***************************************************************************)
(* The server's handlers; each is one transaction.                         *)
(***************************************************************************)

\* The process that waits for the answer to a request, if it is still there.
Asker(q) == {w \in Workers : worker[w].up /\ worker[w].waiting /\ Id(w) = q.from}
Answer(q, inFlight(_)) ==
    worker' = [w \in Workers |->
                 IF w \in Asker(q)
                 THEN [worker[w] EXCEPT !.waiting = FALSE, !.inFlight = inFlight(w)]
                 ELSE worker[w]]

\* Mutated: a claim whose lease is over is never given to somebody else.
NeverReclaimed(t) == task[t].status = "queued"

Claimable(t) ==
    \/ task[t].status = "queued"
    \/ task[t].status = "claimed" /\ task[t].lease \in {"grace", "over"}

\* ClaimRemoteActivityTasks: as many tasks as were asked for (a retry's delay is
\* taken as over); the completion grace does not protect a claim.
\* _dispatch_task starts an execution for every task of the answer.
ServeClaim(q) ==
    /\ q.kind = "claim"
    /\ \E S \in SUBSET {t \in Tasks : Claimable(t)} :
         /\ \/ Cardinality(S) = q.slots
            \/ Cardinality(S) < q.slots /\ \A t \in Tasks \ S : ~Claimable(t)
         /\ task' = [t \in Tasks |->
                       IF t \in S
                       THEN [task[t] EXCEPT !.status = "claimed", !.claimedBy = q.from,
                                            !.lease = "live", !.attempts = @ + 1]
                       ELSE task[t]]
         /\ Answer(q, LAMBDA w : [t \in Tasks |->
                IF t \in S THEN [NoExecution EXCEPT !.claim = task[t].attempts + 1]
                           ELSE worker[w].inFlight[t]])
    /\ UNCHANGED retries

\* Mutated: any claimed task will do.
AnyClaim(q, leases) == task[q.task].status = "claimed" /\ task[q.task].lease \in leases

\* The fence of every request about a claimed task.
Owned(q, leases) ==
    /\ task[q.task].status = "claimed"
    /\ task[q.task].claimedBy = q.from
    /\ task[q.task].lease \in leases

\* 409: _mark_lost.  An outcome has left the worker's table already.
Conflict(q) ==
    Answer(q, LAMBDA w : IF q.kind = "heartbeat"
                         THEN [worker[w].inFlight EXCEPT ![q.task].lost = TRUE]
                         ELSE worker[w].inFlight)
Accepted(q) == Answer(q, LAMBDA w : worker[w].inFlight)

ServeHeartbeat(q) ==
    /\ q.kind = "heartbeat"
    /\ \/ /\ Owned(q, {"live"})
          /\ task' = [task EXCEPT ![q.task].lease = "live"]
          /\ Accepted(q)
       \/ /\ ~Owned(q, {"live"})
          /\ Conflict(q)
          /\ UNCHANGED task
    /\ UNCHANGED retries

\* A row that is no longer claimed.
Released(row, status, claim) ==
    [row EXCEPT !.status = status, !.claimedBy = Nobody, !.lease = "none", !.reported = claim]

ServeComplete(q) ==
    /\ q.kind = "complete"
    /\ \/ /\ Owned(q, {"live", "grace"})
          /\ task' = [task EXCEPT ![q.task] = Released(@, "completed", q.claim)]
          /\ Accepted(q)
       \/ /\ ~Owned(q, {"live", "grace"})
          /\ Conflict(q)
          /\ UNCHANGED task
    /\ UNCHANGED retries

\* Mutated: an attempt too many is retried.
MayRetryOnceMore(q) == ~q.fatal /\ task[q.task].attempts <= MaxAttempts

MayRetry(q) == ~q.fatal /\ task[q.task].attempts < MaxAttempts

\* FailRemoteActivityTask: a retry is recorded in the run's history.
ServeFail(q) ==
    /\ q.kind = "fail"
    /\ \/ /\ Owned(q, {"live", "grace"})
          /\ MayRetry(q)
          /\ task' = [task EXCEPT ![q.task] = Released(@, "queued", q.claim)]
          /\ retries' = [retries EXCEPT ![q.task] = Append(@, task[q.task].attempts)]
          /\ Accepted(q)
       \/ /\ Owned(q, {"live", "grace"})
          /\ ~MayRetry(q)
          /\ task' = [task EXCEPT ![q.task] = Released(@, "failed", q.claim)]
          /\ Accepted(q)
          /\ UNCHANGED retries
       \/ /\ ~Owned(q, {"live", "grace"})
          /\ Conflict(q)
          /\ UNCHANGED <<task, retries>>

Serve(q) ==
    /\ q \in requests
    /\ requests' = requests \ {q}
    /\ ServeClaim(q) \/ ServeHeartbeat(q) \/ ServeComplete(q) \/ ServeFail(q)
    /\ UNCHANGED budget

\* A request that never reaches the server; its sender will find out by itself.
Lose(q) ==
    /\ q \in requests
    /\ Asker(q) = {}
    /\ requests' = requests \ {q}
    /\ UNCHANGED <<task, retries, worker, budget>>

CancelledByTerminate(t) == task[t].status \in {"queued", "claimed"}

\* The run is terminated: CancelOpenActivityTasksByRun.
Terminate ==
    /\ budget["terminates"] > 0
    /\ budget' = [budget EXCEPT !["terminates"] = @ - 1]
    /\ task' = [t \in Tasks |->
                  IF CancelledByTerminate(t)
                  THEN [task[t] EXCEPT !.status = "cancelled", !.claimedBy = Nobody, !.lease = "none"]
                  ELSE task[t]]
    /\ UNCHANGED <<retries, worker, requests>>

\* Some process executes the task, or waits for the answer to a request about it.
Using(t) ==
    \E w \in Workers :
        /\ worker[w].up
        /\ \/ t \in InFlight(w) /\ ~HasLost(w, t)
           \/ worker[w].waiting /\ \E q \in requests : q.from = Id(w) /\ q.task = t

\* Time passes, and with it a lease and its grace.
LeaseRunsOut(t) ==
    /\ task[t].lease \in {"live", "grace"}
    /\ task' = [task EXCEPT ![t].lease = IF @ = "live" THEN "grace" ELSE "over"]
    /\ UNCHANGED <<retries, worker, requests>>

LeaseEnds(t) == ~Using(t) /\ LeaseRunsOut(t) /\ UNCHANGED budget

\* A heartbeat or an outcome comes too late.
LeaseEndsEarly(t) ==
    /\ Using(t)
    /\ budget["lateness"] > 0
    /\ budget' = [budget EXCEPT !["lateness"] = @ - 1]
    /\ LeaseRunsOut(t)

WorkerStep(w) ==
    \/ SendClaim(w)
    \/ \E t \in Tasks : SendHeartbeat(w, t) \/ SendOutcome(w, t) \/ DropLost(w, t)
    \/ \E t \in Tasks, result \in Results : Finish(w, t, result)
    \/ Exit(w)

Next ==
    \/ \E w \in Workers : WorkerStep(w) \/ Drain(w) \/ Fail(w) \/ Restart(w)
    \/ \E q \in requests : Serve(q) \/ Lose(q)
    \/ \E t \in Tasks : LeaseEnds(t) \/ LeaseEndsEarly(t)
    \/ Terminate

ServeOneOf(w) == \E q \in requests : q.from[1] = w /\ Serve(q)

\* Handlers return, the loop reports what has finished and asks for more, the server
\* answers, workers are started again, and leases that nobody uses end.
Fairness ==
    /\ \A w \in Workers :
         /\ WF_vars(Restart(w))
         /\ WF_vars(Exit(w))
         /\ SF_vars(SendClaim(w))
         /\ WF_vars(ServeOneOf(w))
         /\ \A t \in Tasks :
              /\ WF_vars(\E result \in Results : Finish(w, t, result))
              /\ SF_vars(SendOutcome(w, t) \/ DropLost(w, t))
    /\ \A t \in Tasks : SF_vars(LeaseEnds(t))

Spec == Init /\ [][Next]_vars /\ Fairness
=============================================================================
