------------------------ MODULE RemoteActivityProofs -------------------------
(***************************************************************************)
(* Proofs about the remote activity protocol.                              *)
(***************************************************************************)
EXTENDS RemoteActivityProperties, SequenceTheorems, FiniteSetTheorems, TLAPS

(***************************************************************************)
(* The inductive invariants.                                               *)
(***************************************************************************)

\* A request is from a worker process that has been started, about one of the tasks.
RequestsHaveSenders ==
    \A q \in requests :
        /\ q.from \in Workers \X Nat
        /\ q.from[2] <= worker[q.from[1]].started
        /\ q.kind # "claim" => q.task \in Tasks

\* The retries that are recorded are of claims before the one in progress.
RetriesCount ==
    \A t \in Tasks : \A i \in DOMAIN retries[t] :
        /\ retries[t][i] < MaxAttempts
        /\ retries[t][i] <= task[t].attempts
        /\ task[t].status = "claimed" => retries[t][i] < task[t].attempts
        /\ \A j \in DOMAIN retries[t] : i < j => retries[t][i] < retries[t][j]

\* A process that has ended executes nothing.
EndedWorkersAreIdle ==
    \A w \in Workers, t \in Tasks : ~worker[w].up => worker[w].inFlight[t] = NoExecution

IInv == TypeOK /\ RequestsHaveSenders /\ RetriesCount /\ EndedWorkersAreIdle

\* A worker process has one request on its way at most, and waits for its answer.
OneRequestEach ==
    /\ \A p, q \in requests : p.from = q.from => p = q
    /\ \A w \in Workers, q \in requests : worker[w].up /\ q.from = Id(w) => worker[w].waiting

\* What a process executes is the latest claim of the task, while the row is its own
\* and it has not been told that it is not; and so is what it has reported.
ExecutionsFit ==
    /\ \A w \in Workers, t \in Tasks :
         /\ worker[w].inFlight[t] # NoExecution /\ ~worker[w].inFlight[t].lost
         /\ task[t].claimedBy = Id(w)
         => worker[w].inFlight[t].claim = task[t].attempts
    /\ \A q \in requests :
         q.kind # "claim" /\ task[q.task].claimedBy = q.from => q.claim = task[q.task].attempts

Fenced == OneRequestEach /\ ExecutionsFit /\ OutcomeOfCurrentClaim

(***************************************************************************)
(* The rows and requests of the steps.                                     *)
(***************************************************************************)

LEMMA FieldTypes ==
  ASSUME TypeOK
  PROVE  /\ \A t \in Tasks : task[t] \in Task /\ task[t].attempts \in Nat
         /\ \A w \in Workers : /\ worker[w] \in Worker /\ worker[w].inFlight \in [Tasks -> Execution]
                               /\ worker[w].started \in Nat
                               /\ \A t \in Tasks : worker[w].inFlight[t] \in Execution
         /\ \A q \in requests : q \in Request
BY DEF TypeOK, Worker, Task

LEMMA NothingInFlight ==
  /\ NoExecution \in Execution /\ NoExecution.claim = 0 /\ NoExecution.lost = FALSE
  /\ NoExecution.result = "none"
  /\ Idle \in [Tasks -> Execution] /\ \A t \in Tasks : Idle[t] = NoExecution
BY DEF NoExecution, Execution, Idle

LEMMA Identity ==
  ASSUME TypeOK, NEW w \in Workers
  PROVE  /\ Id(w) \in Workers \X Nat /\ Id(w)[1] = w /\ Id(w)[2] <= worker[w].started
         /\ Id(w) \in Ids /\ Id(w) # Nobody
<1>1. worker[w].started \in Nat
  BY FieldTypes
<1>2. PICK n \in Nat : n <= worker[w].started /\ Id(w) = <<w, n>>
  BY <1>1 DEF Id
<1>3. QED
  BY <1>2, NobodyIsNoWorker DEF Ids, Nobody

\* A worker sends a request, and forgets what it reports.
Sends(w, q) ==
    /\ worker[w].up /\ ~worker[w].waiting
    /\ q \in Request /\ q.from = Id(w) /\ requests' = requests \cup {q}
    /\ q.kind # "claim" =>
         /\ q.task \in Tasks /\ worker[w].inFlight[q.task] # NoExecution
         /\ ~worker[w].inFlight[q.task].lost /\ q.claim = worker[w].inFlight[q.task].claim
    /\ worker' \in [Workers -> Worker]
    /\ \A v \in Workers \ {w} : worker'[v] = worker[v]
    /\ worker'[w].started = worker[w].started /\ worker'[w].up = worker[w].up
    /\ worker'[w].waiting = TRUE
    /\ \A t \in Tasks : worker'[w].inFlight[t] \in {NoExecution, worker[w].inFlight[t]}
    /\ UNCHANGED <<task, retries, budget>>

LEMMA SendEffect ==
  ASSUME TypeOK, NEW w \in Workers, NEW kind \in Kinds, NEW t \in Tasks \cup {"none"},
         NEW fatal \in BOOLEAN, NEW slots \in Nat, NEW inFlight \in [Tasks -> Execution],
         Loops(w), \A s \in Tasks : inFlight[s] \in {NoExecution, worker[w].inFlight[s]},
         kind # "claim" => t \in Tasks /\ worker[w].inFlight[t] # NoExecution /\ ~worker[w].inFlight[t].lost,
         Send(w, kind, t, fatal, slots, inFlight)
  PROVE  \E q \in Request : Sends(w, q)
<1> DEFINE claim == IF t \in Tasks THEN worker[w].inFlight[t].claim ELSE 0
           q == [kind |-> kind, from |-> Id(w), task |-> t, claim |-> claim,
                 fatal |-> fatal, slots |-> slots]
<1>1. /\ worker \in [Workers -> Worker] /\ worker[w] \in Worker /\ Id(w) \in Ids
      /\ \A s \in Tasks : worker[w].inFlight[s] \in Execution
  BY FieldTypes, Identity DEF TypeOK
<1>2. claim \in Nat
  BY <1>1 DEF Execution
<1> HIDE DEF claim
<1>3. /\ q \in Request /\ q.kind = kind /\ q.from = Id(w) /\ q.task = t /\ q.claim = claim
  BY <1>1, <1>2 DEF Request
<1>4. requests' = requests \cup {q}
      /\ worker' = [worker EXCEPT ![w].waiting = TRUE, ![w].inFlight = inFlight]
      /\ UNCHANGED <<task, retries, budget>>
  BY DEF Send, claim
<1> HIDE DEF q
<1>5. /\ worker' \in [Workers -> Worker]
      /\ worker'[w].started = worker[w].started /\ worker'[w].up = worker[w].up
      /\ worker'[w].waiting = TRUE /\ worker'[w].inFlight = inFlight
      /\ \A v \in Workers \ {w} : worker'[v] = worker[v]
  BY <1>1, <1>4 DEF Worker
<1>6. kind # "claim" => claim = worker[w].inFlight[t].claim
  BY DEF claim
<1>7. Sends(w, q)
  BY <1>3, <1>4, <1>5, <1>6 DEF Sends, Loops
<1>8. QED
  BY <1>3, <1>7

LEMMA Sending ==
  ASSUME TypeOK, NEW w \in Workers,
         SendClaim(w) \/ \E t \in Tasks : SendHeartbeat(w, t) \/ SendOutcome(w, t)
  PROVE  \E q \in Request : Sends(w, q)
<1>1. worker[w].inFlight \in [Tasks -> Execution]
  BY FieldTypes
<1>2. CASE SendClaim(w)
  <2>1. IsFiniteSet(InFlight(w)) /\ Cardinality(InFlight(w)) \in Nat
    <3>1. InFlight(w) \subseteq Tasks
      BY DEF InFlight
    <3>2. QED
      BY <3>1, TasksAreFinite, FS_Subset, FS_CardinalityType
  <2>2. Slots - Cardinality(InFlight(w)) \in Nat
    BY <1>2, <2>1, Limits DEF SendClaim
  <2> DEFINE slots == Slots - Cardinality(InFlight(w))
             inFlight == worker[w].inFlight
             kind == "claim"
             nothing == "none"
             fatal == FALSE
  <2>3. Send(w, kind, nothing, fatal, slots, inFlight) /\ Loops(w)
    BY <1>2 DEF SendClaim
  <2>4. /\ slots \in Nat /\ inFlight \in [Tasks -> Execution]
        /\ \A s \in Tasks : inFlight[s] \in {NoExecution, worker[w].inFlight[s]}
        /\ kind \in Kinds /\ kind = "claim" /\ nothing \in Tasks \cup {"none"} /\ fatal \in BOOLEAN
    BY <1>1, <2>2 DEF Kinds
  <2> HIDE DEF slots, inFlight, kind, nothing, fatal
  <2>5. QED
    BY <2>3, <2>4, SendEffect
<1>3. ASSUME NEW t \in Tasks, SendHeartbeat(w, t)
      PROVE  \E q \in Request : Sends(w, q)
  <2> DEFINE inFlight == worker[w].inFlight
  <2>1. /\ Send(w, "heartbeat", t, FALSE, 0, inFlight) /\ Loops(w)
        /\ worker[w].inFlight[t] # NoExecution /\ ~worker[w].inFlight[t].lost
    BY <1>3 DEF SendHeartbeat, InFlight
  <2>2. /\ inFlight \in [Tasks -> Execution]
        /\ \A s \in Tasks : inFlight[s] \in {NoExecution, worker[w].inFlight[s]}
        /\ "heartbeat" \in Kinds /\ t \in Tasks \cup {"none"} /\ FALSE \in BOOLEAN /\ 0 \in Nat
    BY <1>1 DEF Kinds
  <2> HIDE DEF inFlight
  <2>3. QED
    BY <2>1, <2>2, SendEffect
<1>4. ASSUME NEW t \in Tasks, SendOutcome(w, t)
      PROVE  \E q \in Request : Sends(w, q)
  <2> DEFINE result == worker[w].inFlight[t].result
             kind == IF result = "ok" THEN "complete" ELSE "fail"
             fatal == result = "fatal"
             inFlight == [worker[w].inFlight EXCEPT ![t] = NoExecution]
  <2>1. /\ Send(w, kind, t, fatal, 0, inFlight) /\ Loops(w)
        /\ worker[w].inFlight[t] # NoExecution /\ ~worker[w].inFlight[t].lost
    BY <1>4 DEF SendOutcome, InFlight, HasLost
  <2>2. /\ inFlight \in [Tasks -> Execution]
        /\ \A s \in Tasks : inFlight[s] \in {NoExecution, worker[w].inFlight[s]}
        /\ kind \in Kinds /\ t \in Tasks \cup {"none"} /\ fatal \in BOOLEAN /\ 0 \in Nat
    BY <1>1, NothingInFlight DEF Kinds
  <2> HIDE DEF inFlight, kind, fatal
  <2>3. QED
    BY <2>1, <2>2, SendEffect
<1>5. QED
  BY <1>2, <1>3, <1>4

\* A worker goes on with an execution, forgets it, leaves or is started again.
Changes(w) ==
    /\ worker' \in [Workers -> Worker]
    /\ \A v \in Workers \ {w} : worker'[v] = worker[v]
    /\ \/ /\ worker'[w].started = worker[w].started
          /\ worker'[w].up => worker[w].up /\ (worker[w].waiting => worker'[w].waiting)
       \/ ~worker[w].up /\ worker'[w].started = worker[w].started + 1
    /\ \A t \in Tasks :
         \/ worker'[w].inFlight[t] = NoExecution
         \/ /\ worker'[w].up /\ worker'[w].started = worker[w].started
            /\ worker[w].inFlight[t] # NoExecution
            /\ worker'[w].inFlight[t].claim = worker[w].inFlight[t].claim
            /\ worker'[w].inFlight[t].lost = worker[w].inFlight[t].lost
    /\ UNCHANGED <<task, retries, requests>>

LEMMA WorkerChanges ==
  ASSUME IInv, NEW w \in Workers,
         \/ Exit(w) \/ Drain(w) \/ Fail(w) \/ Restart(w)
         \/ \E t \in Tasks : DropLost(w, t) \/ \E result \in Results : Finish(w, t, result)
  PROVE  Changes(w)
<1>1. /\ worker \in [Workers -> Worker] /\ worker[w] \in Worker /\ worker[w].inFlight \in [Tasks -> Execution]
      /\ \A t \in Tasks : worker[w].inFlight[t] \in Execution
      /\ worker[w].started \in Nat /\ worker[w].up \in BOOLEAN /\ worker[w].waiting \in BOOLEAN
  BY FieldTypes DEF IInv, TypeOK, Worker
<1>2. UNCHANGED <<task, retries, requests>>
  BY DEF Exit, Drain, Fail, Restart, DropLost, Finish
<1>3. ASSUME NEW row \in Worker, worker' = [worker EXCEPT ![w] = row],
             \/ row.started = worker[w].started /\ (row.up => worker[w].up /\ (worker[w].waiting => row.waiting))
             \/ ~worker[w].up /\ row.started = worker[w].started + 1,
             \A t \in Tasks :
               \/ row.inFlight[t] = NoExecution
               \/ /\ row.up /\ row.started = worker[w].started /\ worker[w].inFlight[t] # NoExecution
                  /\ row.inFlight[t].claim = worker[w].inFlight[t].claim
                  /\ row.inFlight[t].lost = worker[w].inFlight[t].lost
      PROVE  Changes(w)
  BY <1>1, <1>2, <1>3 DEF Changes
<1>4. CASE Exit(w) \/ Fail(w)
  <2> DEFINE row == [worker[w] EXCEPT !.up = FALSE, !.waiting = FALSE, !.inFlight = Idle]
  <2>1. worker' = [worker EXCEPT ![w] = row]
    BY <1>1, <1>4 DEF Exit, Fail, Leave
  <2>2. row \in Worker /\ row.started = worker[w].started /\ row.up = FALSE
        /\ \A t \in Tasks : row.inFlight[t] = NoExecution
    BY <1>1, NothingInFlight DEF Worker
  <2> HIDE DEF row
  <2>3. QED
    BY <1>3, <2>1, <2>2
<1>5. CASE Drain(w)
  <2> DEFINE row == [worker[w] EXCEPT !.draining = TRUE]
  <2>1. worker' = [worker EXCEPT ![w] = row] /\ worker[w].up
    BY <1>1, <1>5 DEF Drain
  <2>2. row \in Worker /\ row.started = worker[w].started /\ row.up = worker[w].up
        /\ row.inFlight = worker[w].inFlight /\ row.waiting = worker[w].waiting
    BY <1>1 DEF Worker
  <2> HIDE DEF row
  <2>3. QED
    BY <1>3, <2>1, <2>2
<1>6. CASE Restart(w)
  <2> DEFINE next == worker[w].started + 1
             row == [worker[w] EXCEPT !.up = TRUE, !.draining = FALSE, !.started = next]
  <2>1. worker' = [worker EXCEPT ![w] = row] /\ ~worker[w].up
    BY <1>1, <1>6 DEF Restart
  <2>2. next \in Nat
    BY <1>1
  <2> HIDE DEF next
  <2>3. row \in Worker /\ row.started = next /\ row.inFlight = worker[w].inFlight
    BY <1>1, <2>2 DEF Worker
  <2> HIDE DEF row
  <2>4. \A t \in Tasks : worker[w].inFlight[t] = NoExecution
    BY <2>1 DEF IInv, EndedWorkersAreIdle
  <2>5. QED
    BY <1>3, <2>1, <2>3, <2>4 DEF next
<1>7. ASSUME NEW t \in Tasks, NEW execution \in Execution,
             worker' = [worker EXCEPT ![w].inFlight[t] = execution], worker[w].up,
             \/ execution = NoExecution
             \/ /\ worker[w].inFlight[t] # NoExecution
                /\ execution.claim = worker[w].inFlight[t].claim
                /\ execution.lost = worker[w].inFlight[t].lost
      PROVE  Changes(w)
  <2> DEFINE inFlight == [worker[w].inFlight EXCEPT ![t] = execution]
             row == [worker[w] EXCEPT !.inFlight = inFlight]
  <2>1. inFlight \in [Tasks -> Execution]
    BY <1>1
  <2>2. worker' = [worker EXCEPT ![w] = row]
    BY <1>1, <1>7
  <2>3. \A s \in Tasks :
          inFlight[s] = NoExecution \/
             /\ worker[w].inFlight[s] # NoExecution
             /\ inFlight[s].claim = worker[w].inFlight[s].claim
             /\ inFlight[s].lost = worker[w].inFlight[s].lost
    BY <1>1, <1>7
  <2> HIDE DEF inFlight
  <2>4. row \in Worker /\ row.started = worker[w].started /\ row.up = worker[w].up
        /\ row.inFlight = inFlight /\ row.waiting = worker[w].waiting
    BY <1>1, <2>1 DEF Worker
  <2> HIDE DEF row
  <2>5. QED
    BY <1>3, <1>7, <2>2, <2>3, <2>4, ZenonT(180)
<1>8. ASSUME NEW t \in Tasks, DropLost(w, t)
      PROVE  Changes(w)
  <2>1. worker' = [worker EXCEPT ![w].inFlight[t] = NoExecution] /\ worker[w].up
    BY <1>8 DEF DropLost, Loops
  <2>2. QED
    BY <1>7, <2>1, NothingInFlight
<1>9. ASSUME NEW t \in Tasks, NEW result \in Results, Finish(w, t, result)
      PROVE  Changes(w)
  <2> DEFINE execution == [worker[w].inFlight[t] EXCEPT !.result = result]
  <2>1. worker' = [worker EXCEPT ![w].inFlight[t] = execution] /\ worker[w].up
        /\ worker[w].inFlight[t] # NoExecution
    BY <1>1, <1>9 DEF Finish, InFlight
  <2>2. /\ execution \in Execution /\ execution.claim = worker[w].inFlight[t].claim
        /\ execution.lost = worker[w].inFlight[t].lost
    BY <1>1 DEF Execution
  <2> HIDE DEF execution
  <2>3. QED
    BY <1>7, <2>1, <2>2
<1>10. QED
  BY <1>4, <1>5, <1>6, <1>8, <1>9

\* The server gives tasks to the sender of a claim.
Claims(q, S) ==
    /\ q \in requests /\ q.from \in Workers \X Nat /\ q.from \in Ids
    /\ requests' = requests \ {q} /\ UNCHANGED <<retries, budget>>
    /\ task' \in [Tasks -> Task] /\ worker' \in [Workers -> Worker]
    /\ \A t \in Tasks \ S : task'[t] = task[t]
    /\ \A t \in S : /\ task'[t].status = "claimed" /\ task'[t].claimedBy = q.from
                    /\ task'[t].lease = "live" /\ task'[t].attempts = task[t].attempts + 1
    /\ \A v \in Workers :
         /\ worker'[v].started = worker[v].started /\ worker'[v].up = worker[v].up
         /\ v \notin Asker(q) => worker'[v] = worker[v]
         /\ v \in Asker(q) => \A t \in Tasks :
              /\ t \notin S => worker'[v].inFlight[t] = worker[v].inFlight[t]
              /\ t \in S => worker'[v].inFlight[t].claim = task[t].attempts + 1

LEMMA Claiming ==
  ASSUME IInv, NEW q \in requests, Serve(q), ServeClaim(q)
  PROVE  \E S \in SUBSET Tasks : Claims(q, S)
<1>1. /\ task \in [Tasks -> Task] /\ worker \in [Workers -> Worker]
      /\ \A t \in Tasks : task[t] \in Task /\ task[t].attempts \in Nat
      /\ \A v \in Workers : worker[v] \in Worker /\ worker[v].inFlight \in [Tasks -> Execution]
      /\ q.from \in Workers \X Nat /\ q \in Request /\ q.from \in Ids
  BY FieldTypes DEF IInv, TypeOK, RequestsHaveSenders, Request
<1>2. PICK S \in SUBSET {t \in Tasks : Claimable(t)} :
        /\ task' = [t \in Tasks |->
                      IF t \in S
                      THEN [task[t] EXCEPT !.status = "claimed", !.claimedBy = q.from,
                                           !.lease = "live", !.attempts = @ + 1]
                      ELSE task[t]]
        /\ worker' = [w \in Workers |->
                 IF w \in Asker(q)
                 THEN [worker[w] EXCEPT !.waiting = FALSE, !.inFlight =
                         [t \in Tasks |->
                            IF t \in S THEN [NoExecution EXCEPT !.claim = task[t].attempts + 1]
                            ELSE worker[w].inFlight[t]]]
                 ELSE worker[w]]
  BY ZenonT(60) DEF ServeClaim, Answer
<1>3. ASSUME NEW t \in Tasks
      PROVE  /\ task'[t] \in Task
             /\ t \notin S => task'[t] = task[t]
             /\ t \in S => /\ task'[t].status = "claimed" /\ task'[t].claimedBy = q.from
                           /\ task'[t].lease = "live" /\ task'[t].attempts = task[t].attempts + 1
  <2> DEFINE n == task[t].attempts + 1
             row == [task[t] EXCEPT !.status = "claimed", !.claimedBy = q.from,
                                    !.lease = "live", !.attempts = n]
  <2>1. n \in Nat /\ task[t] \in Task
    BY <1>1
  <2>2. task'[t] = IF t \in S THEN row ELSE task[t]
    BY <1>2
  <2> HIDE DEF n
  <2>3. /\ row \in Task /\ row.status = "claimed" /\ row.claimedBy = q.from
        /\ row.lease = "live" /\ row.attempts = n
    BY <1>1, <2>1 DEF Task
  <2> HIDE DEF row
  <2>4. QED
    BY <2>1, <2>2, <2>3 DEF n
<1>4. ASSUME NEW v \in Workers
      PROVE  /\ worker'[v] \in Worker
             /\ worker'[v].started = worker[v].started /\ worker'[v].up = worker[v].up
             /\ v \notin Asker(q) => worker'[v] = worker[v]
             /\ v \in Asker(q) => \A t \in Tasks :
                  /\ t \notin S => worker'[v].inFlight[t] = worker[v].inFlight[t]
                  /\ t \in S => worker'[v].inFlight[t].claim = task[t].attempts + 1
  <2> DEFINE inFlight ==
               [t \in Tasks |-> IF t \in S THEN [NoExecution EXCEPT !.claim = task[t].attempts + 1]
                                ELSE worker[v].inFlight[t]]
             row == [worker[v] EXCEPT !.waiting = FALSE, !.inFlight = inFlight]
  <2>1. ASSUME NEW t \in Tasks
        PROVE  /\ inFlight[t] \in Execution
               /\ t \notin S => inFlight[t] = worker[v].inFlight[t]
               /\ t \in S => inFlight[t].claim = task[t].attempts + 1
    <3> DEFINE n == task[t].attempts + 1
    <3>1. n \in Nat
      BY <1>1
    <3>2. inFlight[t] = IF t \in S THEN [NoExecution EXCEPT !.claim = n] ELSE worker[v].inFlight[t]
      OBVIOUS
    <3> HIDE DEF n, inFlight
    <3>3. [NoExecution EXCEPT !.claim = n] \in Execution /\ [NoExecution EXCEPT !.claim = n].claim = n
      BY <3>1 DEF Execution, NoExecution
    <3>4. QED
      BY <1>1, <3>2, <3>3 DEF n
  <2>2. worker'[v] = IF v \in Asker(q) THEN row ELSE worker[v]
    BY <1>2
  <2>3. inFlight \in [Tasks -> Execution]
    <3>1. inFlight = [t \in Tasks |-> inFlight[t]]
      OBVIOUS
    <3> HIDE DEF inFlight
    <3>2. QED
      BY <2>1, <3>1
  <2> HIDE DEF inFlight
  <2>4. /\ row \in Worker /\ row.started = worker[v].started /\ row.up = worker[v].up
        /\ row.inFlight = inFlight
    BY <1>1, <2>3 DEF Worker
  <2> HIDE DEF row
  <2>5. QED
    BY <1>1, <2>1, <2>2, <2>4
<1>5. task' \in [Tasks -> Task] /\ worker' \in [Workers -> Worker]
  BY <1>2, <1>3, <1>4, ZenonT(60)
<1>6. requests' = requests \ {q} /\ UNCHANGED <<retries, budget>>
  BY DEF Serve, ServeClaim
<1>7. Claims(q, S)
  BY <1>1, <1>3, <1>4, <1>5, <1>6 DEF Claims
<1>8. QED
  BY <1>7

\* The server answers a request about a task.
Replies(q) ==
    /\ q \in requests /\ q.task \in Tasks /\ q.claim \in Nat /\ q.kind # "claim"
    /\ requests' = requests \ {q} /\ UNCHANGED budget
    /\ task' \in [Tasks -> Task] /\ worker' \in [Workers -> Worker]
    /\ \A t \in Tasks \ {q.task} : task'[t] = task[t] /\ retries'[t] = retries[t]
    /\ \/ task'[q.task] = task[q.task] /\ retries' = retries
       \/ /\ task[q.task].status = "claimed" /\ task[q.task].claimedBy = q.from
          /\ task'[q.task].attempts = task[q.task].attempts
          /\ \/ /\ task'[q.task].status = "claimed" /\ task'[q.task].claimedBy = q.from
                /\ task'[q.task].lease = "live" /\ retries' = retries
             \/ /\ task'[q.task].status \in {"completed", "failed", "queued"}
                /\ task'[q.task].claimedBy = Nobody
                /\ task'[q.task].lease = "none" /\ task'[q.task].reported = q.claim
                /\ \/ retries' = retries
                   \/ /\ task[q.task].attempts < MaxAttempts
                      /\ retries' = [retries EXCEPT ![q.task] = Append(@, task[q.task].attempts)]
    /\ \A v \in Workers :
         /\ worker'[v].started = worker[v].started /\ worker'[v].up = worker[v].up
         /\ v \notin Asker(q) => worker'[v] = worker[v]
         /\ \A t \in Tasks : worker'[v].inFlight[t] # worker[v].inFlight[t]
                             => worker'[v].inFlight[t].lost = TRUE /\ v \in Asker(q)

LEMMA AnswerEffect ==
  ASSUME IInv, NEW q \in requests, q.task \in Tasks, Conflict(q) \/ Accepted(q)
  PROVE  /\ worker' \in [Workers -> Worker]
         /\ \A v \in Workers :
              /\ worker'[v].started = worker[v].started /\ worker'[v].up = worker[v].up
              /\ v \notin Asker(q) => worker'[v] = worker[v]
              /\ \A t \in Tasks : worker'[v].inFlight[t] # worker[v].inFlight[t]
                                  => worker'[v].inFlight[t].lost = TRUE /\ v \in Asker(q)
<1>1. \A v \in Workers : worker[v] \in Worker /\ worker[v].inFlight \in [Tasks -> Execution]
  BY FieldTypes DEF IInv
<1> DEFINE Lost(v) == [worker[v].inFlight EXCEPT ![q.task].lost = TRUE]
<1>2. ASSUME NEW v \in Workers
      PROVE  /\ Lost(v) \in [Tasks -> Execution]
             /\ \A t \in Tasks : Lost(v)[t] = worker[v].inFlight[t] \/ Lost(v)[t].lost = TRUE
  BY <1>1, ZenonT(60) DEF Execution
<1>3. ASSUME NEW v \in Workers
      PROVE  \/ worker'[v] = worker[v]
             \/ /\ v \in Asker(q)
                /\ \E inFlight \in {worker[v].inFlight, Lost(v)} :
                     worker'[v] = [worker[v] EXCEPT !.waiting = FALSE, !.inFlight = inFlight]
  BY DEF Conflict, Accepted, Answer
<1>4. worker' = [v \in Workers |-> worker'[v]]
  BY DEF Conflict, Accepted, Answer
<1> HIDE DEF Lost
<1>5. ASSUME NEW v \in Workers
      PROVE  /\ worker'[v] \in Worker
             /\ worker'[v].started = worker[v].started /\ worker'[v].up = worker[v].up
             /\ v \notin Asker(q) => worker'[v] = worker[v]
             /\ \A t \in Tasks : worker'[v].inFlight[t] # worker[v].inFlight[t]
                                 => worker'[v].inFlight[t].lost = TRUE /\ v \in Asker(q)
  <2>1. CASE worker'[v] = worker[v]
    BY <1>1, <2>1
  <2>2. CASE v \in Asker(q) /\ worker'[v] # worker[v]
    <3>1. PICK inFlight \in {worker[v].inFlight, Lost(v)} :
            worker'[v] = [worker[v] EXCEPT !.waiting = FALSE, !.inFlight = inFlight]
      BY <1>3, <2>2, ZenonT(60)
    <3>2. /\ inFlight \in [Tasks -> Execution]
          /\ \A t \in Tasks : inFlight[t] = worker[v].inFlight[t] \/ inFlight[t].lost = TRUE
      BY <1>1, <1>2
    <3>3. /\ worker'[v] \in Worker /\ worker'[v].started = worker[v].started
          /\ worker'[v].up = worker[v].up /\ worker'[v].inFlight = inFlight
      BY <1>1, <3>1, <3>2, ZenonT(180) DEF Worker
    <3>4. QED
      BY <2>2, <3>2, <3>3
  <2>3. QED
    BY <1>3, <2>1, <2>2, ZenonT(60)
<1>6. QED
  BY <1>4, <1>5

LEMMA Replying ==
  ASSUME IInv, NEW q \in requests, Serve(q), ServeHeartbeat(q) \/ ServeComplete(q) \/ ServeFail(q)
  PROVE  Replies(q)
<1>1. /\ q.kind # "claim" /\ q.task \in Tasks /\ q.claim \in Nat /\ q.from \in Ids
      /\ task \in [Tasks -> Task] /\ task[q.task] \in Task /\ retries \in [Tasks -> Seq(Nat)]
      /\ Nobody \in Ids
  BY FieldTypes
     DEF IInv, TypeOK, RequestsHaveSenders, Request, ServeHeartbeat, ServeComplete, ServeFail, Ids
<1>2. Conflict(q) \/ Accepted(q)
  BY DEF ServeHeartbeat, ServeComplete, ServeFail
<1>3. requests' = requests \ {q} /\ UNCHANGED budget
  BY DEF Serve
<1>4. /\ worker' \in [Workers -> Worker]
      /\ \A v \in Workers :
           /\ worker'[v].started = worker[v].started /\ worker'[v].up = worker[v].up
           /\ v \notin Asker(q) => worker'[v] = worker[v]
           /\ \A t \in Tasks : worker'[v].inFlight[t] # worker[v].inFlight[t]
                                 => worker'[v].inFlight[t].lost = TRUE /\ v \in Asker(q)
  BY <1>1, <1>2, AnswerEffect
<1>5. ASSUME UNCHANGED <<task, retries>>
      PROVE  Replies(q)
  BY <1>1, <1>3, <1>4, <1>5 DEF Replies
<1>6. ASSUME NEW row \in Task, task' = [task EXCEPT ![q.task] = row],
             task[q.task].status = "claimed", task[q.task].claimedBy = q.from,
             row.attempts = task[q.task].attempts,
             \/ /\ row.status = "claimed" /\ row.claimedBy = q.from /\ row.lease = "live" /\ retries' = retries
             \/ /\ row.status \in {"completed", "failed", "queued"} /\ row.claimedBy = Nobody
                /\ row.lease = "none" /\ row.reported = q.claim
                /\ \/ retries' = retries
                   \/ /\ task[q.task].attempts < MaxAttempts
                      /\ retries' = [retries EXCEPT ![q.task] = Append(@, task[q.task].attempts)]
      PROVE  Replies(q)
  <2>1. /\ task' \in [Tasks -> Task] /\ task'[q.task] = row
        /\ \A t \in Tasks \ {q.task} : task'[t] = task[t] /\ retries'[t] = retries[t]
    BY <1>1, <1>6
  <2>2. QED
    BY <1>1, <1>3, <1>4, <1>6, <2>1 DEF Replies
<1>7. CASE ServeHeartbeat(q)
  <2>1. CASE UNCHANGED task
    BY <1>5, <1>7, <2>1 DEF ServeHeartbeat
  <2>2. CASE Owned(q, {"live"}) /\ task' = [task EXCEPT ![q.task].lease = "live"]
    <3> DEFINE row == [task[q.task] EXCEPT !.lease = "live"]
    <3>1. /\ task' = [task EXCEPT ![q.task] = row] /\ retries' = retries
          /\ task[q.task].status = "claimed" /\ task[q.task].claimedBy = q.from
      BY <1>1, <1>7, <2>2 DEF ServeHeartbeat, Owned
    <3>2. /\ row \in Task /\ row.attempts = task[q.task].attempts /\ row.status = "claimed"
          /\ row.claimedBy = q.from /\ row.lease = "live"
      BY <1>1, <3>1 DEF Task
    <3> HIDE DEF row
    <3>3. QED
      BY <1>6, <3>1, <3>2
  <2>3. QED
    BY <1>7, <2>1, <2>2 DEF ServeHeartbeat
<1>8. ASSUME NEW status \in {"completed", "failed", "queued"},
             Owned(q, {"live", "grace"}),
             task' = [task EXCEPT ![q.task] = Released(@, status, q.claim)],
             \/ retries' = retries
             \/ /\ task[q.task].attempts < MaxAttempts
                /\ retries' = [retries EXCEPT ![q.task] = Append(@, task[q.task].attempts)]
      PROVE  Replies(q)
  <2> DEFINE row == Released(task[q.task], status, q.claim)
  <2>1. task' = [task EXCEPT ![q.task] = row]
    BY <1>1, <1>8
  <2>2. /\ row \in Task /\ row.status = status /\ row.claimedBy = Nobody /\ row.lease = "none"
        /\ row.attempts = task[q.task].attempts /\ row.reported = q.claim
    <3>1. /\ task[q.task].attempts \in Nat
          /\ row = [task[q.task] EXCEPT !.status = status, !.claimedBy = Nobody,
                                        !.lease = "none", !.reported = q.claim]
      BY <1>1 DEF Released, Task
    <3>2. status \in {"queued", "claimed", "completed", "failed", "cancelled"}
      OBVIOUS
    <3> HIDE DEF row
    <3>3. QED
      BY <1>1, <3>1, <3>2 DEF Task
  <2>3. task[q.task].status = "claimed" /\ task[q.task].claimedBy = q.from
    BY <1>8 DEF Owned
  <2> HIDE DEF row
  <2>4. QED
    BY <1>6, <1>8, <2>1, <2>2, <2>3
<1>9. CASE ServeComplete(q)
  <2>1. CASE UNCHANGED task
    BY <1>5, <1>9, <2>1 DEF ServeComplete
  <2>2. CASE Owned(q, {"live", "grace"}) /\ task' = [task EXCEPT ![q.task] = Released(@, "completed", q.claim)]
    BY <1>8, <1>9, <2>2 DEF ServeComplete
  <2>3. QED
    BY <1>9, <2>1, <2>2 DEF ServeComplete
<1>10. CASE ServeFail(q)
  <2>1. CASE UNCHANGED <<task, retries>>
    BY <1>5, <2>1
  <2>2. CASE /\ Owned(q, {"live", "grace"}) /\ MayRetry(q)
             /\ task' = [task EXCEPT ![q.task] = Released(@, "queued", q.claim)]
             /\ retries' = [retries EXCEPT ![q.task] = Append(@, task[q.task].attempts)]
    BY <1>8, <2>2 DEF MayRetry
  <2>3. CASE /\ Owned(q, {"live", "grace"}) /\ UNCHANGED retries
             /\ task' = [task EXCEPT ![q.task] = Released(@, "failed", q.claim)]
    BY <1>8, <2>3
  <2>4. QED
    BY <1>10, <2>1, <2>2, <2>3 DEF ServeFail
<1>11. QED
  BY <1>7, <1>9, <1>10

\* Time passes, or the run is terminated: rows keep their claims, or lose them.
Ages ==
    /\ task' \in [Tasks -> Task] /\ UNCHANGED <<retries, worker, requests>>
    /\ \A t \in Tasks :
         \/ task'[t] = task[t]
         \/ /\ task[t].status \in {"queued", "claimed"} /\ task'[t].status = "cancelled"
            /\ task'[t].claimedBy = Nobody /\ task'[t].lease = "none"
            /\ task'[t].attempts = task[t].attempts
         \/ /\ task[t].lease # "none" /\ task'[t].lease # "none"
            /\ task'[t].status = task[t].status /\ task'[t].claimedBy = task[t].claimedBy
            /\ task'[t].attempts = task[t].attempts /\ task'[t].reported = task[t].reported

LEMMA Ageing ==
  ASSUME TypeOK, Terminate \/ \E t \in Tasks : LeaseEnds(t) \/ LeaseEndsEarly(t)
  PROVE  Ages
<1>1. task \in [Tasks -> Task] /\ \A t \in Tasks : task[t] \in Task
  BY FieldTypes DEF TypeOK
<1>2. CASE Terminate
  <2>1. ASSUME NEW t \in Tasks
        PROVE  /\ task'[t] \in Task
               /\ \/ task'[t] = task[t]
                  \/ /\ task[t].status \in {"queued", "claimed"} /\ task'[t].status = "cancelled"
                     /\ task'[t].claimedBy = Nobody /\ task'[t].lease = "none"
                     /\ task'[t].attempts = task[t].attempts
    <3> DEFINE row == [task[t] EXCEPT !.status = "cancelled", !.claimedBy = Nobody, !.lease = "none"]
    <3>1. \/ task'[t] = task[t]
          \/ task[t].status \in {"queued", "claimed"} /\ task'[t] = row
      BY <1>2 DEF Terminate, CancelledByTerminate
    <3>2. Nobody \in Ids
      BY DEF Ids
    <3>3. /\ row \in Task /\ row.status = "cancelled" /\ row.claimedBy = Nobody
          /\ row.lease = "none" /\ row.attempts = task[t].attempts
      BY <1>1, <3>2 DEF Task
    <3> HIDE DEF row
    <3>4. QED
      BY <1>1, <3>1, <3>3
  <2>2. task' = [t \in Tasks |-> task'[t]] /\ UNCHANGED <<retries, worker, requests>>
    BY <1>2 DEF Terminate
  <2>3. QED
    BY <2>1, <2>2 DEF Ages
<1>3. ASSUME NEW t \in Tasks, LeaseRunsOut(t)
      PROVE  Ages
  <2>1. PICK lease \in {"grace", "over"} : task' = [task EXCEPT ![t] = [task[t] EXCEPT !.lease = lease]]
    BY <1>1, <1>3 DEF LeaseRunsOut
  <2> DEFINE row == [task[t] EXCEPT !.lease = lease]
  <2>2. /\ row \in Task /\ row.lease # "none" /\ row.status = task[t].status
        /\ row.claimedBy = task[t].claimedBy /\ row.attempts = task[t].attempts
        /\ row.reported = task[t].reported /\ task' = [task EXCEPT ![t] = row]
    BY <1>1, <2>1 DEF Task
  <2>3. task[t].lease # "none" /\ UNCHANGED <<retries, worker, requests>>
    BY <1>3 DEF LeaseRunsOut
  <2> HIDE DEF row
  <2>4. QED
    BY <1>1, <2>2, <2>3 DEF Ages
<1>4. QED
  BY <1>2, <1>3 DEF LeaseEnds, LeaseEndsEarly

LEMMA Steps ==
  ASSUME IInv, [Next]_vars
  PROVE  \/ UNCHANGED vars
         \/ \E w \in Workers : \E q \in Request : Sends(w, q)
         \/ \E w \in Workers : Changes(w) /\ budget' \in [BudgetKinds -> Nat]
         \/ \E q \in requests : \E S \in SUBSET Tasks : Claims(q, S)
         \/ \E q \in requests : Replies(q)
         \/ \E q \in requests : requests' = requests \ {q} /\ UNCHANGED <<task, retries, worker, budget>>
         \/ Ages /\ budget' \in [BudgetKinds -> Nat]
<1>1. TypeOK /\ budget \in [BudgetKinds -> Nat]
  BY DEF IInv, TypeOK
<1>2. \A kind \in BudgetKinds : budget[kind] > 0 =>
        [budget EXCEPT ![kind] = @ - 1] \in [BudgetKinds -> Nat]
  BY <1>1
<1>3. "failures" \in BudgetKinds /\ "lateness" \in BudgetKinds /\ "terminates" \in BudgetKinds
  BY DEF BudgetKinds
<1>4. ASSUME NEW w \in Workers, WorkerStep(w)
      PROVE  \/ \E q \in Request : Sends(w, q)
             \/ Changes(w) /\ budget' \in [BudgetKinds -> Nat]
  <2>1. CASE SendClaim(w) \/ \E t \in Tasks : SendHeartbeat(w, t) \/ SendOutcome(w, t)
    BY <1>1, <2>1, Sending
  <2>2. CASE Exit(w) \/ \E t \in Tasks : DropLost(w, t) \/ \E result \in Results : Finish(w, t, result)
    <3>1. Changes(w)
      BY <2>2, WorkerChanges
    <3>2. UNCHANGED budget
      BY <2>2 DEF Exit, DropLost, Finish
    <3>3. QED
      BY <1>1, <3>1, <3>2
  <2>3. QED
    BY <1>4, <2>1, <2>2 DEF WorkerStep
<1>5. ASSUME NEW w \in Workers, Drain(w) \/ Fail(w) \/ Restart(w)
      PROVE  Changes(w) /\ budget' \in [BudgetKinds -> Nat]
  <2>1. Changes(w)
    BY <1>5, WorkerChanges
  <2>2. budget' \in [BudgetKinds -> Nat]
    BY <1>1, <1>2, <1>3, <1>5 DEF Drain, Fail, Restart
  <2>3. QED
    BY <2>1, <2>2
<1>6. ASSUME NEW q \in requests, Serve(q)
      PROVE  (\E S \in SUBSET Tasks : Claims(q, S)) \/ Replies(q)
  BY <1>6, Claiming, Replying DEF Serve
<1>7. ASSUME Terminate \/ \E t \in Tasks : LeaseEnds(t) \/ LeaseEndsEarly(t)
      PROVE  Ages /\ budget' \in [BudgetKinds -> Nat]
  <2>1. Ages
    BY <1>1, <1>7, Ageing
  <2>2. budget' \in [BudgetKinds -> Nat]
    BY <1>1, <1>2, <1>3, <1>7 DEF Terminate, LeaseEnds, LeaseEndsEarly
  <2>3. QED
    BY <2>1, <2>2
<1>8. ASSUME NEW q \in requests, Lose(q)
      PROVE  requests' = requests \ {q} /\ UNCHANGED <<task, retries, worker, budget>>
  BY <1>8 DEF Lose
<1>9. QED
  BY <1>4, <1>5, <1>6, <1>7, <1>8 DEF Next

(***************************************************************************)
(* Types, senders and retries.                                             *)
(***************************************************************************)

\* The retries of a task are kept by a step that records none.
LEMMA RetriesKept ==
  ASSUME IInv, NEW t \in Tasks, retries'[t] = retries[t],
         task'[t].attempts \in Nat, task'[t].attempts >= task[t].attempts,
         task'[t].status = "claimed" =>
           task[t].status = "claimed" \/ task'[t].attempts > task[t].attempts
  PROVE  \A i \in DOMAIN retries'[t] :
           /\ retries'[t][i] < MaxAttempts
           /\ retries'[t][i] <= task'[t].attempts
           /\ task'[t].status = "claimed" => retries'[t][i] < task'[t].attempts
           /\ \A j \in DOMAIN retries'[t] : i < j => retries'[t][i] < retries'[t][j]
<1>1. task[t].attempts \in Nat /\ retries[t] \in Seq(Nat)
  BY FieldTypes DEF IInv, TypeOK
<1>2. \A i \in DOMAIN retries[t] : retries[t][i] \in Nat
  BY <1>1
<1>3. \A i \in DOMAIN retries[t] :
        /\ retries[t][i] < MaxAttempts
        /\ retries[t][i] <= task[t].attempts
        /\ task[t].status = "claimed" => retries[t][i] < task[t].attempts
        /\ \A j \in DOMAIN retries[t] : i < j => retries[t][i] < retries[t][j]
  BY DEF IInv, RetriesCount
<1>4. QED
  BY <1>1, <1>2, <1>3, SMTT(30)

\* A claimed task's retry counts the claim.
LEMMA RetryRecorded ==
  ASSUME IInv, NEW t \in Tasks, task[t].status = "claimed", task[t].attempts < MaxAttempts,
         retries' = [retries EXCEPT ![t] = Append(@, task[t].attempts)],
         task'[t].attempts = task[t].attempts, task'[t].status # "claimed"
  PROVE  /\ retries'[t] \in Seq(Nat)
         /\ \A i \in DOMAIN retries'[t] :
              /\ retries'[t][i] < MaxAttempts
              /\ retries'[t][i] <= task'[t].attempts
              /\ task'[t].status = "claimed" => retries'[t][i] < task'[t].attempts
              /\ \A j \in DOMAIN retries'[t] : i < j => retries'[t][i] < retries'[t][j]
<1> DEFINE old == retries[t]
           n == task[t].attempts
<1>1. n \in Nat /\ old \in Seq(Nat) /\ retries \in [Tasks -> Seq(Nat)]
  BY FieldTypes DEF IInv, TypeOK
<1>2. retries'[t] = Append(old, n)
  BY <1>1
<1>3. \A i \in DOMAIN old : /\ old[i] < MaxAttempts /\ old[i] < n
                            /\ \A j \in DOMAIN old : i < j => old[i] < old[j]
  BY DEF IInv, RetriesCount
<1>4. /\ Append(old, n) \in Seq(Nat) /\ DOMAIN old = 1..Len(old) /\ Len(old) \in Nat
      /\ DOMAIN Append(old, n) = 1..(Len(old) + 1)
      /\ \A i \in 1..Len(old) : Append(old, n)[i] = old[i]
      /\ Append(old, n)[Len(old) + 1] = n
  BY <1>1, AppendProperties
<1>5. n < MaxAttempts /\ task'[t].attempts = n /\ MaxAttempts \in Nat
  BY Limits
<1>6. \A i \in 1..Len(old) : old[i] \in Nat
  BY <1>1, <1>4
<1> HIDE DEF old, n
<1>7. ASSUME NEW i \in 1..(Len(old) + 1)
      PROVE  /\ Append(old, n)[i] < MaxAttempts
             /\ Append(old, n)[i] <= n
             /\ \A j \in 1..(Len(old) + 1) : i < j => Append(old, n)[i] < Append(old, n)[j]
  <2>1. CASE i \in 1..Len(old)
    <3>1. old[i] \in Nat /\ old[i] < n /\ old[i] < MaxAttempts /\ Append(old, n)[i] = old[i]
      BY <1>3, <1>4, <1>6, <2>1
    <3>2. ASSUME NEW j \in 1..(Len(old) + 1), i < j
          PROVE  old[i] < Append(old, n)[j]
      <4>1. CASE j \in 1..Len(old)
        BY <1>3, <1>4, <2>1, <3>2, <4>1
      <4>2. CASE j = Len(old) + 1
        BY <1>4, <3>1, <4>2
      <4>3. QED
        BY <1>4, <4>1, <4>2
    <3>3. QED
      BY <1>1, <3>1, <3>2
  <2>2. CASE i = Len(old) + 1
    BY <1>1, <1>4, <1>5, <2>2
  <2>3. QED
    BY <1>4, <2>1, <2>2
<1>8. QED
  BY <1>2, <1>4, <1>5, <1>7

\* The rows keep their shape, in every step that may change them.
LEMMA RowsKeepShape ==
  ASSUME IInv, task' \in [Tasks -> Task],
         \/ UNCHANGED task
         \/ \E q \in requests : \E S \in SUBSET Tasks : Claims(q, S)
         \/ \E q \in requests : Replies(q)
         \/ Ages
  PROVE  \A t \in Tasks :
           /\ task'[t].status = "claimed" <=> task'[t].claimedBy # Nobody
           /\ task'[t].status = "claimed" <=> task'[t].lease # "none"
<1>1. \A t \in Tasks :
        /\ task[t].status = "claimed" <=> task[t].claimedBy # Nobody
        /\ task[t].status = "claimed" <=> task[t].lease # "none"
  BY DEF IInv, TypeOK
<1>2. ASSUME NEW q \in requests
      PROVE  q.from # Nobody
  BY NobodyIsNoWorker DEF IInv, RequestsHaveSenders, Nobody
<1>3. ASSUME NEW t \in Tasks
      PROVE  \/ task'[t] = task[t]
             \/ /\ task'[t].status = "claimed" /\ task'[t].claimedBy # Nobody
                /\ task'[t].lease # "none"
             \/ /\ task'[t].status # "claimed" /\ task'[t].claimedBy = Nobody
                /\ task'[t].lease = "none"
  <2>1. ASSUME NEW q \in requests, NEW S \in SUBSET Tasks, Claims(q, S), t \in S
        PROVE  task'[t].status = "claimed" /\ task'[t].claimedBy # Nobody /\ task'[t].lease # "none"
    <3>1. task'[t].status = "claimed" /\ task'[t].claimedBy = q.from /\ task'[t].lease = "live"
      BY <2>1 DEF Claims
    <3>2. QED
      BY <1>2, <3>1
  <2>2. ASSUME NEW q \in requests, NEW S \in SUBSET Tasks, Claims(q, S), t \notin S
        PROVE  task'[t] = task[t]
    BY <2>2 DEF Claims
  <2>3. ASSUME NEW q \in requests, Replies(q)
        PROVE  \/ task'[t] = task[t]
               \/ /\ task'[t].status = "claimed" /\ task'[t].claimedBy = q.from
                  /\ task'[t].lease = "live"
               \/ /\ task'[t].status # "claimed" /\ task'[t].claimedBy = Nobody
                  /\ task'[t].lease = "none"
    <3>1. CASE t = q.task
      BY <2>3, <3>1, SMTT(60) DEF Replies
    <3>2. CASE t # q.task
      BY <2>3, <3>2, SMTT(60) DEF Replies
    <3>3. QED
      BY <3>1, <3>2
  <2>4. CASE Ages
    <3>1. CASE task[t].status = "claimed"
      BY <1>1, <2>4, <3>1 DEF Ages
    <3>2. CASE task[t].status # "claimed"
      BY <1>1, <2>4, <3>2 DEF Ages
    <3>3. QED
      BY <3>1, <3>2
  <2>5. QED
    BY <1>2, <2>1, <2>2, <2>3, <2>4
<1>4. QED
  BY <1>1, <1>3

LEMMA TypesPreserved ==
  ASSUME IInv, [Next]_vars
  PROVE  TypeOK' /\ \A w \in Workers : worker'[w].started >= worker[w].started
<1>1. /\ task \in [Tasks -> Task] /\ retries \in [Tasks -> Seq(Nat)] /\ worker \in [Workers -> Worker]
      /\ requests \subseteq Request /\ budget \in [BudgetKinds -> Nat]
      /\ \A t \in Tasks : task[t] \in Task /\ task[t].attempts \in Nat
      /\ \A w \in Workers : worker[w].started \in Nat
  BY FieldTypes DEF IInv, TypeOK
<1> DEFINE Typed == /\ task' \in [Tasks -> Task] /\ retries' \in [Tasks -> Seq(Nat)]
                    /\ worker' \in [Workers -> Worker] /\ requests' \subseteq Request
                    /\ budget' \in [BudgetKinds -> Nat]
           Older == \A w \in Workers : worker'[w].started >= worker[w].started
           Row == \/ UNCHANGED task
                  \/ \E q \in requests : \E S \in SUBSET Tasks : Claims(q, S)
                  \/ \E q \in requests : Replies(q)
                  \/ Ages
<1>2. ASSUME UNCHANGED vars
      PROVE  Typed /\ Older /\ Row
  <2>1. UNCHANGED <<task, retries, worker, requests, budget>>
    BY <1>2 DEF vars
  <2>2. Typed /\ Older /\ Row
    BY <1>1, <2>1
  <2>3. QED
    BY <2>2
<1>3. ASSUME NEW w \in Workers, NEW q \in Request, Sends(w, q)
      PROVE  Typed /\ Older /\ Row
  <2>1. \A v \in Workers : worker'[v].started = worker[v].started
    BY <1>3 DEF Sends
  <2>2. Older
    BY <1>1, <2>1
  <2>3. Typed /\ Row
    BY <1>1, <1>3 DEF Sends
  <2>4. QED
    BY <2>2, <2>3
<1>4. ASSUME NEW w \in Workers, Changes(w), budget' \in [BudgetKinds -> Nat]
      PROVE  Typed /\ Older /\ Row
  <2>1. ASSUME NEW v \in Workers
        PROVE  worker'[v].started >= worker[v].started
    <3>1. worker[v].started \in Nat
      BY <1>1
    <3>2. worker'[v].started \in {worker[v].started, worker[v].started + 1}
      BY <1>4 DEF Changes
    <3>3. QED
      BY <3>1, <3>2
  <2>2. Older
    BY <2>1
  <2>3. Typed /\ Row
    BY <1>1, <1>4 DEF Changes
  <2>4. QED
    BY <2>2, <2>3
<1>5. ASSUME NEW q \in requests, NEW S \in SUBSET Tasks, Claims(q, S)
      PROVE  Typed /\ Older /\ Row
  <2>1. \A v \in Workers : worker'[v].started = worker[v].started
    BY <1>5 DEF Claims
  <2>2. Older
    BY <1>1, <2>1
  <2>3. Typed /\ Row
    BY <1>1, <1>5, ZenonT(60) DEF Claims
  <2>4. QED
    BY <2>2, <2>3
<1>6. ASSUME NEW q \in requests, Replies(q)
      PROVE  Typed /\ Older /\ Row
  <2>1. \A v \in Workers : worker'[v].started = worker[v].started
    BY <1>6 DEF Replies
  <2>2. Older
    BY <1>1, <2>1
  <2>3. retries' \in [Tasks -> Seq(Nat)]
    <3>1. \/ retries' = retries
          \/ /\ q.task \in Tasks
             /\ retries' = [retries EXCEPT ![q.task] = Append(@, task[q.task].attempts)]
      BY <1>6 DEF Replies
    <3>2. CASE retries' = retries
      BY <1>1, <3>2
    <3>3. ASSUME NEW t \in Tasks, NEW n \in Nat, retries' = [retries EXCEPT ![t] = Append(@, n)]
          PROVE  retries' \in [Tasks -> Seq(Nat)]
      <4>1. Append(retries[t], n) \in Seq(Nat)
        BY <1>1, AppendProperties
      <4>2. QED
        BY <1>1, <3>3, <4>1
    <3>4. QED
      BY <1>1, <3>1, <3>2, <3>3
  <2>4. Typed
    BY <1>1, <1>6, <2>3 DEF Replies
  <2>5. Row
    BY <1>6
  <2>6. QED
    BY <2>2, <2>4, <2>5
<1>7. ASSUME NEW q \in requests, requests' = requests \ {q}, UNCHANGED <<task, retries, worker, budget>>
      PROVE  Typed /\ Older /\ Row
  <2>1. Typed /\ Older /\ Row
    BY <1>1, <1>7
  <2>2. QED
    BY <2>1
<1>8. ASSUME Ages, budget' \in [BudgetKinds -> Nat]
      PROVE  Typed /\ Older /\ Row
  <2>1. Older
    BY <1>1, <1>8 DEF Ages
  <2>2. Typed
    BY <1>1, <1>8 DEF Ages
  <2>3. QED
    BY <1>8, <2>1, <2>2
<1> HIDE DEF Typed, Older, Row
<1>9. Typed /\ Older /\ Row
  BY <1>2, <1>3, <1>4, <1>5, <1>6, <1>7, <1>8, Steps
<1>10. \A t \in Tasks :
         /\ task'[t].status = "claimed" <=> task'[t].claimedBy # Nobody
         /\ task'[t].status = "claimed" <=> task'[t].lease # "none"
  BY <1>9, RowsKeepShape DEF Typed, Row
<1>11. QED
  BY <1>9, <1>10 DEF TypeOK, Typed, Older

\* The senders of the requests, the recorded retries and the processes that ended.
LEMMA SendersPreserved ==
  ASSUME IInv, [Next]_vars
  PROVE  RequestsHaveSenders'
<1>1. /\ \A w \in Workers : worker[w].started \in Nat /\ worker'[w].started \in Nat
                            /\ worker'[w].started >= worker[w].started
      /\ TypeOK
  BY TypesPreserved, FieldTypes DEF IInv, TypeOK, Worker
<1>2. ASSUME NEW q \in requests
      PROVE  /\ q.from \in Workers \X Nat
             /\ q.from[2] <= worker'[q.from[1]].started
             /\ q.kind # "claim" => q.task \in Tasks
  <2>1. /\ q.from \in Workers \X Nat
        /\ q.from[2] <= worker[q.from[1]].started
        /\ q.kind # "claim" => q.task \in Tasks
    BY DEF IInv, RequestsHaveSenders
  <2>2. PICK w \in Workers, n \in Nat : q.from = <<w, n>>
    BY <2>1
  <2>3. n <= worker[w].started
    BY <2>1, <2>2
  <2>4. n <= worker'[w].started
    BY <1>1, <2>3
  <2>5. QED
    BY <2>1, <2>2, <2>4
<1>3. ASSUME NEW w \in Workers, NEW q \in Request, Sends(w, q)
      PROVE  /\ q.from \in Workers \X Nat
             /\ q.from[2] <= worker'[q.from[1]].started
             /\ q.kind # "claim" => q.task \in Tasks
             /\ requests' = requests \cup {q}
  BY <1>1, <1>3, Identity DEF Sends
<1>4. \/ requests' \subseteq requests
      \/ \E w \in Workers : \E q \in Request : Sends(w, q)
  BY Steps, ZenonT(60) DEF vars, Changes, Claims, Replies, Ages
<1>5. QED
  BY <1>2, <1>3, <1>4 DEF RequestsHaveSenders

LEMMA IdlePreserved ==
  ASSUME IInv, [Next]_vars
  PROVE  EndedWorkersAreIdle'
<1>1. ASSUME NEW w \in Workers, NEW t \in Tasks, ~worker'[w].up
      PROVE  worker'[w].inFlight[t] = NoExecution
  <2>1. ~worker[w].up => worker[w].inFlight[t] = NoExecution
    BY DEF IInv, EndedWorkersAreIdle
  <2>2. CASE worker'[w] = worker[w]
    BY <1>1, <2>1, <2>2
  <2>3. ASSUME NEW v \in Workers, NEW q \in Request, Sends(v, q)
        PROVE  worker'[w] = worker[w]
    BY <1>1, <2>3 DEF Sends
  <2>4. ASSUME NEW v \in Workers, Changes(v)
        PROVE  worker'[w] = worker[w] \/ worker'[w].inFlight[t] = NoExecution
    BY <1>1, <2>4 DEF Changes
  <2>5. ASSUME NEW q \in requests, NEW S \in SUBSET Tasks, Claims(q, S)
        PROVE  worker'[w] = worker[w]
    BY <1>1, <2>5 DEF Claims, Asker
  <2>6. ASSUME NEW q \in requests, Replies(q)
        PROVE  worker'[w] = worker[w]
    BY <1>1, <2>6 DEF Replies, Asker
  <2>7. QED
    BY <2>2, <2>3, <2>4, <2>5, <2>6, Steps DEF vars, Ages
<1>2. QED
  BY <1>1 DEF EndedWorkersAreIdle

LEMMA RetriesPreserved ==
  ASSUME IInv, [Next]_vars
  PROVE  RetriesCount'
<1>1. /\ \A t \in Tasks : task[t].attempts \in Nat /\ task'[t].attempts \in Nat
  BY TypesPreserved, FieldTypes DEF IInv, TypeOK, Task
<1>2. ASSUME NEW t \in Tasks
      PROVE  \/ /\ retries'[t] = retries[t] /\ task'[t].attempts >= task[t].attempts
                /\ task'[t].status = "claimed" =>
                     task[t].status = "claimed" \/ task'[t].attempts > task[t].attempts
             \/ /\ task[t].status = "claimed" /\ task[t].attempts < MaxAttempts
                /\ retries' = [retries EXCEPT ![t] = Append(@, task[t].attempts)]
                /\ task'[t].attempts = task[t].attempts /\ task'[t].status # "claimed"
  <2> DEFINE Kept == /\ retries'[t] = retries[t] /\ task'[t].attempts >= task[t].attempts
                     /\ task'[t].status = "claimed" =>
                          task[t].status = "claimed" \/ task'[t].attempts > task[t].attempts
             Recorded == /\ task[t].status = "claimed" /\ task[t].attempts < MaxAttempts
                         /\ retries' = [retries EXCEPT ![t] = Append(@, task[t].attempts)]
                         /\ task'[t].attempts = task[t].attempts /\ task'[t].status # "claimed"
  <2>1. CASE UNCHANGED <<task, retries>>
    BY <1>1, <2>1
  <2>2. ASSUME NEW q \in requests, NEW S \in SUBSET Tasks, Claims(q, S)
        PROVE  Kept
    <3>1. CASE t \in S
      BY <1>1, <2>2, <3>1 DEF Claims
    <3>2. CASE t \notin S
      BY <1>1, <2>2, <3>2 DEF Claims
    <3>3. QED
      BY <3>1, <3>2
  <2>3. ASSUME NEW q \in requests, Replies(q)
        PROVE  Kept \/ Recorded
    <3>1. CASE t # q.task
      <4>1. task'[t] = task[t] /\ retries'[t] = retries[t]
        BY <2>3, <3>1 DEF Replies
      <4>2. QED
        BY <1>1, <4>1
    <3>2. CASE t = q.task
      BY <1>1, <2>3, <3>2 DEF Replies
    <3>3. QED
      BY <3>1, <3>2
  <2>4. CASE Ages
    BY <1>1, <2>4 DEF Ages
  <2>5. QED
    BY <2>1, <2>2, <2>3, <2>4, Steps DEF vars, Sends, Changes
<1>3. QED
  BY <1>1, <1>2, RetriesKept, RetryRecorded DEF RetriesCount

LEMMA InvariantIsInductive ==
  ASSUME IInv, [Next]_vars
  PROVE  IInv'
BY TypesPreserved, SendersPreserved, IdlePreserved, RetriesPreserved DEF IInv

LEMMA InvariantHoldsFirst ==
  ASSUME Init
  PROVE  IInv
<1>1. NewTask \in Task /\ NewTask.status = "queued" /\ NewTask.claimedBy = Nobody /\ NewTask.lease = "none"
  BY DEF NewTask, Task, Ids
<1>2. \A t \in Tasks : task[t] = NewTask
  BY DEF Init
<1>3. worker \in [Workers -> Worker] /\ \A w \in Workers : worker[w].up = TRUE
  <2> DEFINE row == [up |-> TRUE, draining |-> FALSE, started |-> 0, inFlight |-> Idle, waiting |-> FALSE]
  <2>1. row \in Worker /\ row.up = TRUE
    BY NothingInFlight DEF Worker
  <2>2. worker = [w \in Workers |-> row]
    BY DEF Init
  <2> HIDE DEF row
  <2>3. QED
    BY <2>1, <2>2
<1>4. task \in [Tasks -> Task] /\ retries \in [Tasks -> Seq(Nat)] /\ requests = {}
      /\ budget \in [BudgetKinds -> Nat] /\ \A t \in Tasks : retries[t] = <<>>
  BY <1>1, AllowedBudget DEF Init
<1>5. TypeOK
  BY <1>1, <1>2, <1>3, <1>4 DEF TypeOK
<1>6. RequestsHaveSenders /\ EndedWorkersAreIdle
  BY <1>3, <1>4 DEF RequestsHaveSenders, EndedWorkersAreIdle
<1>7. RetriesCount
  BY <1>4 DEF RetriesCount
<1>8. QED
  BY <1>5, <1>6, <1>7 DEF IInv

\* The rows, the recorded retries, the worker processes and the requests on their
\* way keep their types, and a row names a claimant and a lease exactly while it is
\* claimed (engine.activity_tasks, claimed_by and lease_expires_at).
THEOREM TypesAreCorrect == Spec => []TypeOK
<1>1. Init => IInv
  BY InvariantHoldsFirst
<1>2. IInv /\ [Next]_vars => IInv'
  BY InvariantIsInductive
<1>3. IInv => TypeOK
  BY DEF IInv
<1>4. QED
  BY <1>1, <1>2, <1>3, PTL DEF Spec

\* Whatever is lost, late or started again, the retries in a run's history count
\* attempts upwards and none is of the last attempt (FailRemoteActivityTask): the
\* counter is the row's attempt_count, which every claim raises, those that were
\* given up included.
THEOREM RetriesCountUpwards == Spec => []RetriesLeaveAnAttempt
<1>1. Init => IInv
  BY InvariantHoldsFirst
<1>2. IInv /\ [Next]_vars => IInv'
  BY InvariantIsInductive
<1>3. IInv => RetriesLeaveAnAttempt
  BY DEF IInv, RetriesCount, RetriesLeaveAnAttempt
<1>4. QED
  BY <1>1, <1>2, <1>3, PTL DEF Spec

(***************************************************************************)
(* The fence.  A worker that is started again has a name of its own; its   *)
(* predecessor's requests and claims are somebody else's.                  *)
(***************************************************************************)

LEMMA OwnName ==
  ASSUME KeepsId = FALSE, NEW w \in Workers
  PROVE  Id(w) = <<w, worker[w].started>> /\ Id(w)' = <<w, worker'[w].started>>
BY DEF Id

\* A send: the sender had no request on its way, and reports what it executes.
LEMMA SendIsFenced ==
  ASSUME IInv, Fenced, IInv', KeepsId = FALSE, NEW w \in Workers, NEW q \in Request, Sends(w, q)
  PROVE  Fenced'
<1>1. /\ requests' = requests \cup {q} /\ q.from = Id(w) /\ UNCHANGED task
      /\ \A v \in Workers : worker'[v].started = worker[v].started
      /\ worker[w].up /\ ~worker[w].waiting
      /\ \A v \in Workers : worker'[v].up = worker[v].up
      /\ \A v \in Workers : v # w => worker'[v] = worker[v]
      /\ worker'[w].waiting = TRUE
  BY DEF Sends
<1>2. \A v \in Workers : Id(v)' = Id(v)
  BY <1>1, OwnName, ZenonT(60)
<1>3. \A v \in Workers : Id(v) = Id(w) => v = w
  BY Identity DEF IInv
<1>4. \A p \in requests : p.from # q.from
  BY <1>1 DEF Fenced, OneRequestEach
<1>5. OneRequestEach'
  <2>1. \A p, r \in requests' : p.from = r.from => p = r
    BY <1>1, <1>4 DEF Fenced, OneRequestEach
  <2>2. ASSUME NEW v \in Workers, NEW r \in requests', worker'[v].up, r.from = Id(v)
        PROVE  worker'[v].waiting
    <3>1. CASE v = w
      BY <1>1, <3>1
    <3>2. CASE v # w
      <4>1. r # q
        BY <1>1, <1>3, <2>2, <3>2
      <4>2. r \in requests /\ worker[v].up /\ worker'[v] = worker[v]
        BY <1>1, <2>2, <3>2, <4>1
      <4>3. QED
        BY <2>2, <4>2 DEF Fenced, OneRequestEach
    <3>3. QED
      BY <3>1, <3>2
  <2>3. QED
    BY <1>2, <2>1, <2>2 DEF OneRequestEach
<1>6. ExecutionsFit'
  <2>1. ASSUME NEW v \in Workers, NEW t \in Tasks, worker'[v].inFlight[t] # NoExecution,
               ~worker'[v].inFlight[t].lost, task[t].claimedBy = Id(v)
        PROVE  worker'[v].inFlight[t].claim = task[t].attempts
    <3>1. worker'[v].inFlight[t] = worker[v].inFlight[t]
      BY <1>1, <2>1 DEF Sends
    <3>2. QED
      BY <2>1, <3>1 DEF Fenced, ExecutionsFit
  <2>2. ASSUME NEW r \in requests', r.kind # "claim", task[r.task].claimedBy = r.from
        PROVE  r.claim = task[r.task].attempts
    <3>1. CASE r = q
      BY <2>2, <3>1 DEF Sends, Fenced, ExecutionsFit
    <3>2. CASE r # q
      BY <1>1, <2>2, <3>2 DEF Fenced, ExecutionsFit
    <3>3. QED
      BY <3>1, <3>2
  <2>3. QED
    BY <1>1, <1>2, <2>1, <2>2 DEF ExecutionsFit
<1>7. OutcomeOfCurrentClaim'
  BY <1>1 DEF Fenced, OutcomeOfCurrentClaim
<1>8. QED
  BY <1>5, <1>6, <1>7 DEF Fenced

\* A change of a worker: one that is started again has sent nothing yet.
LEMMA ChangeIsFenced ==
  ASSUME IInv, Fenced, IInv', KeepsId = FALSE, NEW w \in Workers, Changes(w)
  PROVE  Fenced'
<1>1. requests' = requests /\ task' = task /\ \A v \in Workers : v # w => worker'[v] = worker[v]
  BY DEF Changes
<1>2. ASSUME NEW v \in Workers, NEW q \in requests, worker'[v].up, q.from = Id(v)'
      PROVE  worker'[v].waiting
  <2>1. CASE worker'[v].started = worker[v].started
    <3>1. q.from = Id(v)
      BY <1>2, <2>1, OwnName
    <3>2. worker[v].up => worker[v].waiting
      BY <3>1 DEF Fenced, OneRequestEach
    <3>3. CASE v = w
      <4>1. worker[w].started \in Nat
        BY FieldTypes DEF IInv
      <4>2. worker[w].up /\ (worker[w].waiting => worker'[w].waiting)
        BY <1>2, <2>1, <3>3, <4>1 DEF Changes
      <4>3. QED
        BY <3>2, <3>3, <4>2
    <3>4. CASE v # w
      BY <1>1, <1>2, <3>2, <3>4
    <3>5. QED
      BY <3>3, <3>4
  <2>2. CASE worker'[v].started # worker[v].started
    <3>1. v = w /\ worker'[w].started = worker[w].started + 1
      BY <1>1, <2>2 DEF Changes
    <3>2. q.from[1] = w /\ q.from[2] = worker[w].started + 1
      <4>1. q.from = <<v, worker'[v].started>>
        BY <1>2, OwnName
      <4>2. QED
        BY <3>1, <4>1
    <3>3. q.from[2] <= worker[w].started
      BY <3>2 DEF IInv, RequestsHaveSenders
    <3>4. worker[w].started \in Nat
      BY FieldTypes DEF IInv
    <3>5. QED
      BY <3>2, <3>3, <3>4
  <2>3. QED
    BY <2>1, <2>2
<1>3. ASSUME NEW v \in Workers, NEW t \in Tasks, worker'[v].inFlight[t] # NoExecution,
             ~worker'[v].inFlight[t].lost, task[t].claimedBy = Id(v)'
      PROVE  worker'[v].inFlight[t].claim = task[t].attempts
  <2>1. /\ worker'[v].started = worker[v].started /\ worker[v].inFlight[t] # NoExecution
        /\ worker'[v].inFlight[t].claim = worker[v].inFlight[t].claim
        /\ worker'[v].inFlight[t].lost = worker[v].inFlight[t].lost
    <3>1. CASE v = w
      BY <1>3, <3>1 DEF Changes
    <3>2. CASE v # w
      BY <1>1, <1>3, <3>2
    <3>3. QED
      BY <3>1, <3>2
  <2>2. task[t].claimedBy = Id(v)
    BY <1>3, <2>1, OwnName
  <2>3. QED
    BY <1>3, <2>1, <2>2 DEF Fenced, ExecutionsFit
<1>4. OneRequestEach'
  BY <1>1, <1>2 DEF Fenced, OneRequestEach
<1>5. ExecutionsFit'
  BY <1>1, <1>3 DEF Fenced, ExecutionsFit
<1>6. OutcomeOfCurrentClaim'
  BY <1>1 DEF Fenced, OutcomeOfCurrentClaim
<1>7. QED
  BY <1>4, <1>5, <1>6 DEF Fenced

\* The server takes a request away; its sender is the only one that has its answer.
LEMMA AnswerKeepsOneRequestEach ==
  ASSUME Fenced, KeepsId = FALSE, NEW q \in requests, requests' = requests \ {q},
         \A v \in Workers : /\ worker'[v].started = worker[v].started
                            /\ worker'[v].up = worker[v].up
                            /\ v \notin Asker(q) => worker'[v] = worker[v]
  PROVE  /\ OneRequestEach'
         /\ \A v \in Workers : Id(v)' = Id(v)
         /\ \A p \in requests' : p \in requests /\ p.from # q.from
<1>1. \A v \in Workers : Id(v)' = Id(v)
  BY OwnName
<1>2. \A p \in requests' : p \in requests /\ p.from # q.from
  BY DEF Fenced, OneRequestEach
<1>3. ASSUME NEW v \in Workers, NEW p \in requests', worker'[v].up, p.from = Id(v)
      PROVE  worker'[v].waiting
  <2>1. v \notin Asker(q)
    BY <1>2, <1>3 DEF Asker
  <2>2. QED
    BY <1>2, <1>3, <2>1 DEF Fenced, OneRequestEach
<1>4. OneRequestEach'
  BY <1>1, <1>2, <1>3 DEF Fenced, OneRequestEach
<1>5. QED
  BY <1>1, <1>2, <1>4

\* A claim: whoever holds the new claims executes them under their number.
LEMMA ClaimIsFenced ==
  ASSUME IInv, Fenced, KeepsId = FALSE, NEW q \in requests, NEW S \in SUBSET Tasks, Claims(q, S)
  PROVE  Fenced'
<1>1. requests' = requests \ {q}
      /\ \A v \in Workers : /\ worker'[v].started = worker[v].started
                            /\ worker'[v].up = worker[v].up
                            /\ v \notin Asker(q) => worker'[v] = worker[v]
  BY DEF Claims
<1>2. /\ OneRequestEach'
      /\ \A v \in Workers : Id(v)' = Id(v)
      /\ \A p \in requests' : p \in requests /\ p.from # q.from
  BY <1>1, AnswerKeepsOneRequestEach
<1>3. \A t \in Tasks : t \notin S => task'[t] = task[t]
  BY DEF Claims
<1>4. \A t \in S : /\ task'[t].status = "claimed" /\ task'[t].claimedBy = q.from
                   /\ task'[t].attempts = task[t].attempts + 1
  BY DEF Claims
<1>5. ASSUME NEW v \in Workers, NEW t \in Tasks, worker'[v].inFlight[t] # NoExecution,
             ~worker'[v].inFlight[t].lost, task'[t].claimedBy = Id(v)
      PROVE  worker'[v].inFlight[t].claim = task'[t].attempts
  <2>1. CASE t \in S
    <3>1. q.from = Id(v)
      BY <1>4, <1>5, <2>1
    <3>2. CASE v \in Asker(q)
      BY <1>4, <2>1, <3>2 DEF Claims
    <3>3. CASE v \notin Asker(q)
      <4>1. ~worker[v].up
        BY <3>1, <3>3 DEF Asker, Fenced, OneRequestEach
      <4>2. worker[v].inFlight[t] = NoExecution
        BY <4>1 DEF IInv, EndedWorkersAreIdle
      <4>3. QED
        BY <1>1, <1>5, <3>3, <4>2
    <3>4. QED
      BY <3>2, <3>3
  <2>2. CASE t \notin S
    <3>1. worker'[v].inFlight[t] = worker[v].inFlight[t]
      BY <1>1, <2>2 DEF Claims
    <3>2. QED
      BY <1>3, <1>5, <2>2, <3>1 DEF Fenced, ExecutionsFit
  <2>3. QED
    BY <2>1, <2>2
<1>6. ASSUME NEW p \in requests', p.kind # "claim", task'[p.task].claimedBy = p.from
      PROVE  p.claim = task'[p.task].attempts
  <2>1. p \in requests /\ p.from # q.from /\ p.task \in Tasks
    BY <1>2, <1>6 DEF IInv, RequestsHaveSenders
  <2>2. p.task \notin S
    BY <1>4, <1>6, <2>1
  <2>3. QED
    BY <1>3, <1>6, <2>1, <2>2 DEF Fenced, ExecutionsFit
<1>7. ExecutionsFit'
  BY <1>2, <1>5, <1>6 DEF ExecutionsFit
<1>8. OutcomeOfCurrentClaim'
  <2>1. ASSUME NEW t \in Tasks
        PROVE  task'[t] = task[t] \/ task'[t].status = "claimed"
    BY <1>3, <1>4
  <2>2. QED
    BY <2>1 DEF Fenced, OutcomeOfCurrentClaim
<1>9. QED
  BY <1>2, <1>7, <1>8 DEF Fenced

\* An answer about a task: an outcome is stored with the claim that it is for.
LEMMA ReplyIsFenced ==
  ASSUME IInv, Fenced, KeepsId = FALSE, NEW q \in requests, Replies(q)
  PROVE  Fenced'
<1>1. requests' = requests \ {q}
      /\ \A v \in Workers : /\ worker'[v].started = worker[v].started
                            /\ worker'[v].up = worker[v].up
                            /\ v \notin Asker(q) => worker'[v] = worker[v]
  BY DEF Replies
<1>2. /\ OneRequestEach'
      /\ \A v \in Workers : Id(v)' = Id(v)
      /\ \A p \in requests' : p \in requests /\ p.from # q.from
  BY <1>1, AnswerKeepsOneRequestEach
<1>3. ASSUME NEW t \in Tasks
      PROVE  \/ task'[t] = task[t]
             \/ task'[t].claimedBy = Nobody
             \/ /\ task'[t].status = "claimed" /\ task'[t].claimedBy = task[t].claimedBy
                /\ task'[t].attempts = task[t].attempts
  <2>1. CASE t = q.task
    BY <2>1 DEF Replies
  <2>2. CASE t # q.task
    BY <2>2 DEF Replies
  <2>3. QED
    BY <2>1, <2>2
<1>4. ASSUME NEW v \in Workers, NEW t \in Tasks, worker'[v].inFlight[t] # NoExecution,
             ~worker'[v].inFlight[t].lost, task'[t].claimedBy = Id(v)
      PROVE  worker'[v].inFlight[t].claim = task'[t].attempts
  <2>1. worker'[v].inFlight[t] = worker[v].inFlight[t]
    BY <1>4 DEF Replies
  <2>2. Id(v) # Nobody
    BY Identity DEF IInv
  <2>3. task'[t].claimedBy = task[t].claimedBy /\ task'[t].attempts = task[t].attempts
    BY <1>3, <1>4, <2>2
  <2>4. QED
    BY <1>4, <2>1, <2>3 DEF Fenced, ExecutionsFit
<1>5. ASSUME NEW p \in requests', p.kind # "claim", task'[p.task].claimedBy = p.from
      PROVE  p.claim = task'[p.task].attempts
  <2>1. p \in requests /\ p.task \in Tasks /\ p.from \in Workers \X Nat
    BY <1>2, <1>5 DEF IInv, RequestsHaveSenders
  <2>2. p.from # Nobody
    BY <2>1, NobodyIsNoWorker DEF Nobody
  <2>3. task'[p.task].claimedBy = task[p.task].claimedBy /\ task'[p.task].attempts = task[p.task].attempts
    BY <1>3, <1>5, <2>1, <2>2
  <2>4. QED
    BY <1>5, <2>1, <2>3 DEF Fenced, ExecutionsFit
<1>6. ExecutionsFit'
  BY <1>2, <1>4, <1>5 DEF ExecutionsFit
<1>7. ASSUME NEW t \in Tasks
      PROVE  \/ task'[t] = task[t]
             \/ task'[t].status = "claimed"
             \/ task'[t].reported = task'[t].attempts
  <2>1. CASE t = q.task
    <3>1. task[q.task].claimedBy = q.from => q.claim = task[q.task].attempts
      BY DEF Replies, Fenced, ExecutionsFit
    <3>2. QED
      BY <2>1, <3>1 DEF Replies
  <2>2. CASE t # q.task
    BY <2>2 DEF Replies
  <2>3. QED
    BY <2>1, <2>2
<1>8. OutcomeOfCurrentClaim'
  BY <1>7 DEF Fenced, OutcomeOfCurrentClaim
<1>9. QED
  BY <1>2, <1>6, <1>8 DEF Fenced

\* Time and a terminate give no claim to anybody.
LEMMA AgeIsFenced ==
  ASSUME IInv, Fenced, KeepsId = FALSE, Ages
  PROVE  Fenced'
<1>1. requests' = requests /\ worker' = worker
  BY DEF Ages
<1>2. \A v \in Workers : Id(v)' = Id(v)
  BY <1>1, OwnName
<1>3. ASSUME NEW t \in Tasks
      PROVE  /\ task'[t].attempts = task[t].attempts
             /\ task'[t].claimedBy \in {task[t].claimedBy, Nobody}
             /\ \/ task'[t].status = "cancelled"
                \/ task'[t].status = task[t].status /\ task'[t].reported = task[t].reported
  BY DEF Ages
<1>4. ASSUME NEW v \in Workers
      PROVE  Id(v) # Nobody
  BY Identity DEF IInv
<1>5. ASSUME NEW q \in requests
      PROVE  q.from # Nobody /\ (q.kind # "claim" => q.task \in Tasks)
  BY NobodyIsNoWorker DEF IInv, RequestsHaveSenders, Nobody
<1>6. OneRequestEach'
  BY <1>1, <1>2 DEF Fenced, OneRequestEach
<1>7. ExecutionsFit'
  BY <1>1, <1>2, <1>3, <1>4, <1>5 DEF Fenced, ExecutionsFit
<1>8. OutcomeOfCurrentClaim'
  BY <1>3 DEF Fenced, OutcomeOfCurrentClaim
<1>9. QED
  BY <1>6, <1>7, <1>8 DEF Fenced

LEMMA FenceIsInductive ==
  ASSUME IInv, Fenced, KeepsId = FALSE, [Next]_vars
  PROVE  Fenced'
<1>1. IInv'
  BY InvariantIsInductive
<1>2. CASE UNCHANGED vars
  BY <1>2 DEF vars, Fenced, OneRequestEach, ExecutionsFit, OutcomeOfCurrentClaim, Id
<1>3. ASSUME NEW q \in requests, requests' = requests \ {q}, UNCHANGED <<task, retries, worker, budget>>
      PROVE  Fenced'
  BY <1>3 DEF Fenced, OneRequestEach, ExecutionsFit, OutcomeOfCurrentClaim, Id
<1>4. QED
  BY <1>1, <1>2, <1>3, Steps, SendIsFenced, ChangeIsFenced, ClaimIsFenced, ReplyIsFenced, AgeIsFenced

\* With a name of its own for every worker process (as the SDK's default worker_id
\* is), an outcome that comes within the grace of a lease is never stored for a claim
\* made since: claimed_by fences what the row's attempt_count does not
\* (CompleteRemoteActivityTask and FailRemoteActivityTask compare the worker_id, and
\* no attempt).
THEOREM OutcomesFitTheirClaim ==
  ASSUME KeepsId = FALSE
  PROVE  Spec => []OutcomeOfCurrentClaim
<1>1. Init => IInv
  BY InvariantHoldsFirst
<1>2. IInv /\ [Next]_vars => IInv'
  BY InvariantIsInductive
<1>3. Init => Fenced
  <2>1. ASSUME Init
        PROVE  /\ requests = {}
               /\ \A w \in Workers, t \in Tasks : worker[w].inFlight[t] = NoExecution
               /\ \A t \in Tasks : task[t].status = "queued" /\ task[t].attempts = 0
    BY <2>1, NothingInFlight DEF Init, NewTask
  <2>2. QED
    BY <2>1 DEF Fenced, OneRequestEach, ExecutionsFit, OutcomeOfCurrentClaim
<1>4. IInv /\ Fenced /\ [Next]_vars => Fenced'
  BY FenceIsInductive
<1>5. Fenced => OutcomeOfCurrentClaim
  BY DEF Fenced
<1>6. QED
  BY <1>1, <1>2, <1>3, <1>4, <1>5, PTL DEF Spec

=============================================================================
