----------------------------- MODULE ParentChild -----------------------------
(***************************************************************************)
(* Families of runs: a run starts child runs and waits for them, children  *)
(* start children of their own and continue as new runs, and clients       *)
(* signal, cancel and terminate any of them.  A client's terminate and the *)
(* activations of parent and child lock the same run rows.                 *)
(*                                                                         *)
(* The workflow functions are arbitrary: at each context call a function   *)
(* may do anything the call allows, so what holds here holds for every     *)
(* function.  How one run is replayed, fenced and woken is the matter of   *)
(* EngineRun; an activation here is what it commits, step by step where    *)
(* other processes can come between.                                       *)
(*                                                                         *)
(* Sources: engine/internal/workflow/{activation,replay}.go,               *)
(* engine/db/queries/child_workflows.sql, internal/api/engine_control.go.  *)
(***************************************************************************)
EXTENDS Integers, Sequences, SequencesExt

CONSTANTS
    Instances,   \* workflow instances, by instance key
    Roots,       \* the instances that clients have started
    MaxNumber,   \* bound on the runs of one instance
    MaxChildDepth,
    MaxContinuationFollowDepth,
    Habits,      \* what the workflow functions may do besides calling and returning
    Workers,
    Clients,
    Rank,        \* Rank[r]: the place of r's id among the ids of its depth
    Allowed,     \* bounds: signals, cancels, terminates, crashes
    None

ASSUME RootsAreInstances == Roots \subseteq Instances
ASSUME Limits ==
    /\ MaxNumber \in Nat \ {0}
    /\ MaxChildDepth \in Nat
    /\ MaxContinuationFollowDepth \in Nat \ {0}
ASSUME KnownHabits == Habits \subseteq {"repeatsKey", "handlesRefusal", "continues", "receives"}
ASSUME Processes == Workers \cap Clients = {}

Runs == Instances \X (1..MaxNumber)
First(i) == <<i, 1>>
Successor(r) == <<r[1], r[2] + 1>>

ASSUME RankOrders == Rank \in [Runs -> Nat] /\ \A r, q \in Runs : Rank[r] = Rank[q] => r = q
ASSUME NoneIsNothing == None \notin Runs \cup Instances \cup {"signal"}
ASSUME SignalIsNoInstance == "signal" \notin Instances

BudgetKinds == {"signals", "cancels", "terminates", "crashes"}
ASSUME AllowedBudget == Allowed \in [BudgetKinds -> Nat]

VARIABLES
    runs,      \* engine.runs with their pending engine.inbox rows
    children,  \* engine.child_workflows, by child instance
    worker,    \* the workflow workers and their activations in progress
    client,    \* the terminate requests in progress
    budget

vars == <<runs, children, worker, client, budget>>

Terminal == {"completed", "failed", "cancelled", "continued_as_new", "terminated"}
Open == {"queued", "running", "waiting", "quarantined"}
Calls == Instances \cup {"signal", None}
Items == {"signal", "cancel"}

\* A run row; `call' is the context call its history ends with, and what it waits
\* for.  `unrecorded' says that the function went on after a child call was
\* refused, `diverged' that something has been recorded since.
Run == [status : Open \cup Terminal \cup {"none"}, parent : Runs \cup {None},
        depth : Nat, call : Calls, inbox : Seq(Items), cancelSent : BOOLEAN,
        unrecorded : BOOLEAN, diverged : BOOLEAN]

NewRun(parent, depth) ==
    [status |-> "queued", parent |-> parent, depth |-> depth, call |-> None,
     inbox |-> <<>>, cancelSent |-> FALSE,
     unrecorded |-> FALSE, diverged |-> FALSE]
NoRun == [NewRun(None, 0) EXCEPT !.status = "none"]

Outcomes == {"completed", "failed", "cancelled", "terminated"}

\* A relationship row; `heard' is the outcome in the parent's history.
Child == [status : {"none", "active"} \cup Outcomes, parent : Runs \cup {None},
          current : 0..MaxNumber, continuations : Nat, waitFailed : BOOLEAN,
          heard : {"none", "wait_failed"} \cup Outcomes]
NoChild == [status |-> "none", parent |-> None, current |-> 0,
            continuations |-> 0, waitFailed |-> FALSE, heard |-> "none"]

\* A worker holds nothing, a claim, or an activation that has locked the parent's
\* row, or both rows.  `view' is what the activation has made of its run's row, and
\* `answer' the outcome of the awaited child that it has read.
Worker == [pc : {"idle", "claimed", "parentLocked", "locked"},
           run : Runs \cup {None}, view : Run, answer : {"none", "wait_failed"} \cup Outcomes]
Idle == [pc |-> "idle", run |-> None, view |-> NoRun, answer |-> "none"]

\* A terminate request: the rows it has locked, those it has listed and still has
\* to lock, and the locked rows whose children it has not listed yet.
Client == [pc : {"idle", "begun", "parentLocked", "descending"},
           target : Runs \cup {None}, locked : SUBSET Runs,
           listed : SUBSET Runs, unlisted : SUBSET Runs, subtree : SUBSET Runs]
NoRequest == [pc |-> "idle", target |-> None, locked |-> {},
              listed |-> {}, unlisted |-> {}, subtree |-> {}]

TypeOK ==
    /\ runs \in [Runs -> Run]
    /\ children \in [Instances -> Child]
    /\ worker \in [Workers -> Worker]
    /\ client \in [Clients -> Client]
    /\ budget \in [BudgetKinds -> Nat]

Init ==
    /\ runs = [r \in Runs |-> IF r[1] \in Roots /\ r[2] = 1 THEN NewRun(None, 0) ELSE NoRun]
    /\ children = [c \in Instances |-> NoChild]
    /\ worker = [w \in Workers |-> Idle]
    /\ client = [k \in Clients |-> NoRequest]
    /\ budget = Allowed

Current(c) == <<c, children[c].current>>
ActiveChildren(r) == {c \in Instances : children[c].parent = r /\ children[c].status = "active"}

(***************************************************************************)
(* Row locks.                                                              *)
(***************************************************************************)

\* Mutated: an activation locks its own row only.
OwnRowOnly(w) == IF worker[w].pc = "locked" THEN {worker[w].run} ELSE {}

WorkerLocks(w) ==
    CASE worker[w].pc = "parentLocked" -> {runs[worker[w].run].parent} \ {None}
      [] worker[w].pc = "locked" -> {worker[w].run, runs[worker[w].run].parent} \ {None}
      [] OTHER -> {}

Unlocked(r) ==
    /\ \A w \in Workers : r \notin WorkerLocks(w)
    /\ \A k \in Clients : r \notin client[k].locked

(***************************************************************************)
(* The life of an activation.                                              *)
(***************************************************************************)

\* ClaimNextRun skips locked rows.  A run whose worker is gone is running until
\* its lease has expired.
Claim(w, r) ==
    /\ worker[w].pc = "idle"
    /\ Unlocked(r)
    /\ \/ runs[r].status = "queued"
       \/ runs[r].status = "running" /\ \A v \in Workers : worker[v].run # r
    /\ runs' = [runs EXCEPT ![r].status = "running"]
    /\ worker' = [worker EXCEPT ![w] = [Idle EXCEPT !.pc = "claimed", !.run = r]]
    /\ UNCHANGED <<children, client, budget>>

\* lockRunAfterParent, first half.
LockParent(w) ==
    /\ worker[w].pc = "claimed"
    /\ LET parent == runs[worker[w].run].parent IN parent = None \/ Unlocked(parent)
    /\ worker' = [worker EXCEPT ![w].pc = "parentLocked"]
    /\ UNCHANGED <<runs, children, client, budget>>

\* advanceState takes the cancels at the head of the pending rows.
Advanced(row) ==
    IF row.inbox # <<>> /\ Head(row.inbox) = "cancel"
    THEN [row EXCEPT !.inbox = Tail(@)]
    ELSE row

\* Mutated: the limit on continuations is not looked at.
MarkedFailed(c) == children[c].waitFailed

\* childWorkflowWaitFailed.
WaitFailed(c) ==
    \/ children[c].waitFailed
    \/ children[c].continuations >= MaxContinuationFollowDepth

\* applyPendingChildWorkflowOutcome: a failed wait comes before the child's end.
Answer(c) ==
    IF WaitFailed(c) THEN "wait_failed"
    ELSE IF children[c].status \in Outcomes THEN children[c].status
    ELSE "none"

\* ListChildWorkflowOutcomesByParentRun: the run waits for one child at a time.
AnswerTo(call) == IF call \in Instances THEN Answer(call) ELSE "none"

\* lockRunAfterParent, second half, the claim fence (a run that was terminated
\* meanwhile is dropped), and the reads of the activation.
LockRun(w) ==
    /\ worker[w].pc = "parentLocked"
    /\ LET r == worker[w].run
           call == runs[r].call
       IN /\ Unlocked(r)
          /\ worker' =
               IF runs[r].status = "running"
               THEN [worker EXCEPT ![w].pc = "locked", ![w].view = Advanced(runs[r]),
                                   ![w].answer = AnswerTo(call)]
               ELSE [worker EXCEPT ![w] = Idle]
    /\ UNCHANGED <<runs, children, client, budget>>

\* A worker dies; its transaction is rolled back and its locks are released.
Crash(w) ==
    /\ worker[w].pc # "idle"
    /\ budget["crashes"] > 0
    /\ worker' = [worker EXCEPT ![w] = Idle]
    /\ budget' = [budget EXCEPT !["crashes"] = @ - 1]
    /\ UNCHANGED <<runs, children, client>>

(***************************************************************************)
(* The function's context calls, in the activation of a run.  Past the     *)
(* start of the activation the function is in its last recorded call, or,  *)
(* with none pending, free to make another.  A function whose history has  *)
(* an event where it made its refused call has diverged from it.           *)
(***************************************************************************)

Mine(w) == worker[w].run
View(w) == worker[w].view
Activating(w) == worker[w].pc = "locked" /\ ~runs[Mine(w)].diverged
Free(w) == Activating(w) /\ View(w).call = None
HasSignal(row) == \E i \in 1..Len(row.inbox) : row.inbox[i] = "signal"

\* The call returns: its event is recorded, and the next call begins.
Returned(row) == Advanced([row EXCEPT !.call = None, !.diverged = row.unrecorded])

HearChild(w) ==
    /\ Activating(w)
    /\ View(w).call \in Instances
    /\ worker[w].answer # "none"
    /\ worker' = [worker EXCEPT ![w].view = Returned(@)]
    /\ UNCHANGED <<runs, children, client, budget>>

WithoutSignal(row) == [row EXCEPT !.inbox = RemoveFirst(@, "signal")]

ReceiveSignal(w) ==
    /\ Activating(w)
    /\ View(w).call = "signal" \/ (View(w).call = None /\ "receives" \in Habits)
    /\ HasSignal(View(w))
    /\ worker' = [worker EXCEPT ![w].view = Returned(WithoutSignal(@))]
    /\ UNCHANGED <<runs, children, client, budget>>

\* A child that is bound elsewhere: to another parent run, or not a child at all.
BoundElsewhere(r, c) ==
    \/ c \in Roots
    \/ children[c].status # "none" /\ children[c].parent # r

\* ChildWorkflowWithOptions, validateChildWorkflowScheduling: the call returns an
\* error and records nothing.
Refused(r, c) == runs[r].depth >= MaxChildDepth \/ BoundElsewhere(r, c)

RefuseChild(w) ==
    /\ Free(w)
    /\ "handlesRefusal" \in Habits
    /\ ~View(w).unrecorded
    /\ \E c \in Instances : Refused(Mine(w), c)
    /\ worker' = [worker EXCEPT ![w].view.unrecorded = TRUE]
    /\ UNCHANGED <<runs, children, client, budget>>

(***************************************************************************)
(* The commit of an activation.                                            *)
(***************************************************************************)

MarkChildWorkflowParentWaitFailed(relation) == [relation EXCEPT !.waitFailed = TRUE]

\* Mutated: the failed wait is not marked in the relationship.
HeardNotMarked(w) ==
    LET c == runs[Mine(w)].call
    IN IF c \in Instances /\ View(w).call = None
       THEN [children EXCEPT ![c].heard = worker[w].answer]
       ELSE children

\* The outcome that this activation heard, in the parent's history, with the mark
\* of a failed wait (commitChildWaitFailures).
Heard(w) ==
    LET c == runs[Mine(w)].call
    IN IF c \in Instances /\ View(w).call = None
       THEN [children EXCEPT ![c] =
               LET heard == [@ EXCEPT !.heard = worker[w].answer]
               IN IF worker[w].answer = "wait_failed"
                  THEN MarkChildWorkflowParentWaitFailed(heard)
                  ELSE heard]
       ELSE children

\* Mutated: a parent that has other children active is not woken.
WokenByLast(rows, relation, c) ==
    LET p == relation.parent
    IN IF \/ relation.waitFailed \/ rows[p].status # "waiting" \/ rows[p].call # c
          \/ \E d \in Instances \ {c} : children[d].parent = p /\ children[d].status = "active"
       THEN rows
       ELSE [rows EXCEPT ![p].status = "queued"]

\* WakeWaitingChildWorkflowRun, unless the parent has given the child up.
Woken(rows, relation, c) ==
    LET p == relation.parent
    IN IF relation.waitFailed \/ rows[p].status # "waiting" \/ rows[p].call # c
       THEN rows
       ELSE [rows EXCEPT ![p].status = "queued"]

\* The call is still unanswered: wait again.
WaitAgain(w) ==
    /\ Activating(w)
    /\ \/ View(w).call \in Instances /\ worker[w].answer = "none"
       \/ View(w).call = "signal" /\ ~HasSignal(View(w))
    /\ runs' = [runs EXCEPT ![Mine(w)] = [View(w) EXCEPT !.status = "waiting"]]
    /\ worker' = [worker EXCEPT ![w] = Idle]
    /\ UNCHANGED <<children, client, budget>>

AwaitSignal(w) ==
    /\ Free(w)
    /\ "receives" \in Habits
    /\ ~HasSignal(View(w))
    /\ runs' = [runs EXCEPT ![Mine(w)] = [View(w) EXCEPT !.status = "waiting", !.call = "signal"]]
    /\ children' = Heard(w)
    /\ worker' = [worker EXCEPT ![w] = Idle]
    /\ UNCHANGED <<client, budget>>

\* commitNewChildWorkflow: scheduled and started are recorded, and the run waits.
WaitsFor(w, c) == [View(w) EXCEPT !.status = "waiting", !.call = c, !.diverged = View(w).unrecorded]

\* ChildWorkflowWithOptions at the end of the record: the call is a new one.
CallsChild(w, c) == Free(w) /\ ~Refused(Mine(w), c)

\* getOrCreateChildInstance, CreateChildRun and CreateChildWorkflow.
StartChild(w, c) ==
    /\ CallsChild(w, c)
    /\ children[c].status = "none"
    /\ runs' = [runs EXCEPT ![Mine(w)] = WaitsFor(w, c),
                            ![First(c)] = NewRun(Mine(w), runs[Mine(w)].depth + 1)]
    /\ children' = [Heard(w) EXCEPT ![c] = [NoChild EXCEPT !.status = "active",
                                                         !.parent = Mine(w), !.current = 1]]
    /\ worker' = [worker EXCEPT ![w] = Idle]
    /\ UNCHANGED <<client, budget>>

\* createOrAttachChildExecution: the key of an earlier call of the same run.
AttachChild(w, c) ==
    /\ Free(w)
    /\ "repeatsKey" \in Habits
    /\ children[c].parent = Mine(w)
    /\ runs' = [runs EXCEPT ![Mine(w)] = WaitsFor(w, c)]
    /\ children' = Heard(w)
    /\ worker' = [worker EXCEPT ![w] = Idle]
    /\ UNCHANGED <<client, budget>>

\* UpdateChildWorkflowTerminal: only the current run ends an active relationship.
EndedChildren(relations, ended, outcome) ==
    [c \in Instances |->
       IF relations[c].status = "active" /\ <<c, relations[c].current>> \in ended
       THEN [relations[c] EXCEPT !.status = outcome]
       ELSE relations[c]]

\* A run row whose pending items are discarded.
Closed(row, outcome) == [row EXCEPT !.status = outcome, !.inbox = <<>>]

TransitionRunToContinuedAsNew(row) == Closed(row, "continued_as_new")

\* EnqueueInboxItem for a cancel, which a run is sent once.
CancelSent(row) ==
    IF row.cancelSent THEN row
    ELSE [row EXCEPT !.inbox = Append(@, "cancel"), !.cancelSent = TRUE]

\* Mutated: a cancelled run leaves its children alone.
CascadeForgotten(rows, r) == rows

\* enqueueChildCancelCascade: the item is inserted; nothing wakes the child.
Cascade(rows, r) ==
    [q \in Runs |->
       IF \E c \in ActiveChildren(r) : q = Current(c) THEN CancelSent(rows[q]) ELSE rows[q]]

\* commitChildTerminalTransition: the relationship ends and the parent is woken.
EndChild(w, rows) ==
    LET r == Mine(w)
    IN IF runs[r].parent = None
       THEN runs' = rows
       ELSE runs' = Woken(rows, children[r[1]], r[1])

EndRun(w, outcome) ==
    /\ Free(w)
    /\ EndChild(w, [runs EXCEPT ![Mine(w)] = [View(w) EXCEPT !.status = outcome]])
    /\ children' = EndedChildren(Heard(w), {Mine(w)}, outcome)
    /\ worker' = [worker EXCEPT ![w] = Idle]
    /\ UNCHANGED <<client, budget>>

\* The function returns ErrCancelled, which it may do whenever it likes; only then
\* is a cancellation passed on.
CancelledRun(w) ==
    /\ Free(w)
    /\ LET r == Mine(w)
       IN EndChild(w, Cascade([runs EXCEPT ![r] = Closed(View(w), "cancelled")], r))
    /\ children' = EndedChildren(Heard(w), {Mine(w)}, "cancelled")
    /\ worker' = [worker EXCEPT ![w] = Idle]
    /\ UNCHANGED <<client, budget>>

\* Mutated: the relationship stays with the run that continued.
NotFollowed(relation) == [relation EXCEPT !.continuations = @ + 1]

\* UpdateChildWorkflowContinuation.
Followed(relation) == [relation EXCEPT !.current = @ + 1, !.continuations = @ + 1]

\* commitContinuationDecision: pending items are discarded, and the parent is woken
\* when it is to follow no further.
ContinueAsNew(w) ==
    /\ Free(w)
    /\ "continues" \in Habits
    /\ LET r == Mine(w)
           c == r[1]
           child == runs[r].parent # None
           followed == Followed(children[c])
           rows == [runs EXCEPT ![r] = TransitionRunToContinuedAsNew(View(w)),
                                ![Successor(r)] = NewRun(runs[r].parent, runs[r].depth)]
       IN /\ r[2] < MaxNumber
          /\ runs' = IF child /\ followed.continuations >= MaxContinuationFollowDepth
                     THEN Woken(rows, followed, c)
                     ELSE rows
          /\ children' = IF child THEN [Heard(w) EXCEPT ![c] = followed] ELSE Heard(w)
    /\ worker' = [worker EXCEPT ![w] = Idle]
    /\ UNCHANGED <<client, budget>>

\* replayMismatch.
Quarantine(w) ==
    /\ worker[w].pc = "locked"
    /\ runs[Mine(w)].diverged
    /\ runs' = [runs EXCEPT ![Mine(w)].status = "quarantined"]
    /\ worker' = [worker EXCEPT ![w] = Idle]
    /\ UNCHANGED <<children, client, budget>>

(***************************************************************************)
(* Clients.                                                                *)
(***************************************************************************)

Spend(kind) == budget[kind] > 0 /\ budget' = [budget EXCEPT ![kind] = @ - 1]
IsOpen(r) == runs[r].status \in Open

\* wakeRunIfWaiting: whatever the run waits for.
WokenByClient(row) == IF row.status = "waiting" THEN [row EXCEPT !.status = "queued"] ELSE row

SignalSent(row) == [row EXCEPT !.inbox = Append(@, "signal")]

SignalRun(r) ==
    /\ Unlocked(r)
    /\ IsOpen(r)
    /\ Spend("signals")
    /\ runs' = [runs EXCEPT ![r] = WokenByClient(SignalSent(@))]
    /\ UNCHANGED <<children, worker, client>>

CancelRun(r) ==
    /\ Unlocked(r)
    /\ IsOpen(r)
    /\ Spend("cancels")
    /\ runs' = [runs EXCEPT ![r] = WokenByClient(CancelSent(@))]
    /\ UNCHANGED <<children, worker, client>>

BeginTerminate(k, r) ==
    /\ client[k].pc = "idle"
    /\ runs[r].status # "none"
    /\ Spend("terminates")
    /\ client' = [client EXCEPT ![k] = [NoRequest EXCEPT !.pc = "begun", !.target = r]]
    /\ UNCHANGED <<runs, children, worker>>

TerminateLocksParent(k) ==
    /\ client[k].pc = "begun"
    /\ LET parent == runs[client[k].target].parent
       IN /\ parent = None \/ Unlocked(parent)
          /\ client' = [client EXCEPT ![k].pc = "parentLocked", ![k].locked = {parent} \ {None}]
    /\ UNCHANGED <<runs, children, worker, budget>>

\* A target that has ended meanwhile is left as it is.
TerminateLocksTarget(k) ==
    /\ client[k].pc = "parentLocked"
    /\ LET r == client[k].target
       IN /\ Unlocked(r)
          /\ client' = IF IsOpen(r)
                       THEN [client EXCEPT ![k].pc = "descending", ![k].locked = @ \cup {r},
                                           ![k].unlisted = {r}, ![k].subtree = {r}]
                       ELSE [client EXCEPT ![k] = NoRequest]
    /\ UNCHANGED <<runs, children, worker, budget>>

\* lockActiveDescendantRuns lists a level when all of the level above is locked ...
ListChildren(k) ==
    /\ client[k].pc = "descending"
    /\ client[k].listed = {}
    /\ client[k].unlisted # {}
    /\ client' = [client EXCEPT
                    ![k].listed = {Current(c) : c \in UNION {ActiveChildren(r) : r \in client[k].unlisted}},
                    ![k].unlisted = {}]
    /\ UNCHANGED <<runs, children, worker, budget>>

\* Mutated: descendants are locked in any order.
AnyOfLevel(r, level) == r \in level

\* ... and locks it in the order of the run ids.
NextOfLevel(r, level) == r \in level /\ \A q \in level : Rank[r] <= Rank[q]

LockDescendant(k, r) ==
    /\ NextOfLevel(r, client[k].listed)
    /\ Unlocked(r)
    /\ client' = IF IsOpen(r)
                 THEN [client EXCEPT ![k].locked = @ \cup {r}, ![k].listed = @ \ {r},
                                     ![k].unlisted = @ \cup {r}, ![k].subtree = @ \cup {r}]
                 ELSE [client EXCEPT ![k].locked = @ \cup {r}, ![k].listed = @ \ {r}]
    /\ UNCHANGED <<runs, children, worker, budget>>

\* terminateChildRelationship of each row of the subtree.
RelationsTerminated(ended) == EndedChildren(children, ended, "terminated")

\* The subtree is terminated in one transaction; only the target's parent is woken.
CommitTerminate(k) ==
    /\ client[k].pc = "descending"
    /\ client[k].listed = {}
    /\ client[k].unlisted = {}
    /\ LET target == client[k].target
           ended == client[k].subtree
           rows == [r \in Runs |-> IF r \in ended THEN Closed(runs[r], "terminated") ELSE runs[r]]
       IN /\ runs' = IF runs[target].parent = None THEN rows
                     ELSE Woken(rows, children[target[1]], target[1])
          /\ children' = RelationsTerminated(ended)
    /\ client' = [client EXCEPT ![k] = NoRequest]
    /\ UNCHANGED <<worker, budget>>

(***************************************************************************)
(* The specification.                                                      *)
(***************************************************************************)

Commit(w) ==
    \/ WaitAgain(w)
    \/ AwaitSignal(w)
    \/ \E c \in Instances : StartChild(w, c) \/ AttachChild(w, c)
    \/ \E outcome \in {"completed", "failed"} : EndRun(w, outcome)
    \/ CancelledRun(w)
    \/ ContinueAsNew(w)
    \/ Quarantine(w)

Progress(w) ==
    \/ LockParent(w)
    \/ LockRun(w)
    \/ HearChild(w)
    \/ ReceiveSignal(w)
    \/ RefuseChild(w)
    \/ Commit(w)

Request(k) ==
    \/ TerminateLocksParent(k)
    \/ TerminateLocksTarget(k)
    \/ ListChildren(k)
    \/ \E r \in Runs : LockDescendant(k, r)
    \/ CommitTerminate(k)

Next ==
    \/ \E w \in Workers : Progress(w) \/ Crash(w) \/ \E r \in Runs : Claim(w, r)
    \/ \E r \in Runs : SignalRun(r) \/ CancelRun(r)
    \/ \E k \in Clients : Request(k) \/ \E r \in Runs : BeginTerminate(k, r)

\* Workers poll for ever, and a request that has begun is carried out.
Fairness ==
    /\ \A w \in Workers : WF_vars(Progress(w)) /\ WF_vars(\E r \in Runs : Claim(w, r))
    /\ \A k \in Clients : WF_vars(Request(k))

Spec == Init /\ [][Next]_vars /\ Fairness
=============================================================================
