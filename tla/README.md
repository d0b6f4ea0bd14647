# Continua: specifications of the durable engine and its platform

This directory holds TLA+ specifications of Continua, the configurations that
model-check them with TLC, and theorems about them that TLAPS checks. Continua
records traces of AI agents (the *platform*: ingestion, storage, search, console)
and runs durable workflows (the *engine*). Workflows are replayed from an event
history, by workers that crash, are redeployed and lose their leases, while clients
signal, cancel and terminate runs; batches of spans arrive twice, out of order and in
several processes at once; and readers page through tables that are being written.

Contents: 1 Inventory, 2 Modules, 3 Runs, 4 Findings, 5 Proofs, 6 Abstractions,
7 Not modelled.

## 1. Inventory

Everything shares one PostgreSQL database. Processes keep almost no state of their
own: an engine process has poll loops, an API process serves requests, and the
database's row locks, unique keys and conditional updates are what coordinates them.

| Component | State | Operations | Interacts through | Module |
|---|---|---|---|---|
| workflow replay (`engine/internal/workflow/replay.go`) | `workflowRunner`: record, cursor, frontier, queued events | one method per context call; `execute` decides | called by the activation with a snapshot | WorkflowReplay |
| workflow worker, activation (`worker.go`, `activation.go`) | `engine.runs`, `engine.history` | claim, lock and fence, snapshot, replay, commit | run row lock, `claimed_by`, lease | EngineRun, ParentChild |
| activity worker (`engine/internal/activity/worker.go`) | `engine.activity_tasks` | claim, complete, fail, retry | compare-and-set on the task, wake of the run | EngineRun |
| inbox, timers, maintenance (`inbox.sql`, `maintenance.go`) | `engine.inbox` | deliver, list, process, discard, wake due runs | `available_at`, wake of the run | EngineRun |
| runtime process (`engine/pkg/runtime/runtime.go`, `notify.go`, `loop.go`) | loops, wakes, claims | start, listen, poll, drain, release | LISTEN/NOTIFY, contexts | RuntimeProcess |
| run control API (`internal/api/engine_control.go`) | – | start, signal, cancel, suspend, resume, terminate | run row lock, inbox, wake | EngineRun, ParentChild, StartRun |
| parent and child runs (`activation.go`) | `engine.child_workflows` | schedule, attach, wake parent, continue as new, cancel cascade | parent's row lock before the child's | ParentChild |
| remote activities (`engine_activities.go`, Python `worker.py`) | task rows, leases, executions | claim, heartbeat, complete, fail, drain | HTTP, leases with a grace period | RemoteActivity |
| request dedupe (`engine_control_helpers.go`) | `engine.request_dedupe` | claim, finalise, replay, reap | row lock of the request key | StartRun |
| definition catalog (`catalog/publisher.go`) | `engine.definition_catalog` | publish, beat, check | liveness window | StartRun |
| projector, projection writer | `public.traces`, checkpoints | project a history row, direct status writes | projection barrier, trace row locks | Projection |
| purge, repair, backfill, retention (`internal/enginecontrol`) | projection state | purge, repair, reap | run and trace locks | Projection |
| ingestion (`internal/ingest`) | batches, payloads, traces | ingest, accept, lock, write | batch key, trace row locks | IngestBatches |
| background jobs (`internal/jobs`) | River jobs | process, retry, roll up, clean up | job queue (at least once) | IngestBatches |
| comparison (`internal/store/session_compare.go`) | – | validate, count, list, pair, report | five statements over rows being written | SessionCompare |
| lists and search (`search.go`, `session_search.go`, pagination) | a reader's offset | list, count, turn page | two statements per page | Listing |
| session narrative (`session_narrative.go`) | – | summarise, list, link | three statements | SessionNarrative |
| trace timeline (`timeline.go`, `useTraceTimeline.ts`) | a page's cursor and view | fetch, poll, refetch | cursor over merged entries | TraceTimeline |
| workflow simulator (`workflowtest.go`, `sim.go`) | a simulated run | activate, resolve, deliver | the replay | Simulator |

`PROJECT.json` lists the same components with their sources and status, and those
that are not modelled.

**Hard behaviours.** *Leases*: a claim's owner may be slow rather than dead, so two
workers can hold one run or task in their hands. *Replay*: every activation starts the
function again and must meet exactly the events its predecessors recorded, in between
rows that others appended. *Wakes*: a run that waits is put back to the queue by whoever
stores what it waits for; a wake that finds it running does nothing, so whoever reads
before such a store and waits after it is lost. *Ends*: cancel, terminate, completion and
late outcomes race. *Families*: the locks of parents, children and whole subtrees meet.
*Delivery*: requests, answers, jobs and notifications are lost, repeated and late; a
commit's answer can be lost. *Reads*: a page or a report is put together from statements
that see different states. *Time*: `NOW()` is a transaction's start. *Failures*: a process
may die between any two transactions. `PROJECT.json` "hazards" names these line by line,
with the properties that would catch each going wrong.

## 2. Modules

Each component has a module with its state and one action per operation, a `...Properties`
module that states what it promises, and, for TLC, an `MC...` module with the instances.
`...Proofs` modules hold theorems. `\* Mutated:` marks operators that nothing uses: each
is a plausible bug, put just before the definition it would replace, that shows that a
property can fail.

```
WorkflowReplay  <-- EngineRun <-- EngineRunProperties --INSTANCE--> DurableExecution
      ^                                 ^         ^
      |                           MCEngineRun   EngineRunProofs <-- RunJournalProofs
  Simulator
ParentChild, RemoteActivity, Projection,
IngestBatches, StartRun                     <-- ...Properties <-- MC..., ...Proofs
RuntimeProcess                              <-- ...Properties <-- ...Proofs
SessionCompare, TraceTimeline, RuntimeProcess,
Listing, SessionNarrative, Simulator        <-- ...Properties --INSTANCE-- MCComponents
```

### The engine

**WorkflowReplay** is `replay.go`. A workflow function is abstracted to the sequence of
context calls it makes (`Command`: an operation and a key; a call that would schedule work without a key returns
`ErrEmptyKey` and does nothing, so it is no command); payloads are left out. `runner`
is `workflowRunner`: `log`/`cursor` are `replayEvents`/`cursor`, `frontier` is
`pendingFrontier`, `outcomes` is `pendingActivities`, and `queued`, `consumed`, `newTask`,
`newTimer`, `wait` are what the decision carries. A loop of the code is one action per
iteration. `Advancing`, `RecordedCancelNext` and `FrontierCancelNext` are `advanceState`,
which each context call runs first. `suspended` and `resumed` rows are dropped when the
runner is built, which the model does when the cursor meets them. "marker" stands for
`Now`, `SideEffect` and `SetCustomStatus`. A call that meets an event it cannot match takes
`Diverge`, the quarantine.

**EngineRun** adds the database rows and the processes: `status`, `claimedBy`, `leaseLive`,
`waitingFor` are columns of `engine.runs`; `history`, `tasks`, `inbox` the rows of one run,
`armed` its timers that are not due. `lock` is the run's row lock. `TransitionRunTo...` are
the queries of that name. One action is one transaction, except where the code's
transaction can be overtaken: an activation is `ClaimNextRun`, `BeginTx` (fixes `NOW()`,
hence `horizon`), `StartReplay` (lock, fence, snapshot), the steps of the replay and one
`Commit...`; an outcome is `StartOutcome` (the compare-and-set and the wake, which sees the
run's committed status because it has not locked it) and `CommitOutcome`; the maintenance
worker lists due runs and wakes them later; a shutdown ends the loops before it releases
claims. Workers crash at any step, which rolls back their transaction and leaves their
claims to their leases. A lease expires when its owner is down, or, within a bound, when it
is only slow.

**DurableExecution** is what a workflow author is promised: the calls take effect one after
the other, each at most once, as if one process had executed the function without
interruption. `EngineRunProperties` maps a run's history and status to it.

**ParentChild** composes runs into families. The functions are arbitrary: at each call a
function may do anything the call allows (`Habits` says what), so what holds, holds for
every function. A run is its status, its pending call and its inbox; `children` are the
relationship rows. An activation locks the parent's row (`LockParent`), then its own
(`LockRun`), hears what has become of the child it awaits, and commits one of: wait, start
or attach a child, end, continue as new, quarantine. A terminate locks the parent, the target
and the active descendants level by level, one row per step, and lists the next level only
after it has locked one, so that activations can come in between everywhere.

**RemoteActivity** has the requests as messages that are served late, answered, or lost
with or without having taken effect; the worker is `worker.py`'s loop: claims, executions,
heartbeats, lost leases, draining and restart. `lease` distinguishes live, within the
completion grace, and over. `reported` records which claim produced the stored outcome.

**Projection** has a run that its transactions take from start to end, the rows of its
history, and the trace with its state, checkpoint, statuses and spans. The projector
selects a row without a lock (`Select`) and writes it under the barrier (`Project`). All other
writers of the trace are there: claims, activations, controls, outcome transactions (whose
unlocked read, `ReadForSummary`, is a step of its own), purge, repair and retention.

**StartRun** is `StartRun` with `claimStartRequestDedupe`: the insert of the key, the wait
for another that has not committed, the second round when the row has been reaped, the
definition check, the instance and the stored answer. The other half is the catalog: a
runtime that starts rewrites it, beats put entries back.

**RuntimeProcess** is one engine process: the listener with `LISTEN` channels that break
and come back, bounded subscriber buffers, `mergeWakeChannels` with its goroutine's hand,
the loops (`drain` until nothing is found, then wait for a wake or the interval), the
servers, the two contexts with the shutdown grace, and the release of claims at the end.

**Simulator** is the test kit: it activates the function with WorkflowReplay's actions over
rows that it makes up itself, until the function ends, blocks or exceeds the cap.

### The platform

**IngestBatches**: a request claims its batch key, locks traces in their order, writes and
commits, with its retries on conflict, or accepts the batch for a job. A job claims, loads,
writes, waits for traces that others bring, retries, fails for good, and resolves a commit
whose answer it lost. Rollups read the version, compute, update and check, in statements
of their own. River is external: it executes a job at least once and one execution at a
time, and runs it again after a failure or a crash.

**SessionCompare**: the statements of a comparison between which traces are written, the
matching by id, the rounds of matching by place whose groups come in any order, the rows and
the summary. **TraceTimeline**: entries from events, starts and ends of spans, their order
and cursors, and the page's first fetch, polls and last fetch. **Listing**: the lists of
traces and sessions with filter, order, count and offset, and the reader that turns pages and
repairs an offset past the end. **SessionNarrative**: summary, list and links of a session's
traces. None of the four changes what it reads; what varies is what is written between
its statements and requests.

**MCComponents** holds the TLC instances of the last six. They share no state, so a
behaviour of it is a behaviour of one of them, chosen by the initial state.

## 3. Runs

Deadlock is not checked anywhere: every one of these systems may come to rest (a run that
has ended, a reader who has turned the last page).

| Run | Instance | Checks |
|---|---|---|
| `rolling` | builds that wait for two signals, or record a value and run a second activity, or lack the version; 3 workflow and 2 activity workers | `ActivationFence`, `SignalsInOrder`, `ActivityJournal`, `HistoryFitsABuild`, `OutcomeDecidedByClaimant` |
| `escalation` | timer, cancellation point, signal, activity; cancel, suspend, resume, terminate | `InboxJournal`, `ReplayNeverDiverges`, `EndedRunIsSettled`, `ImplementsDurableExecution` |
| `undisturbed` | activity, marker, timer; 2 + 2 workers | `ReachesRest` (liveness) |
| `family` | parent, child and grandchild that continue as new; 2 workers, a terminate, a crash | `WaitsForOpenChild`, `RelationshipFollowsChild`, `TerminateReachesSubtree`, `CancelIsPassedOn`, `LocksAreOrdered`, `FamilyRests` (liveness) |
| `repeated_key` | a parent that asks for one key again and goes on after refusals; signal, cancel, terminate | `HeardIsTheChildsEnd` |
| `remote` | one task, 2 remote workers, 2 attempts; a failure, a late lease, a terminate | `OutcomeOfCurrentClaim`, `RetriesLeaveAnAttempt`, `EveryTaskEnds` (liveness) |
| `projection` | two activities, one projector; signal, retry, 2 purges, repair, crash | `StateTellsTheTruth`, `DetailFollowsHistory`, `EndIsShown`, `CatchesUp` (liveness) |
| `ingest` | 2 clients, 2 batches that share 2 traces; 2 conflicts, a crash | `WrittenWithItsCompletion`, `AcceptedIsRunnable`, `BatchesLockInOrder`, `SettledRollupIsExact`, `AcceptedIsFinished` (liveness) |
| `start` | 2 clients, 2 keys for one instance, 2 builds; 4 requests, a failure, 2 deployments, 2 reaps | `AnswersAgree`, `RunIsAnswered`, `CatalogFollowsRuntimes` (liveness) |
| `components` | six components in small (see `MCComponents`) | `ComparedByPlace`, `TimelineIsComplete`, `WaitingIsWoken`, `StopsCleanly`, `SimulatedAsWritten`, `WalkIsComplete`, `NarrativeIsSound`, `StopsInTheEnd` (liveness) |
| `lost_activity_wake` | activity, signal | `ReachesRest` violated: finding 1 |
| `lost_rollup` | two batches of one trace | `RollupsCatchUp` violated: finding 2 |

**Bounds and why they are enough.** Two processes of a kind suffice for a takeover (the old
claimant and the new); `rolling` has three workers for three builds. `MaxAttempts = 2`
gives an attempt, a retry and a refused retry. Two signals give an order. A suspension
and its resumption take two requests; a continuation past the follow limit takes two runs of
an instance, and three levels of runs a descendant that is not a child. Two batches that
share two traces in opposite roles (one brings both, one refers to the other's) give the
lock order and the dependency; two rollup passes give the loop and its end. Two request keys
for one instance give the conflict, four requests a repetition of each. Three spans a side
are all forests with a circle, an unknown parent and a shared id. One row a page makes every
page boundary. Workers that are down in EngineRun stay down: an incarnation has a fresh
identity in the code (`runtime.go:242`), and a further one would repeat the second. Workers of
one kind are symmetric where all run one build; runs with liveness use no symmetry. Every
bound on the environment is an `Allowed` budget (a number of signals, crashes, lost
answers, ...) that actions spend, so bounded behaviours are those in which no further fault
happens, not cut off ones.

**Fairness and why the code justifies it.** Of the engine's own processes only: each loop
goes on while its process is up (`worker/loop.go`), functions and handlers return, leases of
dead owners expire, timers come due. Weak fairness suffices for each but three actions of
`RemoteActivity`: a remote worker's loop alternates between requests, so that a claim,
a report or the end of a lease is possible again and again but not continuously, and
strong fairness says that a worker that keeps asking is answered in the end. A worker
whose process was lost is started again by whoever runs it (`Restart`). Nothing is assumed of
clients, crashes, early leases, or of a particular process staying up: `LeaveWorker`
(EngineRun) keeps one of each kind alive at a time, which a deployment that restarts
processes gives. River runs a job again until it returns without an error. RuntimeProcess
assumes that an iteration ends when its context is cancelled, which the code does by
passing that context to every statement and handler.

## 4. Findings

Two runs violate what the repository says of itself.

1. `lost_activity_wake`. A signal wakes a run while its activity is executed. The activation
   reads the task as unfinished; the activity worker then stores the outcome, and its
   `WakeWaitingRun` finds the run *running* and does nothing (`activity/worker.go:107`); the
   activation commits *waiting*. Nothing wakes the run again. Parent and child runs take the
   parent's lock to rule this out (`activation.go:163-166`); the outcome transaction locks no
   run. `undisturbed` shows that it needs someone else to wake the run.
2. `lost_rollup`. A rollup's insert is skipped while a job of the trace is running
   (`jobargs.go:17-23`); a batch that commits after that job has read the version for the last
   time leaves its spans uncounted, until another batch names the trace (`trace_rollup.go:76`).

**Behaviours the models also show**, each by a change of one constant or instance, that
readers of this code should know of:

* *A late signal.* An activation reads the inbox with `available_at <= NOW()`, its
  transaction's start; a signal committed after that and before the run's lock is invisible,
  and its wake finds the run running (`inbox.sql:20`, `activation.go:57-65`). Run
  `lost_activity_wake` with a function that only awaits the signal shows it.
* *An ended child.* A call whose key belongs to a child that has ended attaches and waits;
  nothing wakes the parent (`activation.go:621`). `family` with the habit "repeatsKey".
* *A cascade wakes nobody.* A cancelled parent's children get a cancel row but no wake
  (`activation.go:829`): one that waits for a signal is left waiting. That is why
  `FamilyRests` lets a run rest that waits for a signal, whatever else it has received.
* *A refused child* leaves no history row, so a function that goes on after the refusal is
  quarantined at its next replay (`replay.go:763`): `diverged` in ParentChild.
* *A kept worker id.* Remote claims are compared by worker id only, so a late report of a
  restarted worker's former process is taken for its present claim: `remote` with
  `KeepsId = TRUE`.
* *Two projectors* may write one row twice, the second time after later rows, and so reopen a
  span (`projector.go:624`): `projection` with a second projector.
* *A run failed for want of its version* keeps its open tasks (`activation.go:96`): a retry
  reopens even an expired trace, and a late summary may overwrite its end. `EndIsShown` and
  `DetailFollowsHistory` say where they stop.
* *A stale status.* `SyncRunSummary` writes a status that was read without a lock
  (`activity/worker.go:112`): a run that is running may be shown as queued until its next write.
* *Keys after their retention.* A key that was reaped and is used again is answered
  `instance_conflict`, as the instance keeps its run. A starting runtime deletes other
  builds' catalog entries until those beat again.
* *Lists.* Filtered, searched and sorted lists are counted before they are read
  (`search.go:239`), others after; an insert in between can end a filtered walk one page
  early. A trace that gets an earlier start, another session or a status outside the filter
  moves the rows behind it past an offset reader. `NothingMissed` says what remains.
* *Narratives.* `truncated` compares the first statement's total with the second's rows. A
  trace's receipt counts as activity, so traces sent in one batch are rarely linked by
  inference.
* *Timelines.* Single polls miss entries that are inserted before the cursor; a span that
  goes from an end back to running takes its entry away, and if the cursor was on it, polls
  are answered `invalid_cursor` for ever. The last fetch makes the page complete, but a first
  fetch of several pages under which the trace ends has none. `EndIsComplete` says so.
* *Processes.* An error of one poll ends the whole process; with two servers the failure
  of one goes unnoticed until both have ended.

## 5. Proofs

TLC checks small instances; the theorems hold for all values of the constants that satisfy
the named assumptions: any sets of workers, keys, clients, batches, traces, any functions, any
budgets (hence any number of faults and requests).

`EngineRunProofs` (assumptions: workers and `None` are distinct, deployed functions are
sequences of commands, signal names are keys, the attempt limit is positive):

* `TypesAreCorrect`: inductive with `ReplayPosition` (the program counter and cursor of a
  replay stay within the function and its record, and a replay past a schedule event is
  inside a call of that kind), without which `program[pc]` and `log[cursor + 1]` would have no
  type. One lemma per replay action.
* `ActivationsAreFenced`: inductive with `WakeHoldsLock` (an activity worker whose wake was
  applied holds the run's row, and the run waits). Whoever changes the run's row or history
  finds the lock free (`UnlockedStep`), and then no activation is in progress; every other
  step leaves row and history alone (`ElsewhereStep`). So an activation that holds the lock
  finds at its commit what it read.
* `OutcomesAreDecidedOnce`: from `FinishingHoldsTask` (an activity worker in its outcome
  transaction still owns the claim, as claims skip a locked task row and cancellation waits).

Its second part, without further assumptions: `InboxIsJournalled` and `SignalsAreInOrder`. Every step of the run is one
of six, as far as inbox and history are concerned (`Reads`: a row arrives, another transaction
appends an event, an activation begins, replays, commits, or nothing happens; `StepsRead`), and
every replay step keeps, writes, takes a row, or gives up (`ReplayReads`). The inductive
invariant `InboxInv` says that the history carries exactly the processed rows (`Carried`), in
order and with nothing skipped (`InOrder`, `EarlierToo`), and of a replay in progress that its
unwritten events carry exactly the rows it has taken, which are still pending
(`FollowsOn`), and that it has passed over no row before one it has in hand
(`NothingPassedOver`). A run that has not ended has discarded nothing. A commit is then the
concatenation of two sequences that carry different rows (`CarriedTogether`,
`OrderedTogether`): a signal of the replay cannot be older than one of the history, as the
history would have received it first.

`RunJournalProofs`: `ActivitiesAreJournalled`, with no further
assumption, and `EndedRunsAreSettled`, for workers whose builds all register the run's version
(`Registered = Workers`; a build that does not fails the run and leaves its tasks and timers
open, activation.go:96, and then the property is false). Every step is one of seven as far as
history, tasks and timers are concerned (`Steps`, `StepsClassified`). The inductive invariant of the
run is `JournalInv`:

* `WorkIsAwaited`: an activity or timer that the history schedules is awaited at once. Until
  its outcome nothing follows but its own retries and what other transactions append (the
  run is suspended, resumed, asked to cancel), and a cancellation only before the first retry.
* `HistoryIsOrdered`: an outcome is the last event of its activity, and an activity is
  scheduled once, also by a function that asks for one key again: `UNIQUE (run_id,
  activity_key)` refuses the commit; `TaskHasEvents`: a task row exists exactly if it was
  scheduled, and an outcome in the history is the row's; `RetriesCounted`: every recorded retry is of an attempt
  of its own and has left one. Without the last, `MaxAttempts` bounds the row and not the
  history.
* `TimerIsAwaited`: a timer is armed or has one row in the inbox, and only while awaited.
* `ReplayInv`: what a replay has read and queued is such a history as well; it queues at most
  one event that schedules work and then decides, and the outcomes it was given are the rows'
  (nobody may store another before it has committed).

`EndInv` (an ended run has nothing open, and ends with its event) is inductive on top of it: a
commit that completes a run finds nothing that is awaited, and the other ends cancel
what is.

Its second part: `HistoriesFitABuild`, if there is a worker; any functions may be deployed side
by side. A property of the history alone is not inductive: what may follow depends on where in
its function the run stands. `Told(program, events, n, s)` says that the first `n` events are
the trace of an uninterrupted execution of `program` that stands at `s` (the call it is at, whether
that one is scheduled or has its outcome, whether a cancellation is known, what was returned);
`Accepts` and `Leads` say to which standing an event leads and `Silently` what the function does
between two events. The inductive invariant `TraceInv`: while the run is open, its history is
told by a deployed function, which waits for every open task (`TracedBy`); the events that a
replay in progress has read and queued are told by the function of its build, as far as it
has come (`TracedReplay`, `OnTrace`); once the run has ended its history is produced by a
build. Every replay step goes past an event, takes one, goes on in the function, or stops
(`ReplayTreads`), and each of them keeps the replay on its trace (`ReplaysOnTrace`). What other
transactions append leads back to where the function stood, or from a scheduled call to its
outcome, because the task it belongs to is awaited. The commit of a quarantine writes nothing:
the history stays one of the build that wrote it. `ToldIsProduced` draws the conclusion: a
told history completes and schedules each call at its place in the function, by counting.

Two theorems build on it, for workers of one build (`OneBuild`; several may run, and there is
one). `OneBuildNeverDiverges`: `SteadyInv` adds to `TraceInv` that what is left of the record
in front of a replay is what the function does from where it stands (`Foreseen`), and that,
once it has passed a cancellation point, the next event is that of a call (`CallIsNext`), not a
lifecycle event or a cancel. At the start of an activation that is `TracedBy`. It stays so because a trace has one continuation: a standing accepts an event in
one way and a cancellation point none (`AcceptsOnce`, `NextCallIsOne`), so the replay takes the
event that the earlier execution took (`NextIsTaken`, `ForeseenFurther`), and the event it
meets is one that its call matches (`ForeseenFits`). With two builds a replay may diverge, and the
quarantine is what keeps `HistoriesFitABuild`.

`RunsAreDurable`, if that build registers the run's version (otherwise the run fails without an
error of the function, which `DurableExecution` does not allow): the refinement under the
mapping of `EngineRunProperties` (`Journal`, `Outcome`). The invariant is `RunInv`, `TraceInv` and `EndInv`.
`JournalTells` reads a told history as a beginning of the function's effects (`EffectsOf`):
each entry is the effect of its place, and an error that the function does not handle can only be the last
(`UnhandledIsLast`). `JournalGoesOn` says that a commit keeps the former entries and adds effects,
`SameJournal` that what other transactions append adds none. Then `CommittedDurably` maps a
commit that waits to `Advance` or a stutter, one that ends the run to `Complete`, `Fail` or
`Cancel`, and `StepsDurably` a terminate to `Terminate` and everything else to a stutter; that a retry can no
longer change an ended run is `EndInv`.

`StartRunProofs` (assumptions: each request asks for an instance and a definition, runtimes
serve definitions, `None` is no key): `TypesAreCorrect`, `OneAnswerPerKey`, `RunsAreAnswered`
and `InstancesAreFinal`. `AnswersAgree` alone is not inductive: a commit might answer a key
that has an answer. `ClaimsAreExclusive` (of the requests of one key at most one is past the
insert, and then the key has no stored outcome) and `CreationsAreExclusive` (of the requests
that create one instance at most one has not committed, and then the instance is free) close
the gap. The frame lemmas treat the steps that touch one request only.

`IngestBatchesProofs` (assumptions: `Rank` is injective, a batch defines only traces that it
refers to, names are distinct, limits are positive): `TypesAreCorrect`, `BatchesAreWrittenOnce`,
`AcceptedStaysRunnable`, `LocksFollowTheOrder`, `SpansBelongToATrace`, `EndedBatchesStayEnded`,
`SettledRollupsAreExact`.
The inductive invariant `Inv` adds: `ClientsAgree` and `JobsAgree` (what the status of a batch
says at every stage of its request or job, in particular that nobody else is past its claim),
`LocksAgree` (a trace is locked by one transaction, locks are below what is still to be
locked, and before the write all referred traces exist or are brought along), `TracesAgree` and
`RollupsAgree`. `WrittenWithItsCompletion` needs the first two, as a job that is run again must
find the status that its former execution left. `SettledRollupsAreExact` adds `ReadingsHold`: a
rollup pass whose version no commit has overtaken has counted every span there is.

`ParentChildProofs` (assumptions: clients start instances of the model, `Rank` orders run
ids, which are unique, `None` and "signal" name no instance, workers are not clients, limits
are positive): families of any size and depth. `IInv` is inductive: `Family` (runs,
relationships and calls agree about who is whose child, and `RelationshipFollowsChild`),
`ClaimsAreFenced` (one worker per running run), `ViewsAreCurrent` (what an activation has
read under its locks is still so), `Exclusion` (no row is locked twice) and `Requests` (what a
terminate on its way down holds and has listed). The argument is one of rely and guarantee:
`Within(L, own)` says what a step under the row locks `L` may change, every action satisfies
it for the locks it holds, and whatever another process relies on is covered by rows that it
has locked itself, which are not in `L`. From it:

* `TypesAreCorrect`, `RelationshipsFollowTheirChildren`.
* `LocksAreTakenInOrder`: an ancestor is less deep than its descendants (`RunsHaveParents`), and
  a terminate takes one level after the other, each by id (`RequestTakesLevels`).
* `TerminateTakesTheSubtree`: each active child of a row that a terminate has listed is
  locked or still on its list (`RequestDescends`), and nobody can add one, as a child is
  started or continued under its parent's lock.
* `CancelReachesChildren`, `HistoryTellsTheChildsEnd`: with `Moves`, how a relationship may change.
* `NoWakeIsLost`: for functions that do not call one child key twice in one run
  (`"repeatsKey" \notin Habits`), as in run `family`; with the habit it is false (section 4).

`RemoteActivityProofs` (assumptions: a run has finitely many tasks, "nobody" is no worker, the
limits are positive): `TypesAreCorrect` and `RetriesCountUpwards` from `IInv` (`RetriesCount`:
recorded retries are of attempts before the claim in progress; requests are from processes
that were started; a process that has ended executes nothing). `OutcomesFitTheirClaim` assumes
`KeepsId = FALSE`, that each worker process has an id of its own, which is the SDK's default; it
is false otherwise (section 4). Its invariant `Fenced`: a process has one request on its way
and waits for it, and an execution or report whose id is still on the row is of the row's
latest attempt.

`ProjectionProofs`: `TypesAreCorrect`, `LabelIsTheTruth` and `EndsAreShown` hold for any number of
projectors. `Base` says that the trace knows the newest row and that no projector has read
more than there is; `Life` (`Settled`, `JournalShape`) that a run that does not fail ends without
open tasks, that a pending outcome is of an open task, and that an activity's outcome is
recorded once and after its schedule row: nobody is left to write an earlier status over an
end. `DetailIsTheHistorys` is for one projector (`\A p, q \in Projectors : p = q`; with two it
is false, section 4). Its invariant `Detail` adds that the projector's target is the row
after the checkpoint, whatever was purged or repaired since it was selected.

`RuntimeProcessProofs` (assumption `Wired`: the buffers are not empty, and a process with a
workflow and an activity loop listens for runs, as runtime.go:265-281 starts them together): `TypesAreCorrect`,
`WakesAreNotLost` and `ProcessStopsCleanly`, for every set of loops, channels and servers, whatever
arrives, breaks or fails, for the properties as `RuntimeProcessProperties` states them
(`MCComponents` checks them through an instance). A wake that is under way stays so
until its loop takes it or the connection is lost (`UnderWayStays`: what a full buffer refuses is
not lost, as it holds a wake), a row comes with a wake (`ToldIsSent`) and a new connection wakes
every channel (`ConnectedIsSent`); for that a loop must listen where its rows are told of (`Heard`).
`Ending` says that a process that is to stop has a reason to (a request, a failed loop, servers that
were noticed to have failed) and that the release finds all loops ended; with `Released` and
`Answered` it decides which claims remain and what `Run` answers.

Two definitions were corrected because a proof did not go through: `Answer` (`ParentChild`) and
`SpanUpTo` (the reference definition in `ProjectionProperties`) were `CASE`s whose arms overlap,
of which TLC takes the first and the logic any. Both state their order now.

**Only model-checked.** All liveness properties, their fairness and the two findings
(liveness and ENABLED are out of the prover's reach); whatever is computed
by recursion over data (`SessionCompare`, folds); and the safety properties of the
components in `MCComponents` other than `RuntimeProcess`.

## 6. Abstractions and assumptions

* A workflow function is deterministic and its calls do not depend on results, apart from
  errors of activities it handles and the cancellation points at which it returns
  (`EngineRun`); in `ParentChild` it is arbitrary. The functions of the runs of `EngineRun` have
  distinct activity and timer keys; its theorems hold for all functions.
* Clocks of the database and the processes agree. There is no metric time: a delay is
  something that ends.
* PostgreSQL's abort of one of two deadlocked transactions is a crash and retry of the
  transaction. Run locks are modelled in `ParentChild`, trace locks in `IngestBatches`, and
  `BatchesLockInOrder` and `LocksAreOrdered` say that these cannot deadlock one another; the
  cycle of an outcome transaction (task, then run) with a terminate (run, then tasks) exists
  in the code and is not modelled step by step.
* Payloads, names, counters, leases' timestamps, metrics and log lines are left out.
* Projection has one run; its activities are scheduled, retried and ended as the outcome
  transactions of the activity worker do it.
* Request keys: a row without an outcome is never committed, so renewal and expiry have
  nothing to act on. Publication by a runtime is atomic.
* River discards a job after its last attempt; the model has no such limit, so
  `AcceptedIsFinished` is about batches whose jobs are not given up. Any error while a
  payload is loaded is terminal in the code, and in the model.
* The order of equal rows within a text search's match classes is any fixed order.
* Comparison: events may refer to spans that do not exist; they are counted by the size
  check, not reported. Spans whose parents form a circle are in no row.

## 7. Not modelled

OTLP normalisation and payload truncation are pure conversions of wire formats whose cases
the tests list; retry backoff is one formula, and no property here depends on a delay's
length. Routing, authentication and configuration keep no state. The Python client's
buffer and the generated code hold nothing that coordination depends on: what a client
repeats or reorders is IngestBatches's environment. Of the partly modelled components:
`GetVersion` only matters to functions that branch on its value; the test kit's scripted
children follow ParentChild's rules in one process; the engine's read endpoints are single
statements; the command line's cancel differs from the API's in that a duplicate cancel
row fails its transaction (`runtime_commands.go:480`) instead of waking the run.
