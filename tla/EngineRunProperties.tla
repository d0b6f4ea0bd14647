------------------------ MODULE EngineRunProperties -------------------------
(***************************************************************************)
(* What a durable run promises: properties of EngineRun, each about        *)
(* several rows or several processes at once.                              *)
(***************************************************************************)
EXTENDS EngineRun, FiniteSets

Events == 1..Len(history)

(***************************************************************************)
(* The activation.                                                         *)
(***************************************************************************)

\* An activation that holds the run's lock still owns the run and replays the
\* whole of its history, whatever crashes, leases, retries and control requests
\* do meanwhile.  So the claimed_by condition of every commit in commitDecision
\* (activation.go:305-405) holds, and no commit collides on (run_id, sequence_no).
ActivationFence ==
    \A w \in Workers : wf[w].pc = "active" => lock = w /\ HasClaim(w) /\ runner.log = history

\* A build that has not changed replays every history it has written: whatever
\* was appended between two activations (retries, suspend and resume rows,
\* consumed cancels), no context call ever meets an event it cannot match
\* (replayMismatch, replay.go:1111).
ReplayNeverDiverges == runner.decision # "quarantined"

(***************************************************************************)
(* The inbox and the history.                                              *)
(***************************************************************************)

EventOf(kind) ==
    CASE kind = "signal" -> "signal.received"
      [] kind = "timer" -> "timer.fired"
      [] kind = "cancel" -> "cancel.requested"

\* An inbox row is processed exactly if one event of the history carries it, and
\* then exactly one, of its kind and key: nothing is delivered twice or lost by a
\* crash or a stale activation between reading the inbox and committing.
InboxJournal ==
    \A i \in 1..Len(inbox) :
       LET carriers == {n \in Events : history[n].item = i}
       IN /\ inbox[i].status = "processed" <=> carriers # {}
          /\ \A n \in carriers :
               /\ carriers = {n}
               /\ history[n].type = EventOf(inbox[i].kind)
               /\ history[n].key = inbox[i].key

\* Signals of one name are received in the order in which they were sent, and
\* none is skipped (ReceiveSignal, replay.go:968-993).
SignalsInOrder ==
    /\ \A m, n \in Events :
         /\ m < n
         /\ history[m].type = "signal.received" /\ history[n].type = "signal.received"
         /\ history[m].key = history[n].key
         => history[m].item < history[n].item
    /\ \A i, j \in 1..Len(inbox) :
         /\ i < j
         /\ inbox[i].kind = "signal" /\ inbox[j].kind = "signal" /\ inbox[i].key = inbox[j].key
         /\ inbox[j].status = "processed"
         => inbox[i].status = "processed"

(***************************************************************************)
(* Activities.                                                             *)
(***************************************************************************)

OutcomeEvents == {"activity.completed", "activity.failed"}
OutcomeEvent == [completed |-> "activity.completed", failed |-> "activity.failed"]
ActivityEvents(k) ==
    {n \in Events : history[n].key = k
                    /\ history[n].type \in OutcomeEvents \cup
                         {"activity.scheduled", "activity.retry_scheduled"}}

\* The history of an activity reads scheduled, retries, at most one outcome; it
\* begins with the row of the task and its outcome is the row's, although the row
\* is claimed, retried and finished by workers that do not hold the run.  There
\* are fewer retries than attempts allowed.
ActivityJournal ==
    \A k \in Keys :
       LET events == ActivityEvents(k)
           retries == {n \in events : history[n].type = "activity.retry_scheduled"}
       IN /\ tasks[k].status = "none" <=> events = {}
          /\ \A n \in events :
               history[n].type = "activity.scheduled" <=> \A m \in events : n <= m
          /\ \A n \in events :
               history[n].type \in OutcomeEvents =>
                  /\ \A m \in events : m <= n
                  /\ tasks[k].status \in {"completed", "failed"}
                  /\ history[n].type = OutcomeEvent[tasks[k].status]
          /\ Cardinality(retries) < MaxAttempts

\* Only the worker whose claim the row carries decides an activity's outcome, and
\* a decided or cancelled row never changes again: an attempt that outlived its
\* lease and a claim that was taken over cannot both count.
OutcomeDecidedByClaimant ==
    [][\A k \in Keys :
         tasks'[k] # tasks[k] =>
            /\ tasks[k].status \notin {"completed", "failed", "cancelled"}
            /\ tasks'[k].status \in {"completed", "failed"} =>
                  \E a \in ActivityWorkers :
                     /\ aw[a].pc = "finishing" /\ aw[a].key = k /\ aw'[a] = IdleActivityWorker
                     /\ tasks[k].claimedBy = a /\ tasks[k].status = "claimed"]_vars

(***************************************************************************)
(* The end of a run.                                                       *)
(***************************************************************************)

StatusEvent == [completed |-> "workflow.completed", failed |-> "workflow.failed",
                cancelled |-> "workflow.cancelled", terminated |-> "workflow.terminated"]

\* A terminal run's history ends with the event of its status, which no other
\* event repeats, and a run that is not terminal has recorded no ending.
EndingRecordedOnce ==
    /\ IsTerminal => Len(history) > 0 /\ history[Len(history)].type = StatusEvent[status]
    /\ \A n \in Events : history[n].type \in EndingEvents => IsTerminal /\ n = Len(history)

\* A terminal run leaves no activity to be executed and no timer to come due; a
\* cancelled or terminated one leaves no inbox row undecided.
EndedRunLeavesNoWork ==
    /\ IsTerminal => armed = {} /\ \A k \in Keys : ~OpenTask(k)
    /\ status \in {"cancelled", "terminated"} =>
          \A i \in 1..Len(inbox) : inbox[i].status # "pending"

\* Once a run has ended nothing happens to it any more: no retry, late completion,
\* timer or request reaches it, and nothing is left that would (the terminal branches
\* of commitDecision and TerminateRun).
EndedRunIsSettled == EndingRecordedOnce /\ EndedRunLeavesNoWork

(***************************************************************************)
(* Progress.                                                               *)
(***************************************************************************)

\* What the run may rest in: it has ended, an operator has to act, or it waits
\* for a signal that nobody has sent.
AtRest ==
    \/ status \in TerminalStatuses \cup {"suspended", "quarantined"}
    \/ /\ status = "waiting" /\ waitingFor.kind = "signal"
       /\ \A i \in 1..Len(inbox) :
            inbox[i].kind = "signal" /\ inbox[i].key = waitingFor.key => inbox[i].status # "pending"

\* The run is driven to its end, or to a signal it has to wait for, across crashes,
\* shutdowns and lost leases (docs-site/concepts/engine-foundation.mdx).
ReachesRest == <>[]AtRest
(***************************************************************************)
(* The run as its author sees it.                                          *)
(***************************************************************************)

\* The call that an event completes; "none" for the events that complete none.
CompletedCall(event) ==
    CASE event.type \in OutcomeEvents -> "activity"
      [] event.type = "timer.fired" -> "timer"
      [] event.type = "signal.received" -> "signal"
      [] event.type = "marker.recorded" -> "marker"
      [] OTHER -> "none"

\* The call whose work an event schedules; "none" for the others.
ScheduledCall(event) ==
    CASE event.type = "activity.scheduled" -> "activity"
      [] event.type = "timer.scheduled" -> "timer"
      [] OTHER -> "none"

Completing(event) == CompletedCall(event) # "none"

\* How many calls the first n events complete.
DoneBy(events, n) == Cardinality({m \in 1..n : Completing(events[m])})

\* The calls that have taken effect, read off the history: the n-th of them is the
\* one that the n-th completing event completes.
Journal ==
    [i \in 1..DoneBy(history, Len(history)) |->
       LET event == history[CHOOSE n \in Events : Completing(history[n]) /\ DoneBy(history, n) = i]
       IN [op |-> CompletedCall(event), key |-> event.key, ok |-> event.type # "activity.failed"]]

\* How many of the calls before the p-th take effect.
EffectsBefore(program, p) == Cardinality({q \in 1..p-1 : program[q].op # "checkCancel"})

\* The history is one that the function `program' can have produced: the i-th call
\* that completes is the i-th call of the function that takes effect, and what is
\* scheduled is the function's next call.
Produced(program) ==
    \A n \in Events :
       LET event == history[n]
       IN /\ Completing(event) =>
               \E p \in 1..Len(program) :
                  /\ EffectsBefore(program, p) + 1 = DoneBy(history, n)
                  /\ program[p].op = CompletedCall(event) /\ program[p].key = event.key
          /\ ScheduledCall(event) # "none" =>
               \E p \in 1..Len(program) :
                  /\ EffectsBefore(program, p) = DoneBy(history, n)
                  /\ program[p].op = ScheduledCall(event) /\ program[p].key = event.key

\* Workers of different builds never splice their functions together: whatever
\* mixture of old and new workers activates the run, some deployed function could
\* have written the whole of its history (the match of every context call against
\* the record, replay.go:556-1030).
HistoryFitsABuild == \E w \in Workers : Produced(Deployed[w])

\* EngineRun implements DurableExecution wherever all workers run one build.
Durable ==
    INSTANCE DurableExecution
        WITH Program <- Deployed[CHOOSE w \in Workers : TRUE],
             journal <- Journal,
             outcome <- IF IsTerminal THEN status ELSE "open"

\* The rows of the run's history, with the status of the run, are at all times what
\* an uninterrupted execution of the function could have reached: no call takes
\* effect twice, out of order or after the end, although every activation starts
\* the function again from its beginning (engine/README.md:17).
ImplementsDurableExecution == Durable!Spec
=============================================================================
