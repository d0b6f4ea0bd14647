--------------------------- MODULE WorkflowReplay ---------------------------
(***************************************************************************)
(* The deterministic replay of a workflow function against its recorded    *)
(* history: engine/internal/workflow/replay.go.  One activation of a run   *)
(* builds a runner from a snapshot of the run's rows and calls the         *)
(* definition's function with it.  Every context call first absorbs        *)
(* cancellations (advanceState), then either matches the next recorded     *)
(* event, or, past the end of the record, decides something new.           *)
(*                                                                         *)
(* A workflow function is abstracted to the sequence of context calls it   *)
(* makes.  A loop of the code is one action per iteration, so that no      *)
(* recursive definition is needed.                                         *)
(***************************************************************************)
EXTENDS Integers, Sequences

CONSTANTS
    Keys,    \* activity keys, timer keys, signal names and marker keys
    Handled, \* the activities whose error the function handles and goes on after
    None     \* the absence of a key, a worker or a row

ASSUME NoneIsNoKey == None \notin Keys
ASSUME HandledKeys == Handled \subseteq Keys

VARIABLES
    runner, \* workflowRunner: the state of the replay in progress
    inbox   \* engine.inbox rows that have become available, in delivery order

(***************************************************************************)
(* Data.                                                                   *)
(***************************************************************************)

\* A context call of a workflow function.  "marker" stands for the calls that
\* record a value and return at once (Now, SideEffect, SetCustomStatus);
\* "checkCancel" returns ErrCancelled from the function if
\* CancellationRequested() is true.
Ops == {"activity", "timer", "signal", "marker", "checkCancel"}
\* The calls that schedule work return ErrEmptyKey, and do nothing, without a key.
Command == {call \in [op : Ops, key : Keys \cup {None}] :
               call.op \in {"activity", "timer"} => call.key \in Keys}

LifecycleEvents == {"workflow.suspended", "workflow.resumed"}

EndingEvents == {"workflow.completed", "workflow.failed",
                 "workflow.cancelled", "workflow.terminated"}

EventTypes ==
    {"activity.scheduled", "activity.retry_scheduled", "activity.completed",
     "activity.failed", "timer.scheduled", "timer.fired", "signal.received",
     "cancel.requested", "marker.recorded"} \cup LifecycleEvents \cup EndingEvents

\* `item' is the inbox row whose payload a signal.received, timer.fired or
\* cancel.requested event carries, and 0 for every other event.
Event == [type : EventTypes, key : Keys \cup {None}, item : Nat]

InboxItem == [kind : {"signal", "cancel", "timer"}, key : Keys \cup {None},
              status : {"pending", "processed", "discarded"}]

WaitKinds == {"none", "activity", "timer", "signal", "replay_mismatch"}
Wait == [kind : WaitKinds, key : Keys \cup {None}]
NoWait == [kind |-> "none", key |-> None]

Outcomes == {"none", "completed", "failed"}
Decisions == {"none", "waiting", "completed", "failed", "cancelled", "quarantined"}

\* Where the function is: at a context call, past a matched schedule event, past
\* a retry event of that activity, after its return, or decided.
Phases == {"call", "scheduled", "outcome", "finish", "decided"}

Runner ==
    [program : Seq(Command), pc : Nat \ {0}, phase : Phases,
     log : Seq(Event), cursor : Nat,
     frontier : SUBSET Nat, outcomes : [Keys -> Outcomes],
     cancelled : BOOLEAN, returned : Decisions,
     queued : Seq(Event), consumed : SUBSET Nat,
     newTask : Keys \cup {None}, newTimer : Keys \cup {None},
     wait : Wait, decision : Decisions]

NewEvent(type, key, item) == [type |-> type, key |-> key, item |-> item]

\* newWorkflowRunner: the record is the run's history after workflow.started,
\* the frontier the pending inbox rows the activation's transaction can see,
\* and `outcomes' the activity rows that are completed or failed.
NewRunner(program, log, frontier, outcomes) ==
    [program |-> program, pc |-> 1, phase |-> "call",
     log |-> log, cursor |-> 0,
     frontier |-> frontier, outcomes |-> outcomes,
     cancelled |-> FALSE, returned |-> "none",
     queued |-> <<>>, consumed |-> {},
     newTask |-> None, newTimer |-> None,
     wait |-> NoWait, decision |-> "none"]

(***************************************************************************)
(* Reading the record.                                                     *)
(***************************************************************************)

AtEnd == runner.cursor = Len(runner.log)
Peek == runner.log[runner.cursor + 1]
Next1(type, key) == ~AtEnd /\ Peek.type = type /\ Peek.key = key

\* Mutated: the filter is forgotten.
LifecycleKept == FALSE

\* suspended and resumed rows are dropped when the runner is built.
LifecycleNext == ~AtEnd /\ Peek.type \in LifecycleEvents

\* Every context call and the return of the function begin with advanceState;
\* the call past a matched schedule event repeats it, the retry loop does not.
Advancing == runner.phase \in {"call", "scheduled", "finish"}

RecordedCancelNext == Advancing /\ Next1("cancel.requested", None)

\* Mutated: the rows are taken from the wrong end.
Newest(i, items) == i \in items /\ \A j \in items : j <= i

\* Inbox rows are delivered in the order of their positions.
Oldest(i, items) == i \in items /\ \A j \in items : i <= j

FrontierCancel(i) == Oldest(i, runner.frontier) /\ inbox[i].kind = "cancel"
FrontierCancelNext == Advancing /\ AtEnd /\ \E i \in runner.frontier : FrontierCancel(i)

\* The point of a context call after advanceState has returned.
Settled == ~LifecycleNext /\ ~RecordedCancelNext /\ ~FrontierCancelNext

Called == runner.pc <= Len(runner.program)
Call == runner.program[runner.pc]
Calling(op) == runner.phase = "call" /\ Settled /\ Called /\ Call.op = op

(***************************************************************************)
(* Ways a context call ends.                                               *)
(***************************************************************************)

\* A match advances the cursor over the recorded event; the call returns and the
\* function makes its next one, or returns the error of the call.
Matched(phase) == [runner EXCEPT !.cursor = @ + 1, !.phase = phase]
ReturnTo(r) == [r EXCEPT !.phase = "call", !.pc = @ + 1]

\* Mutated: the error of the call is swallowed.
ErrorSwallowed(r) == ReturnTo(r)

FailCall(r) ==
    IF Call.key \in Handled
    THEN ReturnTo(r)
    ELSE [r EXCEPT !.phase = "finish", !.returned = "failed"]

Queue(r, event) == [r EXCEPT !.queued = Append(@, event)]

\* blockOnWait: the function is abandoned and the decision is to wait.
Block(r, kind) ==
    [r EXCEPT !.phase = "decided", !.decision = "waiting",
              !.wait = [kind |-> kind, key |-> Call.key]]

\* replayMismatch: quarantinedDecision carries no event and consumes no item.
Quarantine(r) ==
    [r EXCEPT !.phase = "decided", !.decision = "quarantined",
              !.queued = <<>>, !.consumed = {}, !.newTask = None, !.newTimer = None,
              !.wait = [kind |-> "replay_mismatch", key |-> None]]

Consume(r, i, event) ==
    [Queue(r, event) EXCEPT !.frontier = @ \ {i}, !.consumed = @ \cup {i}]

(***************************************************************************)
(* The steps of a replay.                                                  *)
(***************************************************************************)

SkipLifecycleEvent ==
    /\ runner.phase # "decided"
    /\ LifecycleNext
    /\ runner' = [runner EXCEPT !.cursor = @ + 1]

ConsumeRecordedCancel ==
    /\ RecordedCancelNext
    /\ runner' = [runner EXCEPT !.cursor = @ + 1, !.cancelled = TRUE]

\* Only a cancel at the head of the frontier is taken, and only past the end of
\* the record.
ConsumeFrontierCancel ==
    /\ ~LifecycleNext
    /\ FrontierCancelNext
    /\ \E i \in runner.frontier :
         /\ FrontierCancel(i)
         /\ runner' = [Consume(runner, i, NewEvent("cancel.requested", None, i))
                         EXCEPT !.cancelled = TRUE]

\* ActivityWithOptions, SleepUntil: a recorded schedule event is matched ...
MatchSchedule ==
    /\ \/ Calling("activity") /\ Next1("activity.scheduled", Call.key)
       \/ Calling("timer") /\ Next1("timer.scheduled", Call.key)
    /\ runner' = Matched("scheduled")

\* ... and past the end of the record the work is scheduled and awaited.
ScheduleActivity ==
    /\ Calling("activity")
    /\ AtEnd
    /\ runner' = [Block(Queue(runner, NewEvent("activity.scheduled", Call.key, 0)), "activity")
                    EXCEPT !.newTask = Call.key]

ScheduleTimer ==
    /\ Calling("timer")
    /\ AtEnd
    /\ runner' = [Block(Queue(runner, NewEvent("timer.scheduled", Call.key, 0)), "timer")
                    EXCEPT !.newTimer = Call.key]

AwaitingActivity ==
    /\ runner.phase \in {"scheduled", "outcome"}
    /\ Settled
    /\ Call.op = "activity"

SkipActivityRetry ==
    /\ AwaitingActivity
    /\ Next1("activity.retry_scheduled", Call.key)
    /\ runner' = Matched("outcome")

\* The retry loop has ended and the outcome of the awaited activity is next.
RecordedOutcome(type) == Next1(type, Call.key)
NoRecordedOutcome ==
    /\ ~Next1("activity.retry_scheduled", Call.key)
    /\ ~RecordedOutcome("activity.completed")
    /\ ~RecordedOutcome("activity.failed")

MatchActivityOutcome ==
    /\ AwaitingActivity
    /\ \/ RecordedOutcome("activity.completed") /\ runner' = ReturnTo(Matched("call"))
       \/ RecordedOutcome("activity.failed") /\ runner' = FailCall(Matched("call"))

\* pendingActivities: the task row has an outcome the history does not have yet.
RecordActivityOutcome ==
    /\ AwaitingActivity
    /\ NoRecordedOutcome
    /\ LET outcome == runner.outcomes[Call.key]
       IN \/ /\ outcome = "completed"
             /\ runner' = ReturnTo(Queue(runner, NewEvent("activity.completed", Call.key, 0)))
          \/ /\ outcome = "failed"
             /\ runner' = FailCall(Queue(runner, NewEvent("activity.failed", Call.key, 0)))

AwaitActivity ==
    /\ AwaitingActivity
    /\ NoRecordedOutcome
    /\ runner.outcomes[Call.key] = "none"
    /\ AtEnd
    /\ runner' = Block(runner, "activity")

AwaitingTimer == runner.phase = "scheduled" /\ Settled /\ Call.op = "timer"
TimerItems == {i \in runner.frontier : inbox[i].kind = "timer" /\ inbox[i].key = Call.key}

MatchTimerFired ==
    /\ AwaitingTimer
    /\ Next1("timer.fired", Call.key)
    /\ runner' = ReturnTo(Matched("call"))

FireTimer ==
    /\ AwaitingTimer
    /\ ~Next1("timer.fired", Call.key)
    /\ \E i \in TimerItems :
         runner' = ReturnTo(Consume(runner, i, NewEvent("timer.fired", Call.key, i)))

AwaitTimer ==
    /\ AwaitingTimer
    /\ AtEnd
    /\ TimerItems = {}
    /\ runner' = Block(runner, "timer")

\* ReceiveSignal.
SignalItems == {i \in runner.frontier : inbox[i].kind = "signal" /\ inbox[i].key = Call.key}

MatchSignal ==
    /\ Calling("signal")
    /\ Next1("signal.received", Call.key)
    /\ runner' = ReturnTo(Matched("call"))

ReceiveSignal ==
    /\ Calling("signal")
    /\ AtEnd
    /\ \E i \in SignalItems :
         /\ Oldest(i, SignalItems)
         /\ runner' = ReturnTo(Consume(runner, i, NewEvent("signal.received", Call.key, i)))

AwaitSignal ==
    /\ Calling("signal")
    /\ AtEnd
    /\ SignalItems = {}
    /\ runner' = Block(runner, "signal")

\* Mutated: whatever is recorded next is taken for the marker.
MatchAnyMarker ==
    /\ Calling("marker")
    /\ ~AtEnd
    /\ runner' = ReturnTo(Matched("call"))

\* Now, SideEffect, SetCustomStatus: recorded once, then replayed.
MatchMarker ==
    /\ Calling("marker")
    /\ Next1("marker.recorded", Call.key)
    /\ runner' = ReturnTo(Matched("call"))

RecordMarker ==
    /\ Calling("marker")
    /\ AtEnd
    /\ runner' = ReturnTo(Queue(runner, NewEvent("marker.recorded", Call.key, 0)))

\* CancellationRequested; the function returns ErrCancelled when it is true.
CheckCancel ==
    /\ Calling("checkCancel")
    /\ runner' = IF runner.cancelled
                 THEN [runner EXCEPT !.phase = "finish", !.returned = "cancelled"]
                 ELSE ReturnTo(runner)

\* The function returns nil after its last call.
ReturnNil ==
    /\ runner.phase = "call"
    /\ ~Called
    /\ runner' = [runner EXCEPT !.phase = "finish", !.returned = "completed"]

\* execute, after definition.Run: one ending event, and nothing recorded after it.
EndingEvent == [completed |-> "workflow.completed", failed |-> "workflow.failed",
                cancelled |-> "workflow.cancelled"]
FinalEvent == NewEvent(EndingEvent[runner.returned], None, 0)
EndsAsRecorded == AtEnd \/ (Next1(FinalEvent.type, None) /\ runner.cursor + 1 = Len(runner.log))

Finish ==
    /\ runner.phase = "finish"
    /\ Settled
    /\ EndsAsRecorded
    /\ runner' = [runner EXCEPT !.phase = "decided", !.decision = runner.returned,
                                !.queued = IF AtEnd THEN Append(@, FinalEvent) ELSE @]

\* A recorded event is next that the call cannot have produced.
MismatchAtCall ==
    /\ runner.phase = "call"
    /\ Called
    /\ ~AtEnd
    /\ \/ Call.op = "activity" /\ ~Next1("activity.scheduled", Call.key)
       \/ Call.op = "timer" /\ ~Next1("timer.scheduled", Call.key)
       \/ Call.op = "signal" /\ ~Next1("signal.received", Call.key)
       \/ Call.op = "marker" /\ ~Next1("marker.recorded", Call.key)

MismatchAtWait ==
    /\ ~AtEnd
    /\ \/ AwaitingActivity /\ NoRecordedOutcome /\ runner.outcomes[Call.key] = "none"
       \/ AwaitingTimer /\ ~Next1("timer.fired", Call.key) /\ TimerItems = {}

Diverge ==
    /\ Settled
    /\ \/ MismatchAtCall
       \/ MismatchAtWait
       \/ runner.phase = "finish" /\ ~EndsAsRecorded
    /\ runner' = Quarantine(runner)

ReplayStep ==
    \/ SkipLifecycleEvent
    \/ ConsumeRecordedCancel
    \/ ConsumeFrontierCancel
    \/ MatchSchedule
    \/ ScheduleActivity
    \/ ScheduleTimer
    \/ SkipActivityRetry
    \/ MatchActivityOutcome
    \/ RecordActivityOutcome
    \/ AwaitActivity
    \/ MatchTimerFired
    \/ FireTimer
    \/ AwaitTimer
    \/ MatchSignal
    \/ ReceiveSignal
    \/ AwaitSignal
    \/ MatchMarker
    \/ RecordMarker
    \/ CheckCancel
    \/ ReturnNil
    \/ Finish
    \/ Diverge
=============================================================================
