--------------------------- MODULE EngineRunProofs --------------------------
(***************************************************************************)
(* Theorems about EngineRun, for every number of workers, every function,  *)
(* every key and every bound on the environment.                           *)
(***************************************************************************)
EXTENDS EngineRunProperties, SequenceTheorems, TLAPS

(***************************************************************************)
(* The replay.                                                             *)
(***************************************************************************)

\* Between the match of a schedule event and the outcome, the function is at a
\* call; and it has returned something once it has returned.
ReplayPosition ==
    /\ runner.phase \in {"scheduled", "outcome"} => runner.pc <= Len(runner.program)
    /\ runner.phase = "finish" => runner.returned \in {"completed", "failed", "cancelled"}

LEMMA CallType ==
  ASSUME runner \in Runner, Called
  PROVE  Call \in Command /\ Call.key \in Keys \cup {None}
<1>1. runner.program \in Seq(Command) /\ runner.pc \in Nat \ {0}
  BY DEF Runner
<1>2. runner.pc \in 1..Len(runner.program)
  BY <1>1 DEF Called
<1>3. Call \in Command
  BY <1>1, <1>2 DEF Call
<1>4. QED
  BY <1>3 DEF Command

LEMMA EventType ==
  ASSUME NEW type \in EventTypes, NEW key \in Keys \cup {None}, NEW item \in Nat
  PROVE  NewEvent(type, key, item) \in Event
BY DEF NewEvent, Event

LEMMA MatchedType ==
  ASSUME runner \in Runner, NEW phase \in Phases
  PROVE  /\ Matched(phase) \in Runner
         /\ Matched(phase).log = runner.log
         /\ Matched(phase).phase = phase
         /\ Matched(phase).pc = runner.pc
         /\ Matched(phase).program = runner.program
<1>1. runner.cursor + 1 \in Nat
  BY DEF Runner
<1>2. Matched(phase) = [runner EXCEPT !.cursor = runner.cursor + 1, !.phase = phase]
  BY DEF Matched
<1>3. QED
  BY <1>1, <1>2, ZenonT(60) DEF Runner

LEMMA ReturnToType ==
  ASSUME NEW r \in Runner
  PROVE  ReturnTo(r) \in Runner /\ ReturnTo(r).log = r.log /\ ReturnTo(r).phase = "call"
<1>1. r.pc + 1 \in Nat \ {0} /\ "call" \in Phases
  BY DEF Runner, Phases
<1>2. ReturnTo(r) = [r EXCEPT !.phase = "call", !.pc = r.pc + 1]
  BY DEF ReturnTo
<1>3. QED
  BY <1>1, <1>2, ZenonT(60) DEF Runner

LEMMA ReturnType ==
  ASSUME NEW r \in Runner, NEW d \in Decisions
  PROVE  /\ [r EXCEPT !.phase = "finish", !.returned = d] \in Runner
         /\ [r EXCEPT !.phase = "finish", !.returned = d].log = r.log
         /\ [r EXCEPT !.phase = "finish", !.returned = d].phase = "finish"
         /\ [r EXCEPT !.phase = "finish", !.returned = d].returned = d
<1>1. "finish" \in Phases
  BY DEF Phases
<1>2. QED
  BY <1>1 DEF Runner

LEMMA FailCallType ==
  ASSUME NEW r \in Runner
  PROVE  /\ FailCall(r) \in Runner
         /\ FailCall(r).log = r.log
         /\ \/ FailCall(r).phase = "call"
            \/ FailCall(r).phase = "finish" /\ FailCall(r).returned = "failed"
<1>1. CASE Call.key \in Handled
  <2>1. FailCall(r) = ReturnTo(r)
    BY <1>1 DEF FailCall
  <2>2. QED
    BY <2>1, ReturnToType
<1>2. CASE Call.key \notin Handled
  <2>1. FailCall(r) = [r EXCEPT !.phase = "finish", !.returned = "failed"]
    BY <1>2 DEF FailCall
  <2>2. "finish" \in Phases /\ "failed" \in Decisions
    BY DEF Phases, Decisions
  <2>3. QED
    BY <2>1, <2>2, ZenonT(60) DEF Runner
<1>3. QED
  BY <1>1, <1>2

LEMMA QueueType ==
  ASSUME NEW r \in Runner, NEW event \in Event
  PROVE  /\ Queue(r, event) \in Runner
         /\ Queue(r, event).log = r.log
         /\ Queue(r, event).phase = r.phase
<1>1. Append(r.queued, event) \in Seq(Event)
  BY DEF Runner
<1>2. QED
  BY <1>1 DEF Queue, Runner

LEMMA BlockType ==
  ASSUME NEW r \in Runner, NEW kind \in WaitKinds, Call.key \in Keys \cup {None}
  PROVE  /\ Block(r, kind) \in Runner
         /\ Block(r, kind).log = r.log
         /\ Block(r, kind).phase = "decided"
<1>1. [kind |-> kind, key |-> Call.key] \in Wait
  BY DEF Wait
<1>2. "decided" \in Phases /\ "waiting" \in Decisions
  BY DEF Phases, Decisions
<1>3. QED
  BY <1>1, <1>2 DEF Block, Runner

LEMMA QuarantineType ==
  ASSUME NEW r \in Runner
  PROVE  Quarantine(r) \in Runner /\ Quarantine(r).log = r.log /\ Quarantine(r).phase = "decided"
<1>1. [kind |-> "replay_mismatch", key |-> None] \in Wait
  BY DEF Wait, WaitKinds
<1>2. "decided" \in Phases /\ "quarantined" \in Decisions
  BY DEF Phases, Decisions
<1>3. <<>> \in Seq(Event)
  OBVIOUS
<1>4. QED
  BY <1>1, <1>2, <1>3 DEF Quarantine, Runner

LEMMA ConsumeType ==
  ASSUME NEW r \in Runner, NEW i \in r.frontier, NEW event \in Event
  PROVE  /\ Consume(r, i, event) \in Runner
         /\ Consume(r, i, event).log = r.log
         /\ Consume(r, i, event).phase = r.phase
<1> DEFINE q == Queue(r, event)
<1>1. q \in Runner /\ q.log = r.log /\ q.phase = r.phase
  BY QueueType
<1>2. i \in Nat
  BY DEF Runner
<1>3. q.frontier \ {i} \in SUBSET Nat /\ q.consumed \cup {i} \in SUBSET Nat
  BY <1>1, <1>2 DEF Runner
<1>4. Consume(r, i, event) =
        [q EXCEPT !.frontier = q.frontier \ {i}, !.consumed = q.consumed \cup {i}]
  BY DEF Consume
<1> HIDE DEF q
<1>5. QED
  BY <1>1, <1>3, <1>4, ZenonT(60) DEF Runner

LEMMA ReplayKeepsTypes ==
  ASSUME runner \in Runner, ReplayPosition, ReplayStep
  PROVE  runner' \in Runner /\ ReplayPosition' /\ runner'.log = runner.log
<1> DEFINE Kept(r) == /\ r \in Runner /\ r.log = runner.log
                      /\ \/ r.phase \in {"call", "decided"}
                         \/ r.phase \in {"scheduled", "outcome"} /\ r.pc <= Len(r.program)
                         \/ r.phase = "finish" /\ r.returned \in {"completed", "failed", "cancelled"}
<1> SUFFICES Kept(runner')
  BY DEF ReplayPosition
<1>0. Kept(runner) /\ runner.cursor + 1 \in Nat /\ runner \in Runner /\ "call" \in Phases
  BY DEF Runner, ReplayPosition, Phases
<1>K. Called => Call.key \in Keys \cup {None}
  BY CallType
<1>A. runner.phase \in {"scheduled", "outcome"} => Called
  BY DEF ReplayPosition, Called
<1>1. CASE SkipLifecycleEvent
  <2>1. runner' = [runner EXCEPT !.cursor = runner.cursor + 1]
    BY <1>1 DEF SkipLifecycleEvent
  <2>2. QED
    BY <1>0, <2>1 DEF Runner
<1>2. CASE ConsumeRecordedCancel
  <2>1. runner' = [runner EXCEPT !.cursor = runner.cursor + 1, !.cancelled = TRUE]
    BY <1>2 DEF ConsumeRecordedCancel
  <2>2. QED
    BY <1>0, <2>1 DEF Runner
<1>3. CASE ConsumeFrontierCancel
  <2> DEFINE event(i) == NewEvent("cancel.requested", None, i)
             read(i) == Consume(runner, i, event(i))
  <2>1. PICK i \in runner.frontier : runner' = [read(i) EXCEPT !.cancelled = TRUE]
    BY <1>3 DEF ConsumeFrontierCancel
  <2>2. runner.phase \in {"call", "scheduled", "finish"}
    BY <1>3 DEF ConsumeFrontierCancel, FrontierCancelNext, Advancing
  <2>3. i \in Nat
    BY DEF Runner
  <2>4. event(i) \in Event
    BY <2>3, EventType DEF EventTypes
  <2> HIDE DEF event
  <2>5. read(i) \in Runner /\ read(i).log = runner.log /\ read(i).phase = runner.phase
    BY <2>4, ConsumeType
  <2>6. read(i).pc = runner.pc /\ read(i).program = runner.program
          /\ read(i).returned = runner.returned
    BY DEF Consume, Queue, Runner
  <2> HIDE DEF read
  <2>7. runner' \in Runner /\ runner'.log = read(i).log /\ runner'.phase = read(i).phase
          /\ runner'.pc = read(i).pc /\ runner'.program = read(i).program
          /\ runner'.returned = read(i).returned
    BY <2>1, <2>5 DEF Runner
  <2>8. QED
    BY <1>0, <2>5, <2>6, <2>7
<1> HIDE DEF Kept
<1>d. ASSUME NEW r \in Runner, r.log = runner.log, r.phase \in {"call", "decided"}, runner' = r
      PROVE  Kept(runner')
  BY <1>d DEF Kept
<1>E. ASSUME NEW type \in EventTypes
      PROVE  NewEvent(type, None, 0) \in Event /\ (Called => NewEvent(type, Call.key, 0) \in Event)
  BY <1>K, EventType
<1>4. CASE MatchSchedule
  <2>1. runner' = Matched("scheduled") /\ runner.pc <= Len(runner.program)
    BY <1>4 DEF MatchSchedule, Calling, Called
  <2>2. "scheduled" \in Phases
    BY DEF Phases
  <2>3. QED
    BY <2>1, <2>2, MatchedType DEF Kept
<1>5. CASE ScheduleActivity
  <2> DEFINE event == NewEvent("activity.scheduled", Call.key, 0)
             blocked == Block(Queue(runner, event), "activity")
  <2>1. Called /\ runner' = [blocked EXCEPT !.newTask = Call.key]
    BY <1>5 DEF ScheduleActivity, Calling
  <2>2. event \in Event /\ "activity" \in WaitKinds
    BY <2>1, <1>E DEF EventTypes, WaitKinds
  <2> HIDE DEF event
  <2>3. blocked \in Runner /\ blocked.log = runner.log /\ blocked.phase = "decided"
    BY <2>1, <2>2, <1>K, QueueType, BlockType
  <2> HIDE DEF blocked
  <2>4. runner' \in Runner /\ runner'.log = blocked.log /\ runner'.phase = blocked.phase
    BY <2>1, <2>3, <1>K DEF Runner
  <2>5. QED
    BY <2>3, <2>4, <1>d
<1>6. CASE ScheduleTimer
  <2> DEFINE event == NewEvent("timer.scheduled", Call.key, 0)
             blocked == Block(Queue(runner, event), "timer")
  <2>1. Called /\ runner' = [blocked EXCEPT !.newTimer = Call.key]
    BY <1>6 DEF ScheduleTimer, Calling
  <2>2. event \in Event /\ "timer" \in WaitKinds
    BY <2>1, <1>E DEF EventTypes, WaitKinds
  <2> HIDE DEF event
  <2>3. blocked \in Runner /\ blocked.log = runner.log /\ blocked.phase = "decided"
    BY <2>1, <2>2, <1>K, QueueType, BlockType
  <2> HIDE DEF blocked
  <2>4. runner' \in Runner /\ runner'.log = blocked.log /\ runner'.phase = blocked.phase
    BY <2>1, <2>3, <1>K DEF Runner
  <2>5. QED
    BY <2>3, <2>4, <1>d
<1>7. CASE SkipActivityRetry
  <2>1. runner' = Matched("outcome") /\ runner.pc <= Len(runner.program)
    BY <1>7, <1>A DEF SkipActivityRetry, AwaitingActivity, Called
  <2>2. "outcome" \in Phases
    BY DEF Phases
  <2>3. QED
    BY <2>1, <2>2, MatchedType DEF Kept
<1>m. ASSUME runner' = ReturnTo(Matched("call"))
      PROVE  Kept(runner')
  <2>1. Matched("call") \in Runner /\ Matched("call").log = runner.log
    BY <1>0, MatchedType
  <2>2. QED
    BY <2>1, <1>m, ReturnToType DEF Kept
<1>f. ASSUME NEW r \in Runner, r.log = runner.log, runner' = FailCall(r)
      PROVE  Kept(runner')
  BY <1>f, FailCallType DEF Kept
<1>8. CASE MatchActivityOutcome
  <2>1. CASE runner' = FailCall(Matched("call"))
    <3>1. Matched("call") \in Runner /\ Matched("call").log = runner.log
      BY <1>0, MatchedType
    <3>2. QED
      BY <2>1, <3>1, <1>f
  <2>2. QED
    BY <2>1, <1>8, <1>m DEF MatchActivityOutcome
<1>9. CASE RecordActivityOutcome
  <2>1. Called
    BY <1>9, <1>A DEF RecordActivityOutcome, AwaitingActivity
  <2> DEFINE recorded(type) == Queue(runner, NewEvent(type, Call.key, 0))
  <2>2. ASSUME NEW type \in EventTypes
        PROVE  recorded(type) \in Runner /\ recorded(type).log = runner.log
    BY <2>1, <1>E, QueueType
  <2>3. "activity.completed" \in EventTypes /\ "activity.failed" \in EventTypes
    BY DEF EventTypes
  <2>4. \/ runner' = ReturnTo(recorded("activity.completed"))
        \/ runner' = FailCall(recorded("activity.failed"))
    BY <1>9 DEF RecordActivityOutcome
  <2> HIDE DEF recorded
  <2>5. CASE runner' = ReturnTo(recorded("activity.completed"))
    BY <2>2, <2>3, <2>5, ReturnToType DEF Kept
  <2>6. CASE runner' = FailCall(recorded("activity.failed"))
    BY <2>2, <2>3, <2>6, <1>f
  <2>7. QED
    BY <2>4, <2>5, <2>6
<1>b. ASSUME NEW kind \in WaitKinds, Called, runner' = Block(runner, kind)
      PROVE  Kept(runner')
  BY <1>b, <1>K, BlockType DEF Kept
<1>w. {"activity", "timer", "signal"} \subseteq WaitKinds
  BY DEF WaitKinds
<1>10. CASE AwaitActivity
  BY <1>10, <1>A, <1>b, <1>w DEF AwaitActivity, AwaitingActivity
<1>11. CASE MatchTimerFired
  BY <1>11, <1>m DEF MatchTimerFired
<1>r. ASSUME NEW i \in runner.frontier, NEW type \in EventTypes, Called,
             runner' = ReturnTo(Consume(runner, i, NewEvent(type, Call.key, i)))
      PROVE  Kept(runner')
  <2> DEFINE event == NewEvent(type, Call.key, i)
             read == Consume(runner, i, event)
  <2>1. i \in Nat
    BY DEF Runner
  <2>2. event \in Event
    BY <1>r, <2>1, <1>K, EventType
  <2> HIDE DEF event
  <2>3. read \in Runner /\ read.log = runner.log
    BY <2>2, ConsumeType
  <2>4. runner' = ReturnTo(read)
    BY <1>r DEF event
  <2> HIDE DEF read
  <2>5. QED
    BY <2>3, <2>4, ReturnToType DEF Kept
<1>12. CASE FireTimer
  <2>1. PICK i \in TimerItems : runner' = ReturnTo(Consume(runner, i, NewEvent("timer.fired", Call.key, i)))
    BY <1>12 DEF FireTimer
  <2>2. i \in runner.frontier /\ Called /\ "timer.fired" \in EventTypes
    BY <1>12, <1>A DEF FireTimer, AwaitingTimer, TimerItems, EventTypes
  <2>3. QED
    BY <2>1, <2>2, <1>r
<1>13. CASE AwaitTimer
  BY <1>13, <1>A, <1>b, <1>w DEF AwaitTimer, AwaitingTimer
<1>14. CASE MatchSignal
  BY <1>14, <1>m DEF MatchSignal
<1>15. CASE ReceiveSignal
  <2>1. PICK i \in SignalItems : runner' = ReturnTo(Consume(runner, i, NewEvent("signal.received", Call.key, i)))
    BY <1>15 DEF ReceiveSignal
  <2>2. i \in runner.frontier /\ Called /\ "signal.received" \in EventTypes
    BY <1>15 DEF ReceiveSignal, Calling, SignalItems, EventTypes
  <2>3. QED
    BY <2>1, <2>2, <1>r
<1>16. CASE AwaitSignal
  BY <1>16, <1>b, <1>w DEF AwaitSignal, Calling
<1>17. CASE MatchMarker
  BY <1>17, <1>m DEF MatchMarker
<1>18. CASE RecordMarker
  <2>1. Called /\ runner' = ReturnTo(Queue(runner, NewEvent("marker.recorded", Call.key, 0)))
    BY <1>18 DEF RecordMarker, Calling
  <2>2. NewEvent("marker.recorded", Call.key, 0) \in Event
    BY <2>1, <1>E DEF EventTypes
  <2>3. QED
    BY <2>1, <2>2, QueueType, ReturnToType DEF Kept
<1>19. CASE CheckCancel
  <2>1. CASE runner' = ReturnTo(runner)
    BY <2>1, ReturnToType DEF Kept
  <2>2. CASE runner' = [runner EXCEPT !.phase = "finish", !.returned = "cancelled"]
    <3>1. "cancelled" \in Decisions
      BY DEF Decisions
    <3>2. QED
      BY <2>2, <3>1, ReturnType DEF Kept
  <2>3. QED
    BY <1>19, <2>1, <2>2 DEF CheckCancel
<1>20. CASE ReturnNil
  <2>1. "completed" \in Decisions
    BY DEF Decisions
  <2>2. QED
    BY <1>20, <2>1, ReturnType DEF ReturnNil, Kept
<1>21. CASE Finish
  <2> DEFINE events == IF AtEnd THEN Append(runner.queued, FinalEvent) ELSE runner.queued
  <2>1. runner.returned \in {"completed", "failed", "cancelled"}
    BY <1>21 DEF Finish, ReplayPosition
  <2>2. FinalEvent \in Event
    BY <2>1, <1>E DEF FinalEvent, EndingEvent, EventTypes, EndingEvents
  <2>3. runner.queued \in Seq(Event)
    BY DEF Runner
  <2>4. events \in Seq(Event)
    BY <2>2, <2>3
  <2>5. "decided" \in Phases /\ runner.returned \in Decisions
    BY <2>1 DEF Phases, Decisions
  <2>6. runner' = [runner EXCEPT !.phase = "decided", !.decision = runner.returned, !.queued = events]
    BY <1>21 DEF Finish
  <2> HIDE DEF events
  <2>7. QED
    BY <2>4, <2>5, <2>6 DEF Kept, Runner
<1>22. CASE Diverge
  BY <1>22, QuarantineType DEF Diverge, Kept
<1>23. QED
  BY <1>1, <1>2, <1>3, <1>4, <1>5, <1>6, <1>7, <1>8, <1>9, <1>10, <1>11, <1>12, <1>13, <1>14,
     <1>15, <1>16, <1>17, <1>18, <1>19, <1>20, <1>21, <1>22 DEF ReplayStep

(***************************************************************************)
(* Types.                                                                  *)
(***************************************************************************)

LEMMA NewRunnerType ==
  ASSUME NEW program \in Seq(Command), NEW log \in Seq(Event), NEW frontier \in SUBSET Nat,
         NEW outcomes \in [Keys -> Outcomes]
  PROVE  /\ NewRunner(program, log, frontier, outcomes) \in Runner
         /\ NewRunner(program, log, frontier, outcomes).phase = "call"
         /\ NewRunner(program, log, frontier, outcomes).log = log
<1>1. "call" \in Phases /\ "none" \in Decisions /\ NoWait \in Wait
  BY DEF Phases, Decisions, NoWait, Wait, WaitKinds
<1>2. QED
  BY <1>1 DEF NewRunner, Runner

LEMMA NoReplayType == NoReplay \in Runner /\ NoReplay.phase = "call"
<1>1. [k \in Keys |-> "none"] \in [Keys -> Outcomes]
  BY DEF Outcomes
<1>2. <<>> \in Seq(Command) /\ <<>> \in Seq(Event) /\ {} \in SUBSET Nat
  OBVIOUS
<1>3. QED
  BY <1>1, <1>2, NewRunnerType, ZenonT(180) DEF NoReplay

LEMMA NoTaskType == NoTask \in Task
BY AttemptLimit DEF NoTask, Task, TaskStatuses

LEMMA IdleType == IdleActivityWorker \in ActivityWorker
BY DEF IdleActivityWorker, ActivityWorker, Outcomes

LEMMA NoWaitType == NoWait \in Wait
BY DEF NoWait, Wait, WaitKinds

LEMMA InitTypes ==
  ASSUME Init
  PROVE  TypeOK /\ ReplayPosition
<1>1. \A w \in Workers : [pc |-> "idle", horizon |-> 0] \in WorkflowWorker
  BY DEF WorkflowWorker
<1>2. [k \in Keys |-> NoTask] \in [Keys -> Task]
  BY NoTaskType
<1>3. ReplayPosition
  BY NoReplayType DEF Init, ReplayPosition
<1>4. /\ wf \in [Workers -> WorkflowWorker]
      /\ aw \in [ActivityWorkers -> ActivityWorker]
      /\ tasks \in [Keys -> Task]
  BY <1>1, <1>2, IdleType DEF Init
<1>5. history \in Seq(Event) /\ inbox \in Seq(InboxItem)
  BY DEF Init
<1>6. runner \in Runner /\ waitingFor \in Wait /\ budget \in [BudgetKinds -> Nat]
  BY NoReplayType, NoWaitType, AllowedBudget DEF Init
<1>7. /\ status \in RunStatuses /\ claimedBy \in Workers \cup {None} /\ leaseLive \in BOOLEAN
      /\ lock \in Workers \cup ActivityWorkers \cup {None}
      /\ armed \subseteq Keys /\ dueListed \in BOOLEAN
  BY DEF Init, RunStatuses
<1>8. QED
  BY <1>3, <1>4, <1>5, <1>6, <1>7 DEF TypeOK

LEMMA MoveType ==
  ASSUME NEW s \in RunStatuses, NEW wait \in Wait, MoveRun(s, wait)
  PROVE  /\ status' \in RunStatuses
         /\ claimedBy' \in Workers \cup {None}
         /\ leaseLive' \in BOOLEAN
         /\ waitingFor' \in Wait
BY DEF MoveRun

LEMMA WakeType ==
  ASSUME TypeOK, WakeIfWaiting
  PROVE  /\ status' \in RunStatuses
         /\ claimedBy' \in Workers \cup {None}
         /\ leaseLive' \in BOOLEAN
         /\ waitingFor' \in Wait
<1>1. CASE status = "waiting"
  BY <1>1, MoveType, NoWaitType DEF WakeIfWaiting, RunStatuses
<1>2. CASE status # "waiting"
  <2>1. UNCHANGED <<status, claimedBy, leaseLive, waitingFor>>
    BY <1>2 DEF WakeIfWaiting, runVars
  <2>2. QED
    BY <2>1 DEF TypeOK
<1>3. QED
  BY <1>1, <1>2

LEMMA SetWorkerType ==
  ASSUME TypeOK, NEW w \in Workers, NEW pc \in {"idle", "claimed", "begun", "active", "stopping", "down"},
         NEW horizon \in Nat, wf' = [wf EXCEPT ![w] = [pc |-> pc, horizon |-> horizon]]
  PROVE  wf' \in [Workers -> WorkflowWorker]
<1>1. [pc |-> pc, horizon |-> horizon] \in WorkflowWorker
  BY DEF WorkflowWorker
<1>2. QED
  BY <1>1 DEF TypeOK

LEMMA CancelledTasksType ==
  ASSUME TypeOK
  PROVE  CancelledTasks \in [Keys -> Task]
<1>1. ASSUME NEW k \in Keys
      PROVE  [tasks[k] EXCEPT !.status = "cancelled", !.claimedBy = None, !.leaseLive = FALSE] \in Task
  <2>1. tasks[k] \in Task
    BY DEF TypeOK
  <2>2. QED
    BY <2>1 DEF Task, TaskStatuses
<1>2. QED
  BY <1>1 DEF CancelledTasks, TypeOK

LEMMA InboxUpdateType ==
  ASSUME NEW items \in Seq(InboxItem), NEW s \in {"processed", "discarded"},
         NEW changed \in SUBSET Nat
  PROVE  [i \in 1..Len(items) |-> IF i \in changed THEN [items[i] EXCEPT !.status = s] ELSE items[i]]
           \in Seq(InboxItem)
<1>1. ASSUME NEW i \in 1..Len(items)
      PROVE  items[i] \in InboxItem /\ [items[i] EXCEPT !.status = s] \in InboxItem
  <2>1. items[i] \in InboxItem
    OBVIOUS
  <2>2. QED
    BY <2>1 DEF InboxItem
<1>2. Len(items) \in Nat
  OBVIOUS
<1>3. QED
  BY <1>1, <1>2

LEMMA ConsumedType ==
  ASSUME TypeOK
  PROVE  Consumed \in Seq(InboxItem)
<1> DEFINE changed == {i \in 1..Len(inbox) : i \in runner.consumed /\ inbox[i].status = "pending"}
<1>1. inbox \in Seq(InboxItem) /\ changed \in SUBSET Nat
  BY DEF TypeOK
<1>2. Consumed = [i \in 1..Len(inbox) |->
                    IF i \in changed THEN [inbox[i] EXCEPT !.status = "processed"] ELSE inbox[i]]
  BY DEF Consumed
<1> HIDE DEF changed
<1>3. QED
  BY <1>1, <1>2, InboxUpdateType

LEMMA DiscardType ==
  ASSUME NEW items \in Seq(InboxItem)
  PROVE  DiscardPending(items) \in Seq(InboxItem)
<1> DEFINE changed == {i \in 1..Len(items) : items[i].status = "pending"}
<1>1. changed \in SUBSET Nat
  OBVIOUS
<1>2. DiscardPending(items) = [i \in 1..Len(items) |->
                    IF i \in changed THEN [items[i] EXCEPT !.status = "discarded"] ELSE items[i]]
  BY DEF DiscardPending
<1> HIDE DEF changed
<1>3. QED
  BY <1>1, <1>2, InboxUpdateType

\* The types of the rows and of the processes, named apart so that each action
\* is shown to keep those it disturbs.
RunTypes ==
    /\ status \in RunStatuses
    /\ claimedBy \in Workers \cup {None}
    /\ leaseLive \in BOOLEAN
    /\ waitingFor \in Wait
LockType == lock \in Workers \cup ActivityWorkers \cup {None}
WorkTypes ==
    /\ tasks \in [Keys -> Task]
    /\ armed \subseteq Keys
    /\ inbox \in Seq(InboxItem)
HistoryType == history \in Seq(Event)
ReplayTypes == runner \in Runner /\ ReplayPosition
ProcessTypes ==
    /\ wf \in [Workers -> WorkflowWorker]
    /\ aw \in [ActivityWorkers -> ActivityWorker]
BoundTypes == dueListed \in BOOLEAN /\ budget \in [BudgetKinds -> Nat]

Types == RunTypes /\ LockType /\ WorkTypes /\ HistoryType /\ ReplayTypes /\ ProcessTypes /\ BoundTypes

LEMMA TypesAreTypeOK == Types <=> TypeOK /\ ReplayPosition
BY DEF Types, RunTypes, LockType, WorkTypes, HistoryType, ReplayTypes, ProcessTypes, BoundTypes, TypeOK

\* What an action does not change keeps its type.
LEMMA Untouched ==
  ASSUME Types
  PROVE  /\ UNCHANGED runVars => RunTypes'
         /\ UNCHANGED lock => LockType'
         /\ UNCHANGED workVars => WorkTypes'
         /\ UNCHANGED history => HistoryType'
         /\ UNCHANGED runner => ReplayTypes'
         /\ UNCHANGED <<wf, aw>> => ProcessTypes'
         /\ UNCHANGED <<dueListed, budget>> => BoundTypes'
<1> USE DEF Types
<1>1. UNCHANGED runVars => RunTypes'
  BY DEF RunTypes, runVars
<1>2. UNCHANGED lock => LockType'
  BY DEF LockType
<1>3. UNCHANGED workVars => WorkTypes'
  BY DEF WorkTypes, workVars
<1>4. UNCHANGED history => HistoryType'
  BY DEF HistoryType
<1>5. UNCHANGED runner => ReplayTypes'
  BY DEF ReplayTypes, ReplayPosition
<1>6. UNCHANGED <<wf, aw>> => ProcessTypes'
  BY DEF ProcessTypes
<1>7. UNCHANGED <<dueListed, budget>> => BoundTypes'
  BY DEF BoundTypes
<1>8. QED
  BY <1>1, <1>2, <1>3, <1>4, <1>5, <1>6, <1>7

LEMMA ActivationTypes ==
  ASSUME Types, NEW w \in Workers, Activation(w)
  PROVE  Types'
<1>0. TypeOK /\ ReplayPosition
  BY TypesAreTypeOK
<1>1. ASSUME NEW pc \in {"idle", "claimed", "begun", "active", "stopping", "down"}, NEW horizon \in Nat,
             wf' = [wf EXCEPT ![w] = [pc |-> pc, horizon |-> horizon]], UNCHANGED aw
      PROVE  ProcessTypes'
  BY <1>0, <1>1, SetWorkerType DEF ProcessTypes, TypeOK
<1>2. CASE ClaimNextRun(w)
  <2>1. RunTypes'
    BY <1>0, <1>2 DEF ClaimNextRun, RunTypes, RunStatuses, TypeOK
  <2>2. ProcessTypes'
    BY <1>1, <1>2 DEF ClaimNextRun, SetWorker
  <2>3. QED
    BY <1>2, <2>1, <2>2, Untouched DEF ClaimNextRun, Types
<1>3. CASE BeginTx(w)
  <2>1. Len(inbox) \in Nat
    BY <1>0 DEF TypeOK
  <2>2. ProcessTypes'
    BY <1>1, <1>3, <2>1 DEF BeginTx
  <2>3. QED
    BY <1>3, <2>2, Untouched DEF BeginTx, Types
<1>4. CASE StartReplay(w)
  <2> DEFINE frontier == {i \in 1..wf[w].horizon : inbox[i].status = "pending"}
             outcomes == [k \in Keys |-> ReadOutcome(k)]
  <2>1. runner' = NewRunner(Deployed[w], history, frontier, outcomes) /\ lock' = w
    BY <1>4 DEF StartReplay
  <2>2. wf[w].horizon \in Nat
    BY <1>0 DEF TypeOK, WorkflowWorker
  <2>3. frontier \in SUBSET Nat
    BY <2>2
  <2>4. outcomes \in [Keys -> Outcomes]
    BY DEF ReadOutcome, Outcomes
  <2>5. Deployed[w] \in Seq(Command) /\ history \in Seq(Event)
    BY <1>0, DeployedPrograms DEF TypeOK
  <2> HIDE DEF frontier, outcomes
  <2>6. ReplayTypes'
    BY <2>1, <2>3, <2>4, <2>5, NewRunnerType DEF ReplayTypes, ReplayPosition
  <2>7. LockType'
    BY <2>1 DEF LockType
  <2>8. ProcessTypes'
    BY <1>1, <1>4 DEF StartReplay, SetWorker
  <2>9. QED
    BY <1>4, <2>6, <2>7, <2>8, Untouched DEF StartReplay, Types
<1>5. CASE DropStaleClaim(w)
  <2>1. ProcessTypes'
    BY <1>1, <1>5 DEF DropStaleClaim, SetWorker
  <2>2. QED
    BY <1>5, <2>1, Untouched DEF DropStaleClaim, Types
<1>6. CASE FailUnregistered(w)
  <2>1. RunTypes'
    BY <1>6, MoveType, NoWaitType DEF FailUnregistered, TransitionRunToFailed, RunTypes, RunStatuses
  <2>2. NewEvent("workflow.failed", None, 0) \in Event
    BY EventType DEF EventTypes, EndingEvents
  <2>3. HistoryType'
    BY <1>0, <1>6, <2>2 DEF FailUnregistered, HistoryType, TypeOK
  <2>4. ProcessTypes'
    BY <1>1, <1>6 DEF FailUnregistered, SetWorker
  <2>5. QED
    BY <1>6, <2>1, <2>3, <2>4, Untouched DEF FailUnregistered, Types
<1>7. CASE Replay(w)
  <2>1. ReplayTypes'
    BY <1>0, <1>7, ReplayKeepsTypes DEF Replay, ReplayTypes, TypeOK
  <2>2. QED
    BY <1>7, <2>1, Untouched DEF Replay, Types
<1>8. ASSUME NEW decision \in Decisions, Committing(w, decision)
      PROVE  HistoryType' /\ LockType' /\ ReplayTypes' /\ ProcessTypes' /\ BoundTypes'
  <2>1. runner.queued \in Seq(Event)
    BY <1>0 DEF TypeOK, Runner
  <2>2. HistoryType'
    BY <1>0, <1>8, <2>1 DEF Committing, HistoryType, TypeOK
  <2>3. LockType'
    BY <1>8 DEF Committing, LockType
  <2>4. ReplayTypes'
    BY <1>8, NoReplayType DEF Committing, ReplayTypes, ReplayPosition
  <2>5. ProcessTypes'
    BY <1>1, <1>8 DEF Committing, SetWorker
  <2>6. QED
    BY <1>8, <2>2, <2>3, <2>4, <2>5, Untouched DEF Committing
<1>9. Consumed \in Seq(InboxItem)
  BY <1>0, ConsumedType
<1>10. CASE CommitWaiting(w)
  <2>1. runner.wait \in Wait /\ runner.newTimer \in Keys \cup {None}
    BY <1>0 DEF TypeOK, Runner
  <2>2. RunTypes'
    BY <1>10, <2>1, MoveType DEF CommitWaiting, TransitionRunToWaiting, RunTypes, RunStatuses
  <2>3. [NoTask EXCEPT !.status = "queued"] \in Task
    BY NoTaskType DEF Task, TaskStatuses
  <2>4. tasks' \in [Keys -> Task]
    BY <1>0, <1>10, <2>3 DEF CommitWaiting, TypeOK
  <2>5. WorkTypes'
    BY <1>0, <1>9, <1>10, <2>1, <2>4 DEF CommitWaiting, WorkTypes, TypeOK
  <2>6. "waiting" \in Decisions
    BY DEF Decisions
  <2>7. QED
    BY <1>8, <1>10, <2>2, <2>5, <2>6 DEF CommitWaiting, Types
<1>11. CASE CommitEnded(w)
  <2>1. PICK decision \in {"completed", "failed"} : Committing(w, decision) /\ MoveRun(decision, NoWait)
    BY <1>11 DEF CommitEnded, TransitionRunToCompleted, TransitionRunToFailed
  <2>2. decision \in Decisions /\ decision \in RunStatuses
    BY DEF Decisions, RunStatuses
  <2>3. RunTypes'
    BY <2>1, <2>2, MoveType, NoWaitType DEF RunTypes
  <2>4. WorkTypes'
    BY <1>0, <1>9, <1>11 DEF CommitEnded, WorkTypes, TypeOK
  <2>5. QED
    BY <1>8, <2>1, <2>2, <2>3, <2>4 DEF Types
<1>12. CASE CommitQuarantined(w)
  <2>1. runner.wait \in Wait
    BY <1>0 DEF TypeOK, Runner
  <2>2. "quarantined" \in Decisions /\ "quarantined" \in RunStatuses
    BY DEF Decisions, RunStatuses
  <2>3. RunTypes'
    BY <1>12, <2>1, <2>2, MoveType DEF CommitQuarantined, TransitionRunToQuarantined, RunTypes
  <2>4. WorkTypes'
    BY <1>0, <1>9, <1>12 DEF CommitQuarantined, WorkTypes, TypeOK
  <2>5. QED
    BY <1>8, <1>12, <2>2, <2>3, <2>4 DEF CommitQuarantined, Types
<1>13. CASE CommitCancelled(w)
  <2>1. "cancelled" \in Decisions /\ "cancelled" \in RunStatuses
    BY DEF Decisions, RunStatuses
  <2>2. RunTypes'
    BY <1>13, <2>1, MoveType, NoWaitType DEF CommitCancelled, TransitionRunToCancelled, RunTypes
  <2>3. tasks' \in [Keys -> Task] /\ inbox' \in Seq(InboxItem) /\ armed' \subseteq Keys
    BY <1>0, <1>9, <1>13, CancelledTasksType, DiscardType DEF CommitCancelled
  <2>4. WorkTypes'
    BY <2>3 DEF WorkTypes
  <2>5. QED
    BY <1>8, <1>13, <2>1, <2>2, <2>4 DEF CommitCancelled, Types
<1>14. CASE ReleaseRuns(w)
  <2>1. ProcessTypes'
    BY <1>1, <1>14 DEF ReleaseRuns, SetWorker
  <2>2. RunTypes'
    <3>1. CASE UNCHANGED runVars
      BY <3>1, Untouched
    <3>2. CASE ~UNCHANGED runVars
      BY <1>0, <1>14, <3>2 DEF ReleaseRuns, RunTypes, RunStatuses, TypeOK
    <3>3. QED
      BY <3>1, <3>2
  <2>3. QED
    BY <1>14, <2>1, <2>2, Untouched DEF ReleaseRuns, Types
<1>15. QED
  BY <1>2, <1>3, <1>4, <1>5, <1>6, <1>7, <1>10, <1>11, <1>12, <1>13, <1>14 DEF Activation

LEMMA ExecutionTypes ==
  ASSUME Types, NEW a \in ActivityWorkers, Execution(a)
  PROVE  Types'
<1>0. TypeOK /\ ReplayPosition
  BY TypesAreTypeOK
<1>1. aw[a] \in ActivityWorker /\ aw[a].key \in Keys \cup {None} /\ aw[a].outcome \in Outcomes
  BY <1>0 DEF TypeOK, ActivityWorker
<1>2. ASSUME NEW p \in ActivityWorker, aw' = [aw EXCEPT ![a] = p], UNCHANGED wf
      PROVE  ProcessTypes'
  BY <1>0, <1>2 DEF ProcessTypes, TypeOK
<1>3. ASSUME NEW k, NEW task, k \in Keys => task \in Task, tasks' = [tasks EXCEPT ![k] = task],
             UNCHANGED <<armed, inbox>>
      PROVE  WorkTypes'
  BY <1>0, <1>3 DEF WorkTypes, TypeOK
<1>4. CASE ClaimActivityTask(a)
  <2>1. PICK k \in Keys :
          /\ tasks' = [tasks EXCEPT ![k] = [status |-> "claimed", claimedBy |-> a, leaseLive |-> TRUE,
                                            attempts |-> NextAttempt(tasks[k].attempts)]]
          /\ aw' = [aw EXCEPT ![a] = [IdleActivityWorker EXCEPT !.pc = "executing", !.key = k]]
    BY <1>0, <1>4 DEF ClaimActivityTask, TypeOK
  <2>2. tasks[k].attempts \in 0..MaxAttempts
    BY <1>0 DEF TypeOK, Task
  <2>3. NextAttempt(tasks[k].attempts) \in 0..MaxAttempts
    BY <2>2, AttemptLimit DEF NextAttempt
  <2>4. [status |-> "claimed", claimedBy |-> a, leaseLive |-> TRUE,
         attempts |-> NextAttempt(tasks[k].attempts)] \in Task
    BY <2>3 DEF Task, TaskStatuses
  <2>5. [IdleActivityWorker EXCEPT !.pc = "executing", !.key = k] \in ActivityWorker
    BY IdleType DEF ActivityWorker
  <2>6. WorkTypes'
    BY <1>3, <1>4, <2>1, <2>4 DEF ClaimActivityTask
  <2>7. ProcessTypes'
    BY <1>2, <1>4, <2>1, <2>5 DEF ClaimActivityTask
  <2>8. QED
    BY <1>4, <2>6, <2>7, Untouched DEF ClaimActivityTask, Types
<1>5. CASE StartOutcome(a)
  <2>1. PICK outcome \in {"completed", "failed"} :
          aw' = [aw EXCEPT ![a].pc = "finishing", ![a].outcome = outcome, ![a].woke = (status = "waiting")]
    BY <1>5 DEF StartOutcome
  <2> DEFINE p == [aw[a] EXCEPT !.pc = "finishing", !.outcome = outcome, !.woke = (status = "waiting")]
  <2>2. aw' = [aw EXCEPT ![a] = p]
    BY <1>0, <2>1 DEF TypeOK
  <2>3. (status = "waiting") \in BOOLEAN /\ outcome \in Outcomes
    BY DEF Outcomes
  <2>4. p \in ActivityWorker
    BY <1>1, <2>3 DEF ActivityWorker
  <2> HIDE DEF p
  <2>5. ProcessTypes'
    BY <1>2, <1>5, <2>2, <2>4 DEF StartOutcome
  <2>6. LockType'
    BY <1>0, <1>5 DEF StartOutcome, LockType, TypeOK
  <2>7. QED
    BY <1>5, <2>5, <2>6, Untouched DEF StartOutcome, Types
<1> DEFINE k == aw[a].key
<1>6. ASSUME NEW s \in TaskStatuses, k \in Keys
      PROVE  [tasks[k] EXCEPT !.status = s, !.claimedBy = None, !.leaseLive = FALSE] \in Task
  <2>1. tasks[k] \in Task
    BY <1>0, <1>6 DEF TypeOK
  <2>2. QED
    BY <2>1 DEF Task
<1>7. CASE CommitOutcome(a)
  <2>1. aw[a].outcome \in TaskStatuses
    BY <1>1 DEF Outcomes, TaskStatuses
  <2>2. WorkTypes'
    BY <1>3, <1>6, <1>7, <2>1 DEF CommitOutcome, TaskSetTo
  <2>3. RunTypes' /\ LockType'
    <3>1. CASE aw[a].woke
      <4>1. MoveRun("queued", NoWait) /\ lock' = None
        BY <1>7, <3>1 DEF CommitOutcome
      <4>2. "queued" \in RunStatuses
        BY DEF RunStatuses
      <4>3. QED
        BY <4>1, <4>2, MoveType, NoWaitType DEF RunTypes, LockType
    <3>2. CASE ~aw[a].woke
      BY <1>7, <3>2, Untouched DEF CommitOutcome
    <3>3. QED
      BY <3>1, <3>2
  <2>4. ProcessTypes'
    BY <1>2, <1>7, IdleType DEF CommitOutcome
  <2>5. QED
    BY <1>7, <2>2, <2>3, <2>4, Untouched DEF CommitOutcome, Types
<1>8. CASE RetryActivity(a)
  <2>1. "queued" \in TaskStatuses /\ "activity.retry_scheduled" \in EventTypes
    BY DEF TaskStatuses, EventTypes
  <2>2. WorkTypes'
    BY <1>3, <1>6, <1>8, <2>1 DEF RetryActivity, TaskSetTo
  <2>3. NewEvent("activity.retry_scheduled", aw[a].key, 0) \in Event
    BY <1>1, <2>1, EventType
  <2>4. HistoryType'
    BY <1>0, <1>8, <2>3 DEF RetryActivity, HistoryType, TypeOK
  <2>5. ProcessTypes'
    BY <1>2, <1>8, IdleType DEF RetryActivity
  <2>6. QED
    BY <1>8, <2>2, <2>4, <2>5, Untouched DEF RetryActivity, Types
<1>9. CASE DropStaleOutcome(a)
  <2>1. ProcessTypes'
    BY <1>2, <1>9, IdleType DEF DropStaleOutcome
  <2>2. QED
    BY <1>9, <2>1, Untouched DEF DropStaleOutcome, Types
<1>10. CASE ReleaseTasks(a)
  <2>1. "queued" \in TaskStatuses
    BY DEF TaskStatuses
  <2>2. ASSUME NEW key \in Keys
        PROVE  [tasks[key] EXCEPT !.status = "queued", !.claimedBy = None, !.leaseLive = FALSE] \in Task
    <3>1. tasks[key] \in Task
      BY <1>0 DEF TypeOK
    <3>2. QED
      BY <2>1, <3>1 DEF Task
  <2>3. WorkTypes'
    BY <1>0, <1>10, <2>2 DEF ReleaseTasks, WorkTypes, TypeOK
  <2>4. aw' = [aw EXCEPT ![a] = [aw[a] EXCEPT !.pc = "down"]]
    BY <1>0, <1>10 DEF ReleaseTasks, TypeOK
  <2>5. [aw[a] EXCEPT !.pc = "down"] \in ActivityWorker
    BY <1>1 DEF ActivityWorker
  <2>6. ProcessTypes'
    BY <1>2, <1>10, <2>4, <2>5 DEF ReleaseTasks
  <2>7. QED
    BY <1>10, <2>3, <2>6, Untouched DEF ReleaseTasks, Types
<1>11. QED
  BY <1>4, <1>5, <1>7, <1>8, <1>9, <1>10 DEF Execution

LEMMA EnvironmentTypes ==
  ASSUME Types, WorkerFailure \/ LeaseExpiry \/ LateLeaseExpiry \/ Timers \/ Control
  PROVE  Types'
<1>0. TypeOK /\ ReplayPosition
  BY TypesAreTypeOK
<1>1. ASSUME NEW p, LoseLock(p)
      PROVE  LockType'
  BY <1>0, <1>1 DEF LoseLock, LockType, TypeOK
<1>2. ASSUME NEW w \in Workers, NEW pc \in {"stopping", "down"}, LeaveWorker(w, pc)
      PROVE  Types'
  <2>1. ProcessTypes'
    BY <1>0, <1>2, SetWorkerType DEF LeaveWorker, ProcessTypes, TypeOK
  <2>2. ReplayTypes'
    <3>1. CASE lock = w
      BY <1>2, <3>1, NoReplayType DEF LeaveWorker, ReplayTypes, ReplayPosition
    <3>2. CASE lock # w
      BY <1>2, <3>2, Untouched DEF LeaveWorker
    <3>3. QED
      BY <3>1, <3>2
  <2>3. QED
    BY <1>1, <1>2, <2>1, <2>2, Untouched DEF LeaveWorker, Types
<1>3. ASSUME NEW a \in ActivityWorkers, NEW pc \in {"stopping", "down"}, LeaveActivityWorker(a, pc)
      PROVE  Types'
  <2>1. [IdleActivityWorker EXCEPT !.pc = pc] \in ActivityWorker
    BY IdleType DEF ActivityWorker
  <2>2. ProcessTypes'
    BY <1>0, <1>3, <2>1 DEF LeaveActivityWorker, ProcessTypes, TypeOK
  <2>3. QED
    BY <1>1, <1>3, <2>2, Untouched DEF LeaveActivityWorker, Types
<1>4. CASE WorkerFailure
  <2>1. ASSUME NEW w \in Workers, CrashWorker(w) \/ StopWorker(w)
        PROVE  Types'
    BY <1>2, <2>1 DEF CrashWorker, StopWorker
  <2>2. ASSUME NEW a \in ActivityWorkers, CrashActivityWorker(a) \/ StopActivityWorker(a)
        PROVE  Types'
    BY <1>3, <2>2 DEF CrashActivityWorker, StopActivityWorker
  <2>3. QED
    BY <1>4, <2>1, <2>2 DEF WorkerFailure
<1>5. ASSUME NEW kind \in BudgetKinds, Spend(kind), UNCHANGED dueListed
      PROVE  BoundTypes'
  <2>1. budget[kind] - 1 \in Nat
    BY <1>0, <1>5 DEF TypeOK, Spend
  <2>2. QED
    BY <1>0, <1>5, <2>1 DEF Spend, BoundTypes, TypeOK
<1>BudgetKindsIs. {"signals", "cancels", "controls", "lateLeases"} = BudgetKinds
  BY DEF BudgetKinds
<1>6. ASSUME UNCHANGED <<status, claimedBy, waitingFor>>, leaseLive' = FALSE
      PROVE  RunTypes'
  BY <1>0, <1>6 DEF RunTypes, TypeOK
<1>7. CASE ExpireRunLease
  <2>1. UNCHANGED <<dueListed, budget>>
    BY <1>7 DEF ExpireRunLease
  <2>2. QED
    BY <1>6, <1>7, <2>1, Untouched DEF ExpireRunLease, Types
<1>8. CASE ExpireRunLeaseLate
  <2>1. BoundTypes'
    BY <1>5, <1>8, <1>BudgetKindsIs DEF ExpireRunLeaseLate
  <2>2. QED
    BY <1>6, <1>8, <2>1, Untouched DEF ExpireRunLeaseLate, Types
<1>9. ASSUME NEW k \in Keys, LoseTaskLease(k)
      PROVE  WorkTypes'
  <2>1. [tasks[k] EXCEPT !.leaseLive = FALSE] \in Task
    BY <1>0, ZenonT(60) DEF TypeOK, Task
  <2>2. tasks' = [tasks EXCEPT ![k] = [tasks[k] EXCEPT !.leaseLive = FALSE]]
    BY <1>0, <1>9 DEF LoseTaskLease, TypeOK
  <2>3. QED
    BY <1>0, <1>9, <2>1, <2>2 DEF LoseTaskLease, WorkTypes, TypeOK
<1>10. ASSUME NEW k \in Keys, ExpireTaskLease(k)
       PROVE  Types'
  <2>1. UNCHANGED <<dueListed, budget>>
    BY <1>10 DEF ExpireTaskLease, LoseTaskLease
  <2>2. QED
    BY <1>9, <1>10, <2>1, Untouched DEF ExpireTaskLease, LoseTaskLease, Types
<1>11. ASSUME NEW k \in Keys, ExpireTaskLeaseLate(k)
       PROVE  Types'
  <2>1. BoundTypes'
    BY <1>5, <1>11, <1>BudgetKindsIs DEF ExpireTaskLeaseLate, LoseTaskLease
  <2>2. QED
    BY <1>9, <1>11, <2>1, Untouched DEF ExpireTaskLeaseLate, LoseTaskLease, Types
<1>12. ASSUME NEW kind \in {"signal", "cancel", "timer"}, NEW key \in Keys \cup {None}
       PROVE  Append(inbox, [kind |-> kind, key |-> key, status |-> "pending"]) \in Seq(InboxItem)
  <2>1. [kind |-> kind, key |-> key, status |-> "pending"] \in InboxItem
    BY DEF InboxItem
  <2>2. QED
    BY <1>0, <2>1 DEF TypeOK
<1>13. ASSUME NEW k \in Keys, TimerDue(k)
       PROVE  Types'
  <2>1. WorkTypes'
    BY <1>0, <1>12, <1>13 DEF TimerDue, WorkTypes, TypeOK
  <2>2. QED
    BY <1>13, <2>1, Untouched DEF TimerDue, Types
<1>14. CASE ListDueTimers
  <2>1. BoundTypes'
    BY <1>0, <1>14 DEF ListDueTimers, BoundTypes, TypeOK
  <2>2. QED
    BY <1>14, <2>1, Untouched DEF ListDueTimers, Types
<1>15. WakeIfWaiting => RunTypes'
  BY <1>0, WakeType DEF RunTypes
<1>16. CASE WakeDueRun
  <2>1. BoundTypes'
    BY <1>0, <1>16 DEF WakeDueRun, BoundTypes, TypeOK
  <2>2. QED
    BY <1>15, <1>16, <2>1, Untouched DEF WakeDueRun, Types
<1>17. Controlling => LockType' /\ ReplayTypes' /\ ProcessTypes' /\ UNCHANGED dueListed
  BY Untouched DEF Controlling
<1>18. ASSUME inbox' \in Seq(InboxItem), UNCHANGED <<tasks, armed>>
       PROVE  WorkTypes'
  BY <1>0, <1>18 DEF WorkTypes, TypeOK
<1>19. CASE SignalRun
  <2>1. inbox' \in Seq(InboxItem)
    BY <1>12, <1>19, SignalNamesAreKeys DEF SignalRun, Deliver
  <2>2. BoundTypes'
    BY <1>5, <1>17, <1>19, <1>BudgetKindsIs DEF SignalRun
  <2>3. QED
    BY <1>15, <1>17, <1>18, <1>19, <2>1, <2>2, Untouched DEF SignalRun, Types
<1>20. CASE CancelRun
  <2>1. inbox' \in Seq(InboxItem)
    BY <1>0, <1>12, <1>20 DEF CancelRun, Deliver, TypeOK
  <2>2. BoundTypes'
    BY <1>5, <1>17, <1>20, <1>BudgetKindsIs DEF CancelRun
  <2>3. QED
    BY <1>15, <1>17, <1>18, <1>20, <2>1, <2>2, Untouched DEF CancelRun, Types
<1>21. ASSUME NEW type \in EventTypes, history' = Append(history, NewEvent(type, None, 0))
       PROVE  HistoryType'
  <2>1. NewEvent(type, None, 0) \in Event
    BY EventType
  <2>2. QED
    BY <1>0, <1>21, <2>1 DEF HistoryType, TypeOK
<1>22. /\ "workflow.suspended" \in EventTypes /\ "workflow.resumed" \in EventTypes
       /\ "workflow.terminated" \in EventTypes
       /\ "suspended" \in RunStatuses /\ "queued" \in RunStatuses /\ "terminated" \in RunStatuses
  BY DEF EventTypes, LifecycleEvents, EndingEvents, RunStatuses
<1>23. waitingFor \in Wait
  BY <1>0 DEF TypeOK
<1>24. CASE SuspendRun
  <2>1. RunTypes'
    BY <1>22, <1>23, <1>24, MoveType DEF SuspendRun, TransitionRunToSuspended, RunTypes
  <2>2. BoundTypes'
    BY <1>5, <1>17, <1>24, <1>BudgetKindsIs DEF SuspendRun
  <2>3. QED
    BY <1>17, <1>21, <1>22, <1>24, <2>1, <2>2, Untouched DEF SuspendRun, Types
<1>25. CASE ResumeRun
  <2>1. RunTypes'
    BY <1>22, <1>25, MoveType, NoWaitType
       DEF ResumeRun, TransitionRunToQueuedFromSuspended, TransitionRunToQueuedFromQuarantined,
           RunTypes
  <2>2. BoundTypes'
    BY <1>5, <1>17, <1>25, <1>BudgetKindsIs DEF ResumeRun
  <2>3. QED
    BY <1>17, <1>21, <1>22, <1>25, <2>1, <2>2, Untouched DEF ResumeRun, Types
<1>26. CASE TerminateRun
  <2>1. RunTypes'
    BY <1>22, <1>26, MoveType, NoWaitType DEF TerminateRun, TransitionRunToTerminated, RunTypes
  <2>2. BoundTypes'
    BY <1>5, <1>17, <1>26, <1>BudgetKindsIs DEF TerminateRun
  <2>3. WorkTypes'
    BY <1>0, <1>26, CancelledTasksType, DiscardType DEF TerminateRun, WorkTypes, TypeOK
  <2>4. QED
    BY <1>17, <1>21, <1>22, <1>26, <2>1, <2>2, <2>3 DEF TerminateRun, Types
<1>27. QED
  BY <1>4, <1>7, <1>8, <1>10, <1>11, <1>13, <1>14, <1>16, <1>19, <1>20, <1>24, <1>25, <1>26
     DEF LeaseExpiry, LateLeaseExpiry, Timers, Control

LEMMA NextKeepsTypes ==
  ASSUME Types, [Next]_vars
  PROVE  Types'
<1>1. CASE UNCHANGED vars
  BY <1>1, Untouched DEF vars, Types, runVars, workVars
<1>2. CASE Next
  BY <1>2, ActivationTypes, ExecutionTypes, EnvironmentTypes DEF Next
<1>3. QED
  BY <1>1, <1>2

\* Rows, replays and processes keep their shape (TypeOK, EngineRun).
THEOREM TypesAreCorrect == Spec => []TypeOK
<1>1. Init => Types
  BY InitTypes, TypesAreTypeOK
<1>2. Types /\ [Next]_vars => Types'
  BY NextKeepsTypes
<1>3. Types => TypeOK
  BY TypesAreTypeOK
<1>4. QED
  BY <1>1, <1>2, <1>3, PTL DEF Spec

(***************************************************************************)
(* The run's lock.                                                         *)
(***************************************************************************)

\* The transaction that has woken the run holds its row.
WakeHoldsLock ==
    \A a \in ActivityWorkers : aw[a].pc = "finishing" /\ aw[a].woke => lock = a

Locking == ActivationFence /\ WakeHoldsLock

\* Who holds the lock excludes everyone else.
LEMMA LockExcludes ==
  ASSUME Locking
  PROVE  /\ \A w \in Workers : wf[w].pc = "active" => lock = w
         /\ RunUnlocked => /\ \A w \in Workers : wf[w].pc # "active"
                           /\ \A a \in ActivityWorkers : ~(aw[a].pc = "finishing" /\ aw[a].woke)
         /\ \A a \in ActivityWorkers : lock = a => \A w \in Workers : wf[w].pc # "active"
         /\ \A w \in Workers : lock = w =>
              \A a \in ActivityWorkers : ~(aw[a].pc = "finishing" /\ aw[a].woke)
BY WorkersAreDistinct DEF Locking, ActivationFence, WakeHoldsLock, RunUnlocked

\* A transaction that finds the run unlocked, leaves it unlocked and activates
\* nothing meets nobody.
LEMMA UnlockedStep ==
  ASSUME Types, Locking, RunUnlocked, UNCHANGED aw,
         \A w \in Workers : wf'[w].pc = "active" => wf[w].pc = "active"
  PROVE  Locking'
<1>1. /\ \A w \in Workers : wf'[w].pc # "active"
      /\ \A a \in ActivityWorkers : ~(aw'[a].pc = "finishing" /\ aw'[a].woke)
  BY LockExcludes
<1>2. QED
  BY <1>1 DEF Locking, ActivationFence, WakeHoldsLock

\* A step that touches neither the claim, the lock, the history nor the replay
\* leaves the fence alone.
LEMMA ElsewhereStep ==
  ASSUME Locking, UNCHANGED <<status, claimedBy, lock, history, runner>>,
         \A w \in Workers : wf'[w].pc = "active" => wf[w].pc = "active",
         \A a \in ActivityWorkers : aw'[a].pc = "finishing" /\ aw'[a].woke
                                      => aw[a].pc = "finishing" /\ aw[a].woke
  PROVE  Locking'
BY DEF Locking, ActivationFence, WakeHoldsLock, HasClaim

LEMMA ActivationLocking ==
  ASSUME Types, Locking, NEW w \in Workers, Activation(w)
  PROVE  Locking'
<1>0. TypeOK /\ ReplayPosition
  BY TypesAreTypeOK
<1>1. ASSUME NEW pc, NEW horizon, pc # "active",
             wf' = [wf EXCEPT ![w] = [pc |-> pc, horizon |-> horizon]]
      PROVE  /\ \A v \in Workers : wf'[v].pc = "active" => wf[v].pc = "active"
             /\ wf'[w].pc # "active"
  BY <1>0, <1>1 DEF TypeOK
<1>2. CASE ClaimNextRun(w)
  BY <1>1, <1>2, UnlockedStep DEF ClaimNextRun, SetWorker
<1>3. CASE BeginTx(w)
  BY <1>1, <1>3, ElsewhereStep DEF BeginTx, runVars
<1>4. CASE StartReplay(w)
  <2> DEFINE frontier == {i \in 1..wf[w].horizon : inbox[i].status = "pending"}
             outcomes == [k \in Keys |-> ReadOutcome(k)]
  <2>1. /\ lock' = w /\ UNCHANGED <<status, claimedBy, history, aw>> /\ HasClaim(w) /\ RunUnlocked
        /\ runner' = NewRunner(Deployed[w], history, frontier, outcomes)
        /\ wf' = [wf EXCEPT ![w] = [pc |-> "active", horizon |-> 0]]
    BY <1>4 DEF StartReplay, SetWorker, runVars
  <2>2. runner'.log = history
    BY <2>1 DEF NewRunner
  <2>3. \A v \in Workers : wf'[v].pc = "active" => v = w
    BY <1>0, <2>1, LockExcludes DEF TypeOK
  <2>4. ActivationFence'
    BY <2>1, <2>2, <2>3 DEF ActivationFence, HasClaim
  <2>5. WakeHoldsLock'
    BY <2>1, LockExcludes DEF WakeHoldsLock
  <2>6. QED
    BY <2>4, <2>5 DEF Locking
<1>5. CASE DropStaleClaim(w)
  BY <1>1, <1>5, UnlockedStep DEF DropStaleClaim, SetWorker
<1>6. CASE FailUnregistered(w)
  BY <1>1, <1>6, UnlockedStep DEF FailUnregistered, SetWorker
<1>7. CASE Replay(w)
  <2>1. UNCHANGED <<status, claimedBy, lock, history, wf, aw>> /\ runner'.log = runner.log
    BY <1>0, <1>7, ReplayKeepsTypes DEF Replay, runVars, TypeOK
  <2>2. QED
    BY <2>1 DEF Locking, ActivationFence, WakeHoldsLock, HasClaim
<1>8. ASSUME NEW decision, Committing(w, decision)
      PROVE  Locking'
  <2>1. lock = w
    BY <1>8, LockExcludes DEF Committing
  <2>2. \A v \in Workers : wf'[v].pc # "active"
    BY <1>1, <1>8, <2>1, LockExcludes DEF Committing, SetWorker
  <2>3. \A a \in ActivityWorkers : ~(aw'[a].pc = "finishing" /\ aw'[a].woke)
    BY <1>8, <2>1, LockExcludes DEF Committing
  <2>4. QED
    BY <2>2, <2>3 DEF Locking, ActivationFence, WakeHoldsLock
<1>9. CASE CommitWaiting(w) \/ CommitEnded(w) \/ CommitQuarantined(w) \/ CommitCancelled(w)
  BY <1>8, <1>9 DEF CommitWaiting, CommitEnded, CommitQuarantined, CommitCancelled
<1>10. CASE ReleaseRuns(w)
  <2>1. UNCHANGED <<lock, history, runner, aw>>
        /\ \A v \in Workers : wf'[v].pc = "active" => wf[v].pc = "active"
    BY <1>1, <1>10 DEF ReleaseRuns, SetWorker
  <2>2. CASE HasClaim(w)
    BY <1>10, <2>1, <2>2, UnlockedStep DEF ReleaseRuns
  <2>3. CASE ~HasClaim(w)
    BY <1>10, <2>1, <2>3, ElsewhereStep DEF ReleaseRuns, runVars
  <2>4. QED
    BY <2>2, <2>3
<1>11. QED
  BY <1>2, <1>3, <1>4, <1>5, <1>6, <1>7, <1>9, <1>10 DEF Activation

LEMMA ExecutionLocking ==
  ASSUME Types, Locking, NEW a \in ActivityWorkers, Execution(a)
  PROVE  Locking'
<1>0. TypeOK
  BY TypesAreTypeOK
<1>1. ASSUME NEW p, p.pc # "finishing", aw' = [aw EXCEPT ![a] = p]
      PROVE  \A b \in ActivityWorkers : aw'[b].pc = "finishing" /\ aw'[b].woke
                                          => b # a /\ aw[b].pc = "finishing" /\ aw[b].woke
  BY <1>0, <1>1 DEF TypeOK
<1>2. IdleActivityWorker.pc # "finishing"
  BY DEF IdleActivityWorker
<1>3. CASE ClaimActivityTask(a)
  <2>1. PICK k \in Keys : aw' = [aw EXCEPT ![a] = [IdleActivityWorker EXCEPT !.pc = "executing", !.key = k]]
    BY <1>3 DEF ClaimActivityTask
  <2>2. [IdleActivityWorker EXCEPT !.pc = "executing", !.key = k].pc # "finishing"
    BY DEF IdleActivityWorker
  <2>3. UNCHANGED <<status, claimedBy, lock, history, runner, wf>>
    BY <1>3 DEF ClaimActivityTask, runVars
  <2>4. QED
    BY <1>1, <2>1, <2>2, <2>3, ElsewhereStep
<1>4. CASE StartOutcome(a)
  <2>a. PICK outcome \in {"completed", "failed"} :
          aw' = [aw EXCEPT ![a].pc = "finishing", ![a].outcome = outcome, ![a].woke = (status = "waiting")]
    BY <1>4 DEF StartOutcome
  <2>b. aw[a] \in ActivityWorker /\ (status = "waiting") \in BOOLEAN
    BY <1>0 DEF TypeOK
  <2>c. aw'[a].woke = (status = "waiting") /\ \A b \in ActivityWorkers \ {a} : aw'[b] = aw[b]
    BY <1>0, <2>a, <2>b DEF TypeOK, ActivityWorker
  <2>1. /\ UNCHANGED <<status, claimedBy, history, runner, wf>>
        /\ status = "waiting" => RunUnlocked
        /\ lock' = IF status = "waiting" THEN a ELSE lock
        /\ \A b \in ActivityWorkers : aw'[b].pc = "finishing" /\ aw'[b].woke =>
             \/ aw[b].pc = "finishing" /\ aw[b].woke
             \/ b = a /\ status = "waiting"
    BY <1>4, <2>c DEF StartOutcome, runVars
  <2>2. CASE status = "waiting"
    <3>1. \A v \in Workers : wf'[v].pc # "active"
      BY <2>1, <2>2, LockExcludes
    <3>2. \A b \in ActivityWorkers : aw'[b].pc = "finishing" /\ aw'[b].woke => b = a
      BY <2>1, <2>2, LockExcludes
    <3>3. QED
      BY <2>1, <2>2, <3>1, <3>2 DEF Locking, ActivationFence, WakeHoldsLock
  <2>3. CASE status # "waiting"
    BY <2>1, <2>3, ElsewhereStep
  <2>4. QED
    BY <2>2, <2>3
<1>5. CASE CommitOutcome(a)
  <2>1. /\ UNCHANGED <<history, runner, wf>>
        /\ \A b \in ActivityWorkers : aw'[b].pc = "finishing" /\ aw'[b].woke
                                        => b # a /\ aw[b].pc = "finishing" /\ aw[b].woke
    BY <1>1, <1>2, <1>5 DEF CommitOutcome
  <2>2. CASE aw[a].woke
    <3>1. lock = a
      BY <1>5, <2>2 DEF CommitOutcome, Locking, WakeHoldsLock
    <3>2. \A v \in Workers : wf'[v].pc # "active"
      BY <2>1, <3>1, LockExcludes
    <3>3. \A b \in ActivityWorkers : ~(aw'[b].pc = "finishing" /\ aw'[b].woke)
      BY <2>1, <3>1 DEF Locking, WakeHoldsLock
    <3>4. QED
      BY <3>2, <3>3 DEF Locking, ActivationFence, WakeHoldsLock
  <2>3. CASE ~aw[a].woke
    <3>1. UNCHANGED <<status, claimedBy, lock>>
      BY <1>5, <2>3 DEF CommitOutcome, runVars
    <3>2. QED
      BY <2>1, <3>1, ElsewhereStep
  <2>4. QED
    BY <2>2, <2>3
<1>6. CASE RetryActivity(a)
  <2>1. /\ \A v \in Workers : wf'[v].pc # "active"
        /\ \A b \in ActivityWorkers : ~(aw'[b].pc = "finishing" /\ aw'[b].woke)
    BY <1>1, <1>2, <1>6, LockExcludes DEF RetryActivity
  <2>2. QED
    BY <2>1 DEF Locking, ActivationFence, WakeHoldsLock
<1>7. CASE DropStaleOutcome(a)
  BY <1>1, <1>2, <1>7, ElsewhereStep DEF DropStaleOutcome, runVars
<1>8. CASE ReleaseTasks(a)
  <2>1. UNCHANGED <<status, claimedBy, lock, history, runner, wf>>
    BY <1>8 DEF ReleaseTasks, runVars
  <2>2. \A b \in ActivityWorkers : aw'[b].pc = "finishing" /\ aw'[b].woke
                                     => aw[b].pc = "finishing" /\ aw[b].woke
    <3>1. aw' = [aw EXCEPT ![a] = [aw[a] EXCEPT !.pc = "down"]] /\ aw[a] \in ActivityWorker
      BY <1>0, <1>8 DEF ReleaseTasks, TypeOK
    <3>2. aw'[a].pc = "down" /\ \A b \in ActivityWorkers \ {a} : aw'[b] = aw[b]
      BY <1>0, <3>1 DEF TypeOK, ActivityWorker
    <3>3. QED
      BY <3>2
  <2>3. QED
    BY <2>1, <2>2, ElsewhereStep
<1>9. QED
  BY <1>3, <1>4, <1>5, <1>6, <1>7, <1>8 DEF Execution

LEMMA EnvironmentLocking ==
  ASSUME Types, Locking, WorkerFailure \/ LeaseExpiry \/ LateLeaseExpiry \/ Timers \/ Control
  PROVE  Locking'
<1>0. TypeOK
  BY TypesAreTypeOK
<1>1. ASSUME NEW w \in Workers, NEW pc \in {"stopping", "down"}, LeaveWorker(w, pc)
      PROVE  Locking'
  <2>1. \A v \in Workers : wf'[v].pc = "active" => v # w /\ wf[v].pc = "active"
    BY <1>0, <1>1 DEF LeaveWorker, TypeOK
  <2>2. UNCHANGED <<status, claimedBy, history, aw>>
    BY <1>1 DEF LeaveWorker, runVars
  <2>3. CASE lock = w
    <3>1. \A v \in Workers : wf'[v].pc # "active"
      BY <2>1, <2>3, LockExcludes
    <3>2. \A a \in ActivityWorkers : ~(aw'[a].pc = "finishing" /\ aw'[a].woke)
      BY <2>2, <2>3, LockExcludes
    <3>3. QED
      BY <3>1, <3>2 DEF Locking, ActivationFence, WakeHoldsLock
  <2>4. CASE lock # w
    BY <1>1, <2>1, <2>2, <2>4, ElsewhereStep DEF LeaveWorker, LoseLock
  <2>5. QED
    BY <2>3, <2>4
<1>2. ASSUME NEW a \in ActivityWorkers, NEW pc \in {"stopping", "down"}, LeaveActivityWorker(a, pc)
      PROVE  Locking'
  <2>1. \A b \in ActivityWorkers : aw'[b].pc = "finishing" /\ aw'[b].woke
                                     => b # a /\ aw[b].pc = "finishing" /\ aw[b].woke
    BY <1>0, <1>2 DEF LeaveActivityWorker, IdleActivityWorker, TypeOK
  <2>2. UNCHANGED <<status, claimedBy, history, runner, wf>>
    BY <1>2 DEF LeaveActivityWorker, runVars
  <2>3. CASE lock = a
    <3>1. \A v \in Workers : wf'[v].pc # "active"
      BY <2>2, <2>3, LockExcludes
    <3>2. \A b \in ActivityWorkers : ~(aw'[b].pc = "finishing" /\ aw'[b].woke)
      BY <2>1, <2>3 DEF Locking, WakeHoldsLock
    <3>3. QED
      BY <3>1, <3>2 DEF Locking, ActivationFence, WakeHoldsLock
  <2>4. CASE lock # a
    BY <1>2, <2>1, <2>2, <2>4, ElsewhereStep DEF LeaveActivityWorker, LoseLock
  <2>5. QED
    BY <2>3, <2>4
<1>3. CASE WorkerFailure
  <2>1. ASSUME NEW w \in Workers, CrashWorker(w) \/ StopWorker(w)
        PROVE  Locking'
    BY <1>1, <2>1 DEF CrashWorker, StopWorker
  <2>2. ASSUME NEW a \in ActivityWorkers, CrashActivityWorker(a) \/ StopActivityWorker(a)
        PROVE  Locking'
    BY <1>2, <2>2 DEF CrashActivityWorker, StopActivityWorker
  <2>3. QED
    BY <1>3, <2>1, <2>2 DEF WorkerFailure
<1>4. CASE LeaseExpiry \/ LateLeaseExpiry
  <2>1. UNCHANGED <<status, claimedBy, lock, history, runner, wf, aw>>
    BY <1>4 DEF LeaseExpiry, LateLeaseExpiry, ExpireRunLease, ExpireRunLeaseLate, ExpireTaskLease,
       ExpireTaskLeaseLate, LoseTaskLease, runVars
  <2>2. QED
    BY <2>1, ElsewhereStep
<1>5. CASE Timers
  <2>1. UNCHANGED <<lock, history, runner, wf, aw>>
    BY <1>5 DEF Timers, TimerDue, ListDueTimers, WakeDueRun
  <2>2. RunUnlocked \/ UNCHANGED <<status, claimedBy>>
    BY <1>5 DEF Timers, TimerDue, ListDueTimers, WakeDueRun, WakeIfWaiting, runVars
  <2>3. QED
    BY <2>1, <2>2, ElsewhereStep, UnlockedStep
<1>6. CASE Control
  <2>1. Controlling
    BY <1>6 DEF Control, SignalRun, CancelRun, SuspendRun, ResumeRun, TerminateRun
  <2>2. QED
    BY <2>1, UnlockedStep DEF Controlling
<1>7. QED
  BY <1>3, <1>4, <1>5, <1>6

LEMMA NextKeepsLocking ==
  ASSUME Types, Locking, [Next]_vars
  PROVE  Locking'
<1>1. CASE UNCHANGED vars
  BY <1>1, ElsewhereStep DEF vars, runVars
<1>2. CASE Next
  BY <1>2, ActivationLocking, ExecutionLocking, EnvironmentLocking DEF Next
<1>3. QED
  BY <1>1, <1>2

\* The transactions of engine.runs are serialised by the row's lock: an activation
\* holds it from its snapshot to its commit, and what it read is still what the
\* rows say (activation.go:58-146, 198-409).
THEOREM ActivationsAreFenced == Spec => []ActivationFence
<1>1. Init => Types /\ Locking
  <2>1. ASSUME Init
        PROVE  Locking
    BY <2>1 DEF Init, Locking, ActivationFence, WakeHoldsLock, IdleActivityWorker
  <2>2. QED
    BY <2>1, InitTypes, TypesAreTypeOK
<1>2. Types /\ Locking /\ [Next]_vars => (Types /\ Locking)'
  BY NextKeepsLocking, NextKeepsTypes
<1>3. Types /\ Locking => ActivationFence
  BY DEF Locking
<1>4. QED
  BY <1>1, <1>2, <1>3, PTL DEF Spec

(***************************************************************************)
(* The outcome of an activity.                                             *)
(***************************************************************************)

\* From the update of a task's row to the commit, the row stays as the update
\* found it: claimed by the worker whose transaction this is.
FinishingHoldsTask ==
    \A a \in ActivityWorkers :
       /\ aw[a].pc \in {"executing", "finishing"} => aw[a].key \in Keys
       /\ aw[a].pc = "finishing" => HoldsTask(a)

\* How a step may change the task of k: OutcomeDecidedByClaimant, one key at a time.
TaskStep(k) ==
    tasks'[k] # tasks[k] =>
       /\ tasks[k].status \notin {"completed", "failed", "cancelled"}
       /\ tasks'[k].status \in {"completed", "failed"} =>
             \E a \in ActivityWorkers :
                /\ aw[a].pc = "finishing" /\ aw[a].key = k /\ aw'[a] = IdleActivityWorker
                /\ tasks[k].claimedBy = a /\ tasks[k].status = "claimed"

TasksStep == FinishingHoldsTask' /\ \A k \in Keys : TaskStep(k)

\* A step that changes no task and finishes nothing.
LEMMA TasksUntouched ==
  ASSUME FinishingHoldsTask, UNCHANGED tasks,
         \A a \in ActivityWorkers : aw'[a] = aw[a] \/ aw'[a].pc \notin {"executing", "finishing"}
  PROVE  TasksStep
BY DEF FinishingHoldsTask, TasksStep, TaskStep, HoldsTask

\* No outcome transaction begins, and a claimed task is one of the run's.
NothingFinishes ==
    \A a \in ActivityWorkers :
       /\ aw'[a].pc = "finishing" => aw'[a] = aw[a]
       /\ aw'[a].pc = "executing" => aw'[a].key \in Keys

\* A task row changes only if it is open, is not decided, and keeps its claim if
\* a transaction has updated it.
TaskUndecided(k) ==
    tasks'[k] # tasks[k] =>
       /\ \/ ~TaskLocked(k)
          \/ tasks'[k].status = tasks[k].status /\ tasks'[k].claimedBy = tasks[k].claimedBy
       /\ tasks[k].status \notin {"completed", "failed", "cancelled"}
       /\ tasks'[k].status \notin {"completed", "failed"}

LEMMA UnlockedTasksStep ==
  ASSUME FinishingHoldsTask, NothingFinishes, \A k \in Keys : TaskUndecided(k)
  PROVE  TasksStep
<1>1. ASSUME NEW a \in ActivityWorkers, aw'[a].pc = "finishing"
      PROVE  aw'[a].key \in Keys /\ HoldsTask(a)'
  <2>1. aw'[a] = aw[a] /\ aw[a].key \in Keys /\ TaskLocked(aw[a].key) /\ HoldsTask(a)
    BY <1>1 DEF NothingFinishes, FinishingHoldsTask, TaskLocked
  <2>2. TaskUndecided(aw[a].key)
    BY <2>1
  <2>3. QED
    BY <2>1, <2>2 DEF HoldsTask, TaskUndecided
<1>2. FinishingHoldsTask'
  BY <1>1 DEF NothingFinishes, FinishingHoldsTask
<1>3. \A k \in Keys : TaskStep(k)
  BY DEF TaskUndecided, TaskStep
<1>4. QED
  BY <1>2, <1>3 DEF TasksStep

LEMMA IdleFinishesNothing ==
  ASSUME FinishingHoldsTask,
         \A a \in ActivityWorkers : aw'[a] = aw[a] \/ aw'[a].pc \notin {"executing", "finishing"}
  PROVE  NothingFinishes
BY DEF FinishingHoldsTask, NothingFinishes

\* A locked task is held by the worker that locked it, and by no other.
LEMMA LockedTask ==
  ASSUME FinishingHoldsTask, NEW k \in Keys, TaskLocked(k)
  PROVE  tasks[k].status = "claimed" /\ \E a \in ActivityWorkers : aw[a].pc = "finishing" /\ tasks[k].claimedBy = a
BY DEF FinishingHoldsTask, TaskLocked, HoldsTask

LEMMA ClosingTasksStep ==
  ASSUME Types, FinishingHoldsTask, OpenTasksUnlocked, tasks' = CancelledTasks, UNCHANGED aw
  PROVE  TasksStep
<1>0. TypeOK
  BY TypesAreTypeOK
<1>1. ASSUME NEW k \in Keys, tasks'[k] # tasks[k]
      PROVE  OpenTask(k) /\ ~TaskLocked(k) /\ tasks'[k].status = "cancelled"
  <2>1. tasks[k] \in Task
    BY <1>0 DEF TypeOK
  <2>2. OpenTask(k)
    BY <1>1 DEF CancelledTasks
  <2>3. tasks'[k] = [tasks[k] EXCEPT !.status = "cancelled", !.claimedBy = None, !.leaseLive = FALSE]
    BY <2>2 DEF CancelledTasks
  <2>4. tasks'[k].status = "cancelled"
    BY <2>1, <2>3 DEF Task
  <2>5. QED
    BY <2>2, <2>4 DEF OpenTasksUnlocked
<1>2. \A k \in Keys : TaskUndecided(k)
  BY <1>1 DEF OpenTask, TaskUndecided
<1>3. QED
  BY <1>2, IdleFinishesNothing, UnlockedTasksStep

LEMMA ExecutionTasks ==
  ASSUME Types, FinishingHoldsTask, NEW a \in ActivityWorkers, Execution(a)
  PROVE  TasksStep
<1>0. TypeOK
  BY TypesAreTypeOK
<1>1. ASSUME NEW p, aw' = [aw EXCEPT ![a] = p]
      PROVE  aw'[a] = p /\ \A b \in ActivityWorkers \ {a} : aw'[b] = aw[b]
  BY <1>0, <1>1 DEF TypeOK
<1>2. ASSUME NEW k \in Keys, NEW task, tasks' = [tasks EXCEPT ![k] = task]
      PROVE  tasks'[k] = task /\ \A j \in Keys \ {k} : tasks'[j] = tasks[j]
  BY <1>0, <1>2 DEF TypeOK
<1>3. IdleActivityWorker.pc = "idle"
  BY DEF IdleActivityWorker
<1>4. CASE ClaimActivityTask(a)
  <2>1. PICK k \in Keys :
          /\ tasks[k].status \in {"queued", "claimed"} /\ ~TaskLocked(k)
          /\ tasks' = [tasks EXCEPT ![k] = [status |-> "claimed", claimedBy |-> a, leaseLive |-> TRUE,
                                            attempts |-> NextAttempt(tasks[k].attempts)]]
          /\ aw' = [aw EXCEPT ![a] = [IdleActivityWorker EXCEPT !.pc = "executing", !.key = k]]
    BY <1>0, <1>4 DEF ClaimActivityTask, TypeOK
  <2>2. aw'[a] = [IdleActivityWorker EXCEPT !.pc = "executing", !.key = k]
        /\ \A b \in ActivityWorkers \ {a} : aw'[b] = aw[b]
    BY <1>1, <2>1
  <2>3. aw'[a].pc = "executing" /\ aw'[a].key = k
    BY <2>2 DEF IdleActivityWorker
  <2>4. tasks'[k].status = "claimed" /\ \A j \in Keys \ {k} : tasks'[j] = tasks[j]
    BY <1>0, <2>1 DEF TypeOK
  <2>5. NothingFinishes
    BY <2>2, <2>3 DEF FinishingHoldsTask, NothingFinishes
  <2>6. \A j \in Keys : TaskUndecided(j)
    BY <2>1, <2>4 DEF TaskUndecided
  <2>7. QED
    BY <2>5, <2>6, UnlockedTasksStep
<1>5. CASE StartOutcome(a)
  <2>1. aw[a].key \in Keys /\ HoldsTask(a) /\ UNCHANGED tasks
    BY <1>5 DEF StartOutcome, FinishingHoldsTask, workVars
  <2>2. PICK outcome \in {"completed", "failed"} :
          aw' = [aw EXCEPT ![a].pc = "finishing", ![a].outcome = outcome, ![a].woke = (status = "waiting")]
    BY <1>5 DEF StartOutcome
  <2>3. aw[a] \in ActivityWorker
    BY <1>0 DEF TypeOK
  <2>4. aw'[a].key = aw[a].key /\ \A b \in ActivityWorkers \ {a} : aw'[b] = aw[b]
    BY <1>0, <2>2, <2>3 DEF TypeOK, ActivityWorker
  <2>5. QED
    BY <2>1, <2>4 DEF FinishingHoldsTask, TasksStep, TaskStep, HoldsTask
<1> DEFINE k == aw[a].key
<1>6. CASE CommitOutcome(a)
  <2>1. k \in Keys /\ aw[a].pc = "finishing" /\ tasks[k].status = "claimed" /\ tasks[k].claimedBy = a
    BY <1>6 DEF CommitOutcome, FinishingHoldsTask, HoldsTask
  <2>2. \A j \in Keys \ {k} : tasks'[j] = tasks[j]
    BY <1>2, <1>6, <2>1 DEF CommitOutcome, TaskSetTo
  <2>3. aw'[a] = IdleActivityWorker /\ \A b \in ActivityWorkers \ {a} : aw'[b] = aw[b]
    BY <1>1, <1>6 DEF CommitOutcome
  <2>4. ASSUME NEW b \in ActivityWorkers, aw'[b].pc \in {"executing", "finishing"}
        PROVE  aw'[b].key \in Keys /\ (aw'[b].pc = "finishing" => HoldsTask(b)')
    <3>1. b # a /\ aw'[b] = aw[b]
      BY <1>3, <2>3, <2>4
    <3>2. aw[b].key \in Keys
      BY <2>4, <3>1 DEF FinishingHoldsTask
    <3>3. aw[b].pc = "finishing" => HoldsTask(b) /\ aw[b].key # k
      BY <2>1, <3>1 DEF FinishingHoldsTask, HoldsTask
    <3>4. QED
      BY <2>2, <3>1, <3>2, <3>3 DEF HoldsTask
  <2>5. \A j \in Keys : TaskStep(j)
    BY <2>1, <2>2, <2>3 DEF TaskStep
  <2>6. QED
    BY <2>4, <2>5 DEF FinishingHoldsTask, TasksStep
<1>7. ASSUME NEW j \in Keys
      PROVE  /\ [tasks[j] EXCEPT !.status = "queued", !.claimedBy = None, !.leaseLive = FALSE].status = "queued"
  <2>1. tasks[j] \in Task
    BY <1>0 DEF TypeOK
  <2>2. QED
    BY <2>1 DEF Task
<1>8. CASE RetryActivity(a)
  <2>1. k \in Keys /\ aw[a].pc = "executing" /\ tasks[k].status = "claimed" /\ tasks[k].claimedBy = a
    BY <1>8 DEF RetryActivity, FinishingHoldsTask, HoldsTask
  <2>2. tasks'[k].status = "queued" /\ \A j \in Keys \ {k} : tasks'[j] = tasks[j]
    BY <1>2, <1>7, <1>8, <2>1 DEF RetryActivity, TaskSetTo
  <2>3. aw'[a] = IdleActivityWorker /\ \A b \in ActivityWorkers \ {a} : aw'[b] = aw[b]
    BY <1>1, <1>8 DEF RetryActivity
  <2>4. ~TaskLocked(k)
    BY <2>1, LockedTask
  <2>5. NothingFinishes
    BY <1>3, <2>3, IdleFinishesNothing
  <2>6. \A j \in Keys : TaskUndecided(j)
    BY <2>1, <2>2, <2>4 DEF TaskUndecided
  <2>7. QED
    BY <2>5, <2>6, UnlockedTasksStep
<1>9. CASE DropStaleOutcome(a)
  <2>1. aw'[a] = IdleActivityWorker /\ \A b \in ActivityWorkers \ {a} : aw'[b] = aw[b]
    BY <1>1, <1>9 DEF DropStaleOutcome
  <2>2. UNCHANGED tasks
    BY <1>9 DEF DropStaleOutcome, workVars
  <2>3. QED
    BY <1>3, <2>1, <2>2, TasksUntouched
<1>10. CASE ReleaseTasks(a)
  <2>1. aw' = [aw EXCEPT ![a] = [aw[a] EXCEPT !.pc = "down"]] /\ aw[a] \in ActivityWorker
        /\ aw[a].pc = "stopping"
    BY <1>0, <1>10 DEF ReleaseTasks, TypeOK
  <2>2. aw'[a].pc = "down" /\ \A b \in ActivityWorkers \ {a} : aw'[b] = aw[b]
    BY <1>0, <2>1 DEF ActivityWorker, TypeOK
  <2>3. ASSUME NEW j \in Keys, tasks'[j] # tasks[j]
        PROVE  tasks[j].status = "claimed" /\ tasks[j].claimedBy = a /\ tasks'[j].status = "queued"
    BY <1>7, <1>10, <2>3 DEF ReleaseTasks
  <2>4. ASSUME NEW j \in Keys, tasks'[j] # tasks[j]
        PROVE  ~TaskLocked(j)
    BY <2>1, <2>3, <2>4, LockedTask
  <2>5. NothingFinishes
    BY <2>2, IdleFinishesNothing
  <2>6. \A j \in Keys : TaskUndecided(j)
    BY <2>3, <2>4 DEF TaskUndecided
  <2>7. QED
    BY <2>5, <2>6, UnlockedTasksStep
<1>11. QED
  BY <1>4, <1>5, <1>6, <1>8, <1>9, <1>10 DEF Execution

LEMMA ActivationTasks ==
  ASSUME Types, FinishingHoldsTask, NEW w \in Workers, Activation(w)
  PROVE  TasksStep
<1>0. TypeOK
  BY TypesAreTypeOK
<1>1. UNCHANGED aw
  BY DEF Activation, ClaimNextRun, BeginTx, StartReplay, DropStaleClaim, FailUnregistered, Replay,
     CommitWaiting, CommitEnded, CommitQuarantined, CommitCancelled, Committing, ReleaseRuns
<1>2. CASE UNCHANGED tasks
  BY <1>1, <1>2, TasksUntouched
<1>3. CASE CommitWaiting(w)
  <2>1. ASSUME NEW k \in Keys, tasks'[k] # tasks[k]
        PROVE  tasks[k].status = "none" /\ tasks'[k].status = "queued"
    <3>1. k = runner.newTask /\ tasks'[k] = [NoTask EXCEPT !.status = "queued"]
      BY <1>3, <2>1 DEF CommitWaiting
    <3>2. tasks[k].status = "none"
      BY <1>3, <3>1, NoneIsNoKey DEF CommitWaiting
    <3>3. QED
      BY <3>1, <3>2 DEF NoTask
  <2>2. \A k \in Keys : tasks'[k] # tasks[k] => ~TaskLocked(k)
    BY <2>1, LockedTask
  <2>3. \A k \in Keys : TaskUndecided(k)
    BY <2>1, <2>2 DEF TaskUndecided
  <2>4. QED
    BY <1>1, <2>3, IdleFinishesNothing, UnlockedTasksStep
<1>4. CASE CommitCancelled(w)
  BY <1>1, <1>4, ClosingTasksStep DEF CommitCancelled
<1>5. CASE ~(CommitWaiting(w) \/ CommitCancelled(w))
  <2>1. UNCHANGED tasks
    BY <1>5 DEF Activation, ClaimNextRun, BeginTx, StartReplay, DropStaleClaim, FailUnregistered,
       Replay, CommitEnded, CommitQuarantined, ReleaseRuns, workVars
  <2>2. QED
    BY <1>2, <2>1
<1>6. QED
  BY <1>3, <1>4, <1>5

LEMMA EnvironmentTasks ==
  ASSUME Types, FinishingHoldsTask, WorkerFailure \/ LeaseExpiry \/ LateLeaseExpiry \/ Timers \/ Control
  PROVE  TasksStep
<1>0. TypeOK
  BY TypesAreTypeOK
<1>1. UNCHANGED <<tasks, aw>> => TasksStep
  BY TasksUntouched
<1>2. CASE WorkerFailure
  <2>1. ASSUME NEW a \in ActivityWorkers, NEW pc \in {"stopping", "down"}, LeaveActivityWorker(a, pc)
        PROVE  TasksStep
    <3>1. UNCHANGED tasks /\ \A b \in ActivityWorkers : aw'[b] = aw[b] \/ aw'[b].pc = pc
      BY <1>0, <2>1 DEF LeaveActivityWorker, IdleActivityWorker, workVars, TypeOK
    <3>2. QED
      BY <3>1, TasksUntouched
  <2>2. ASSUME NEW w \in Workers, CrashWorker(w) \/ StopWorker(w)
        PROVE  TasksStep
    BY <1>1, <2>2 DEF CrashWorker, StopWorker, LeaveWorker, workVars
  <2>3. QED
    BY <1>2, <2>1, <2>2 DEF WorkerFailure, CrashActivityWorker, StopActivityWorker
<1>3. ASSUME NEW k \in Keys, LoseTaskLease(k)
      PROVE  TasksStep
  <2>1. tasks[k] \in Task /\ tasks' = [tasks EXCEPT ![k] = [tasks[k] EXCEPT !.leaseLive = FALSE]]
    BY <1>0, <1>3 DEF LoseTaskLease, TypeOK
  <2>2. tasks'[k] = [tasks[k] EXCEPT !.leaseLive = FALSE] /\ \A j \in Keys \ {k} : tasks'[j] = tasks[j]
    BY <1>0, <2>1 DEF TypeOK
  <2>3. tasks'[k].status = tasks[k].status /\ tasks'[k].claimedBy = tasks[k].claimedBy
    BY <2>1, <2>2 DEF Task
  <2>4. tasks[k].status = "claimed" /\ UNCHANGED aw
    BY <1>3 DEF LoseTaskLease
  <2>5. \A j \in Keys : TaskUndecided(j)
    BY <2>2, <2>3, <2>4 DEF TaskUndecided
  <2>6. QED
    BY <2>4, <2>5, IdleFinishesNothing, UnlockedTasksStep
<1>4. CASE LeaseExpiry \/ LateLeaseExpiry
  BY <1>1, <1>3, <1>4 DEF LeaseExpiry, LateLeaseExpiry, ExpireRunLease, ExpireRunLeaseLate,
     ExpireTaskLease, ExpireTaskLeaseLate, workVars
<1>5. CASE Timers
  BY <1>1, <1>5 DEF Timers, TimerDue, ListDueTimers, WakeDueRun, workVars
<1>6. CASE Control
  <2>1. CASE TerminateRun
    BY <2>1, ClosingTasksStep DEF TerminateRun, Controlling
  <2>2. CASE ~TerminateRun
    BY <1>1, <1>6, <2>2 DEF Control, SignalRun, CancelRun, SuspendRun, ResumeRun, Controlling, workVars
  <2>3. QED
    BY <2>1, <2>2
<1>7. QED
  BY <1>2, <1>4, <1>5, <1>6

LEMMA NextKeepsTasks ==
  ASSUME Types, FinishingHoldsTask, [Next]_vars
  PROVE  TasksStep
<1>1. CASE UNCHANGED vars
  BY <1>1, TasksUntouched DEF vars, workVars
<1>2. CASE Next
  BY <1>2, ActivationTasks, ExecutionTasks, EnvironmentTasks DEF Next
<1>3. QED
  BY <1>1, <1>2

\* An activity's outcome is stored by the worker whose claim the task's row
\* carries, once: the compare-and-set of CompleteActivityTask and
\* FailActivityTask (activity_tasks.sql:237-264) with the row's lock is enough,
\* whatever happens to leases, retries and claims meanwhile.
THEOREM OutcomesAreDecidedOnce == Spec => OutcomeDecidedByClaimant
<1>1. Init => Types /\ FinishingHoldsTask
  <2>1. ASSUME Init
        PROVE  FinishingHoldsTask
    BY <2>1 DEF Init, FinishingHoldsTask, IdleActivityWorker
  <2>2. QED
    BY <2>1, InitTypes, TypesAreTypeOK
<1>2. Types /\ FinishingHoldsTask /\ [Next]_vars => (Types /\ FinishingHoldsTask)'
  BY NextKeepsTasks, NextKeepsTypes DEF TasksStep
<1>3. Types /\ FinishingHoldsTask /\ [Next]_vars => [\A k \in Keys : TaskStep(k)]_vars
  BY NextKeepsTasks DEF TasksStep
<1>4. QED
  BY <1>1, <1>2, <1>3, PTL DEF Spec, OutcomeDecidedByClaimant, TaskStep

(***************************************************************************)
(* What a run reads: its inbox, and the history that its activations       *)
(* write.                                                                  *)
(***************************************************************************)

Replaying == \E w \in Workers : wf[w].pc = "active"

(***************************************************************************)
(* The steps of a run, as far as they concern its inbox and its history.   *)
(***************************************************************************)

\* An activation begins with a horizon that is not beyond the inbox.
HorizonsAreBehind == \A w \in Workers : wf[w].horizon <= Len(inbox)

\* Nothing is written that a replay reads.
Quiet ==
    /\ UNCHANGED <<history, inbox>>
    /\ IsTerminal' = IsTerminal
    /\ Replaying' => Replaying /\ runner' = runner

\* A row becomes available, behind the others.
Arrives ==
    /\ UNCHANGED <<history, runner, wf>> /\ IsTerminal' = IsTerminal
    /\ \E item \in InboxItem :
         /\ inbox' = Append(inbox, item)
         /\ item.status = "pending"
         /\ item.kind = "cancel" => item.key = None
         /\ item.kind \in {"signal", "cancel"} => ~IsTerminal

\* A transaction other than an activation's appends to the history, and may end the run.
NotedEvents == {"activity.retry_scheduled", "workflow.failed", "workflow.terminated"} \cup LifecycleEvents
Notes ==
    /\ ~Replaying /\ ~Replaying'
    /\ \E event \in Event :
         /\ history' = Append(history, event)
         /\ event.type \in NotedEvents /\ event.item = 0
    /\ \/ inbox' = inbox
       \/ inbox' = DiscardPending(inbox) /\ IsTerminal'
    /\ IsTerminal => IsTerminal'

Begins ==
    /\ ~Replaying /\ ~IsTerminal /\ ~IsTerminal'
    /\ UNCHANGED <<history, inbox>>
    /\ \E w \in Workers, outcomes \in [Keys -> Outcomes], horizon \in 0..Len(inbox) :
         runner' = NewRunner(Deployed[w], history,
                             {i \in 1..horizon : inbox[i].status = "pending"}, outcomes)

Replays ==
    /\ Replaying /\ runner.log = history
    /\ ReplayStep
    /\ UNCHANGED <<history, inbox, status>>

Commits ==
    /\ Replaying /\ ~Replaying' /\ ~IsTerminal /\ runner.log = history
    /\ history' = history \o runner.queued
    /\ runner.phase = "decided"
    /\ \/ inbox' = Consumed
       \/ inbox' = DiscardPending(Consumed) /\ IsTerminal'

Reads == Quiet \/ Arrives \/ Notes \/ Begins \/ Replays \/ Commits

\* Only the process that holds the lock replays.
LEMMA ReplayingIsLocked ==
  ASSUME Types, Locking
  PROVE  /\ RunUnlocked => ~Replaying
         /\ Replaying => ~IsTerminal /\ runner.log = history
<1>1. "running" \notin TerminalStatuses
  BY DEF TerminalStatuses
<1>2. QED
  BY <1>1, LockExcludes DEF Replaying, Locking, ActivationFence, HasClaim, IsTerminal

\* A step of one worker that begins no activation.
LEMMA WorkerMoves ==
  ASSUME Types, NEW w \in Workers, NEW pc \in {"idle", "claimed", "begun", "stopping", "down"}, NEW horizon,
         wf' = [wf EXCEPT ![w] = [pc |-> pc, horizon |-> horizon]]
  PROVE  /\ \A v \in Workers : wf'[v].pc = "active" => v # w /\ wf[v].pc = "active"
         /\ Replaying' => Replaying
<1>1. wf \in [Workers -> WorkflowWorker]
  BY DEF Types, ProcessTypes
<1>2. \A v \in Workers : wf'[v].pc = "active" => v # w /\ wf[v].pc = "active"
  BY <1>1
<1>3. QED
  BY <1>2 DEF Replaying

LEMMA ActivationReads ==
  ASSUME Types, Locking, HorizonsAreBehind, NEW w \in Workers, Activation(w)
  PROVE  Reads
<1>0. TypeOK /\ ReplayPosition
  BY TypesAreTypeOK
<1>1. /\ RunUnlocked => ~Replaying
      /\ Replaying => ~IsTerminal /\ runner.log = history
  BY ReplayingIsLocked
<1>2. "running" \notin TerminalStatuses /\ "queued" \notin TerminalStatuses
  BY DEF TerminalStatuses
<1>3. CASE ClaimNextRun(w)
  <2>1. UNCHANGED <<history, inbox, runner>> /\ status \in {"queued", "running"} /\ status' = "running"
    BY <1>3 DEF ClaimNextRun, Claimable, workVars
  <2>2. Replaying' => Replaying
    BY <1>3, WorkerMoves DEF ClaimNextRun, SetWorker
  <2>3. QED
    BY <1>2, <2>1, <2>2 DEF Quiet, Reads, IsTerminal
<1>4. CASE BeginTx(w)
  <2>1. UNCHANGED <<history, inbox, runner, status>>
    BY <1>4 DEF BeginTx, workVars, runVars
  <2>2. Replaying' => Replaying
    BY <1>4, WorkerMoves DEF BeginTx
  <2>3. QED
    BY <2>1, <2>2 DEF Quiet, Reads, IsTerminal
<1>5. CASE DropStaleClaim(w) \/ ReleaseRuns(w)
  <2>1. UNCHANGED <<history, inbox, runner>> /\ (status' = status \/ (status = "running" /\ status' = "queued"))
    BY <1>5 DEF DropStaleClaim, ReleaseRuns, workVars, runVars, HasClaim
  <2>2. Replaying' => Replaying
    BY <1>5, WorkerMoves DEF DropStaleClaim, ReleaseRuns, SetWorker
  <2>3. QED
    BY <1>2, <2>1, <2>2 DEF Quiet, Reads, IsTerminal
<1>6. CASE StartReplay(w)
  <2> DEFINE outcomes == [k \in Keys |-> ReadOutcome(k)]
  <2>1. outcomes \in [Keys -> Outcomes]
    BY DEF ReadOutcome, Outcomes
  <2>2. wf[w].horizon \in 0..Len(inbox)
    <3>1. wf[w].horizon \in Nat /\ wf[w].horizon <= Len(inbox)
      BY <1>0 DEF TypeOK, WorkflowWorker, HorizonsAreBehind
    <3>2. Len(inbox) \in Nat
      BY <1>0 DEF TypeOK
    <3>3. QED
      BY <3>1, <3>2
  <2>3. /\ UNCHANGED <<history, inbox, status>> /\ status = "running" /\ RunUnlocked
        /\ runner' = NewRunner(Deployed[w], history,
                               {i \in 1..wf[w].horizon : inbox[i].status = "pending"}, outcomes)
    BY <1>6 DEF StartReplay, workVars, runVars, HasClaim
  <2> HIDE DEF outcomes
  <2>4. ~IsTerminal /\ ~IsTerminal'
    BY <1>2, <2>3 DEF IsTerminal
  <2>5. QED
    BY <1>1, <2>1, <2>2, <2>3, <2>4 DEF Begins, Reads
<1>7. CASE FailUnregistered(w)
  <2> DEFINE event == NewEvent("workflow.failed", None, 0)
  <2>1. event \in Event /\ event.type \in NotedEvents /\ event.item = 0
    BY DEF NewEvent, Event, EventTypes, EndingEvents, NotedEvents
  <2>2. /\ history' = Append(history, event) /\ UNCHANGED inbox /\ RunUnlocked /\ status = "running"
        /\ wf' = [wf EXCEPT ![w] = [pc |-> "idle", horizon |-> 0]]
    BY <1>7 DEF FailUnregistered, SetWorker, workVars, HasClaim
  <2>3. ~Replaying /\ ~Replaying' /\ ~IsTerminal
    BY <1>1, <1>2, <2>2, WorkerMoves DEF IsTerminal
  <2> HIDE DEF event
  <2>4. QED
    BY <2>1, <2>2, <2>3 DEF Notes, Reads
<1>8. CASE Replay(w)
  <2>1. UNCHANGED <<history, inbox, status>> /\ ReplayStep /\ Replaying
    BY <1>8 DEF Replay, workVars, runVars, Replaying
  <2>2. QED
    BY <1>1, <2>1 DEF Replays, Reads
<1>9. ASSUME NEW decision, Committing(w, decision),
             inbox' = Consumed \/ (inbox' = DiscardPending(Consumed) /\ IsTerminal')
      PROVE  Reads
  <2>1. /\ history' = history \o runner.queued /\ runner.phase = "decided" /\ wf[w].pc = "active"
        /\ wf' = [wf EXCEPT ![w] = [pc |-> "idle", horizon |-> 0]]
    BY <1>9 DEF Committing, SetWorker
  <2>2. Replaying
    BY <2>1 DEF Replaying
  <2>3. ~Replaying'
    <3>1. \A v \in Workers : wf'[v].pc = "active" => v # w /\ wf[v].pc = "active"
      BY <2>1, WorkerMoves
    <3>2. \A v \in Workers : wf[v].pc = "active" => v = w
      BY <2>1, LockExcludes
    <3>3. QED
      BY <3>1, <3>2 DEF Replaying
  <2>4. QED
    BY <1>1, <1>9, <2>1, <2>2, <2>3 DEF Commits, Reads
<1>10. CASE CommitWaiting(w) \/ CommitEnded(w) \/ CommitQuarantined(w)
  BY <1>9, <1>10 DEF CommitWaiting, CommitEnded, CommitQuarantined
<1>11. CASE CommitCancelled(w)
  <2>1. Committing(w, "cancelled") /\ inbox' = DiscardPending(Consumed) /\ status' = "cancelled"
    BY <1>11 DEF CommitCancelled, TransitionRunToCancelled, MoveRun
  <2>2. IsTerminal'
    BY <2>1 DEF IsTerminal, TerminalStatuses
  <2>3. QED
    BY <1>9, <2>1, <2>2
<1>12. QED
  BY <1>3, <1>4, <1>5, <1>6, <1>7, <1>8, <1>10, <1>11 DEF Activation

\* The run that an outcome transaction has found waiting still waits.
WokenRunWaits == \A a \in ActivityWorkers : aw[a].pc = "finishing" /\ aw[a].woke => status = "waiting"

LEMMA WokenRunWaitsOn ==
  ASSUME Types, Locking, WokenRunWaits, [Next]_vars
  PROVE  WokenRunWaits'
<1>0. TypeOK
  BY TypesAreTypeOK
<1>1. ASSUME UNCHANGED status,
             \A a \in ActivityWorkers : aw'[a].pc = "finishing" /\ aw'[a].woke
                                          => aw[a].pc = "finishing" /\ aw[a].woke
      PROVE  WokenRunWaits'
  BY <1>1 DEF WokenRunWaits
<1>2. ASSUME RunUnlocked, UNCHANGED aw
      PROVE  WokenRunWaits'
  BY <1>2, LockExcludes DEF WokenRunWaits
<1>3. ASSUME NEW w \in Workers, Activation(w)
      PROVE  WokenRunWaits'
  <2>1. UNCHANGED aw
    BY <1>3 DEF Activation, ClaimNextRun, BeginTx, StartReplay, DropStaleClaim, FailUnregistered, Replay,
       CommitWaiting, CommitEnded, CommitQuarantined, CommitCancelled, Committing, ReleaseRuns
  <2>2. CASE wf[w].pc = "active"
    BY <2>1, <2>2, LockExcludes DEF WokenRunWaits
  <2>3. CASE wf[w].pc # "active"
    <3>1. UNCHANGED status \/ RunUnlocked
      BY <1>3, <2>3 DEF Activation, ClaimNextRun, BeginTx, StartReplay, DropStaleClaim, FailUnregistered, Replay,
         CommitWaiting, CommitEnded, CommitQuarantined, CommitCancelled, Committing, ReleaseRuns, runVars
    <3>2. QED
      BY <1>1, <1>2, <2>1, <3>1
  <2>4. QED
    BY <2>2, <2>3
<1>4. ASSUME NEW a \in ActivityWorkers, NEW p, aw' = [aw EXCEPT ![a] = p],
             p.pc = "finishing" /\ p.woke => status = "waiting", UNCHANGED status
      PROVE  WokenRunWaits'
  BY <1>0, <1>4 DEF WokenRunWaits, TypeOK
<1>5. ASSUME NEW a \in ActivityWorkers, Execution(a)
      PROVE  WokenRunWaits'
  <2>1. IdleActivityWorker.pc = "idle"
    BY DEF IdleActivityWorker
  <2>2. CASE ClaimActivityTask(a)
    <3>1. PICK k \in Keys : aw' = [aw EXCEPT ![a] = [IdleActivityWorker EXCEPT !.pc = "executing", !.key = k]]
      BY <2>2 DEF ClaimActivityTask
    <3>2. QED
      BY <1>4, <2>2, <3>1 DEF ClaimActivityTask, IdleActivityWorker, runVars
  <2>3. CASE StartOutcome(a)
    <3>1. PICK outcome \in {"completed", "failed"} :
            aw' = [aw EXCEPT ![a].pc = "finishing", ![a].outcome = outcome, ![a].woke = (status = "waiting")]
      BY <2>3 DEF StartOutcome
    <3>2. aw[a] \in ActivityWorker
      BY <1>0 DEF TypeOK
    <3> DEFINE p == [aw[a] EXCEPT !.pc = "finishing", !.outcome = outcome, !.woke = (status = "waiting")]
    <3>3. aw' = [aw EXCEPT ![a] = p]
      BY <3>1
    <3>4. p.woke => status = "waiting"
      BY <3>2 DEF ActivityWorker
    <3> HIDE DEF p
    <3>5. QED
      BY <1>4, <2>3, <3>3, <3>4 DEF StartOutcome, runVars
  <2>4. CASE CommitOutcome(a)
    <3>1. aw' = [aw EXCEPT ![a] = IdleActivityWorker]
      BY <2>4 DEF CommitOutcome
    <3>2. CASE aw[a].woke
      <4>1. lock = a /\ \A b \in ActivityWorkers : aw'[b].pc = "finishing" => b # a /\ aw'[b] = aw[b]
        BY <1>0, <2>1, <2>4, <3>1, <3>2 DEF CommitOutcome, Locking, WakeHoldsLock, TypeOK
      <4>2. QED
        BY <4>1 DEF WokenRunWaits, Locking, WakeHoldsLock
    <3>3. CASE ~aw[a].woke
      BY <1>4, <2>1, <2>4, <3>1, <3>3 DEF CommitOutcome, runVars
    <3>4. QED
      BY <3>2, <3>3
  <2>5. CASE RetryActivity(a) \/ DropStaleOutcome(a)
    BY <1>4, <2>1, <2>5 DEF RetryActivity, DropStaleOutcome, runVars
  <2>6. CASE ReleaseTasks(a)
    <3>1. aw' = [aw EXCEPT ![a] = [aw[a] EXCEPT !.pc = "down"]] /\ aw[a] \in ActivityWorker /\ UNCHANGED status
      BY <1>0, <2>6 DEF ReleaseTasks, runVars, TypeOK
    <3>2. [aw[a] EXCEPT !.pc = "down"].pc = "down"
      BY <3>1 DEF ActivityWorker
    <3>3. QED
      BY <1>4, <3>1, <3>2
  <2>7. QED
    BY <1>5, <2>2, <2>3, <2>4, <2>5, <2>6 DEF Execution
<1>6. CASE WorkerFailure
  <2>1. ASSUME NEW w \in Workers, NEW pc, LeaveWorker(w, pc)
        PROVE  WokenRunWaits'
    BY <1>1, <2>1 DEF LeaveWorker, runVars
  <2>2. ASSUME NEW a \in ActivityWorkers, NEW pc \in {"stopping", "down"}, LeaveActivityWorker(a, pc)
        PROVE  WokenRunWaits'
    <3>1. [IdleActivityWorker EXCEPT !.pc = pc].pc = pc
      BY DEF IdleActivityWorker
    <3>2. QED
      BY <1>4, <2>2, <3>1 DEF LeaveActivityWorker, runVars
  <2>3. QED
    BY <1>6, <2>1, <2>2 DEF WorkerFailure, CrashWorker, StopWorker, CrashActivityWorker, StopActivityWorker
<1>7. CASE LeaseExpiry \/ LateLeaseExpiry
  BY <1>1, <1>7 DEF LeaseExpiry, LateLeaseExpiry, ExpireRunLease, ExpireRunLeaseLate, ExpireTaskLease,
     ExpireTaskLeaseLate, LoseTaskLease, runVars
<1>8. CASE Timers
  <2>1. ASSUME NEW k \in Keys, TimerDue(k)
        PROVE  WokenRunWaits'
    BY <1>1, <2>1 DEF TimerDue, runVars
  <2>2. CASE ListDueTimers
    BY <1>1, <2>2 DEF ListDueTimers, runVars
  <2>3. CASE WakeDueRun
    BY <1>1, <1>2, <2>3 DEF WakeDueRun, WakeIfWaiting, runVars
  <2>4. QED
    BY <1>8, <2>1, <2>2, <2>3 DEF Timers
<1>9. CASE Control
  BY <1>2, <1>9 DEF Control, SignalRun, CancelRun, SuspendRun, ResumeRun, TerminateRun, Controlling
<1>10. CASE UNCHANGED vars
  BY <1>1, <1>10 DEF vars, runVars
<1>11. QED
  BY <1>3, <1>5, <1>6, <1>7, <1>8, <1>9, <1>10 DEF Next

LEMMA ExecutionReads ==
  ASSUME Types, Locking, WokenRunWaits, FinishingHoldsTask, NEW a \in ActivityWorkers, Execution(a)
  PROVE  Reads
<1>1. UNCHANGED <<inbox, runner, wf>>
  BY DEF Execution, ClaimActivityTask, StartOutcome, CommitOutcome, RetryActivity, DropStaleOutcome,
     ReleaseTasks, workVars
<1>2. Replaying' = Replaying
  BY <1>1 DEF Replaying
<1>3. CASE UNCHANGED <<status, history>>
  BY <1>1, <1>2, <1>3 DEF Quiet, Reads, IsTerminal
<1>4. CASE CommitOutcome(a)
  <2>1. UNCHANGED history /\ (UNCHANGED status \/ (aw[a].woke /\ aw[a].pc = "finishing" /\ status' = "queued"))
    BY <1>4 DEF CommitOutcome, MoveRun, runVars
  <2>2. CASE UNCHANGED status
    BY <1>3, <2>1, <2>2
  <2>3. CASE aw[a].woke /\ aw[a].pc = "finishing" /\ status' = "queued"
    <3>1. ~IsTerminal /\ ~IsTerminal'
      BY <2>3 DEF WokenRunWaits, IsTerminal, TerminalStatuses
    <3>2. IsTerminal' = IsTerminal
      BY <3>1 DEF IsTerminal
    <3>3. Quiet
      BY <1>1, <1>2, <2>1, <3>2 DEF Quiet
    <3>4. QED
      BY <3>3 DEF Reads
  <2>4. QED
    BY <2>1, <2>2, <2>3
<1>5. CASE RetryActivity(a)
  <2> DEFINE event == NewEvent("activity.retry_scheduled", aw[a].key, 0)
  <2>1. aw[a].key \in Keys
    BY <1>5 DEF RetryActivity, FinishingHoldsTask
  <2>2. event \in Event /\ event.type \in NotedEvents /\ event.item = 0
    BY <2>1 DEF NewEvent, Event, EventTypes, NotedEvents
  <2>3. history' = Append(history, event) /\ RunUnlocked /\ UNCHANGED status
    BY <1>5 DEF RetryActivity, runVars
  <2>4. ~Replaying
    BY <2>3, ReplayingIsLocked
  <2> HIDE DEF event
  <2>5. QED
    BY <1>1, <1>2, <2>2, <2>3, <2>4 DEF Notes, Reads, IsTerminal
<1>6. QED
  BY <1>3, <1>4, <1>5 DEF Execution, ClaimActivityTask, StartOutcome, DropStaleOutcome, ReleaseTasks, runVars

LEMMA EnvironmentReads ==
  ASSUME Types, Locking, WorkerFailure \/ LeaseExpiry \/ LateLeaseExpiry \/ Timers \/ Control
  PROVE  Reads
<1>0. TypeOK
  BY TypesAreTypeOK
<1>1. RunUnlocked => ~Replaying
  BY ReplayingIsLocked
<1>2. ASSUME UNCHANGED <<status, history, inbox, runner, wf>>
      PROVE  Reads
  BY <1>2 DEF Quiet, Reads, Replaying, IsTerminal
<1>3. ASSUME WakeIfWaiting
      PROVE  IsTerminal' = IsTerminal
  <2>1. UNCHANGED status \/ (status = "waiting" /\ status' = "queued")
    BY <1>3 DEF WakeIfWaiting, MoveRun, runVars
  <2>2. CASE UNCHANGED status
    BY <2>2 DEF IsTerminal
  <2>3. CASE status = "waiting" /\ status' = "queued"
    <3>1. ~IsTerminal /\ ~IsTerminal'
      BY <2>3 DEF IsTerminal, TerminalStatuses
    <3>2. QED
      BY <3>1 DEF IsTerminal
  <2>4. QED
    BY <2>1, <2>2, <2>3
<1>4. CASE WorkerFailure
  <2>1. ASSUME NEW w \in Workers, NEW pc \in {"stopping", "down"}, LeaveWorker(w, pc)
        PROVE  Reads
    <3>1. UNCHANGED <<status, history, inbox>> /\ wf' = [wf EXCEPT ![w] = [pc |-> pc, horizon |-> 0]]
      BY <2>1 DEF LeaveWorker, runVars, workVars
    <3>2. \A v \in Workers : wf'[v].pc = "active" => v # w /\ wf[v].pc = "active"
      BY <3>1, WorkerMoves
    <3>3. Replaying' => Replaying /\ runner' = runner
      <4>1. Replaying' => Replaying /\ lock # w
        BY <3>2, LockExcludes DEF Replaying
      <4>2. QED
        BY <2>1, <4>1 DEF LeaveWorker
    <3>4. IsTerminal' = IsTerminal
      BY <3>1 DEF IsTerminal
    <3>5. QED
      BY <3>1, <3>3, <3>4 DEF Quiet, Reads
  <2>2. ASSUME NEW a \in ActivityWorkers, NEW pc, LeaveActivityWorker(a, pc)
        PROVE  Reads
    BY <1>2, <2>2 DEF LeaveActivityWorker, runVars, workVars
  <2>3. QED
    BY <1>4, <2>1, <2>2 DEF WorkerFailure, CrashWorker, StopWorker, CrashActivityWorker, StopActivityWorker
<1>5. CASE LeaseExpiry \/ LateLeaseExpiry
  BY <1>2, <1>5 DEF LeaseExpiry, LateLeaseExpiry, ExpireRunLease, ExpireRunLeaseLate, ExpireTaskLease,
     ExpireTaskLeaseLate, LoseTaskLease, runVars, workVars
<1>6. ASSUME NEW kind \in {"signal", "cancel", "timer"}, NEW key \in Keys \cup {None}, Deliver(kind, key),
             UNCHANGED <<history, runner, wf>>, IsTerminal' = IsTerminal,
             kind = "cancel" => key = None, kind \in {"signal", "cancel"} => ~IsTerminal
      PROVE  Reads
  <2> DEFINE item == [kind |-> kind, key |-> key, status |-> "pending"]
  <2>1. item \in InboxItem /\ item.status = "pending" /\ item.kind = kind /\ item.key = key
    BY DEF InboxItem
  <2>2. inbox' = Append(inbox, item)
    BY <1>6 DEF Deliver
  <2> HIDE DEF item
  <2>3. Arrives
    BY <1>6, <2>1, <2>2 DEF Arrives
  <2>4. QED
    BY <2>3 DEF Reads
<1>7. CASE Timers
  <2>1. ASSUME NEW k \in Keys, TimerDue(k)
        PROVE  Reads
    <3>1. Deliver("timer", k) /\ UNCHANGED <<history, runner, wf, status>>
      BY <2>1 DEF TimerDue, Deliver, runVars
    <3>2. IsTerminal' = IsTerminal
      BY <3>1 DEF IsTerminal
    <3>3. QED
      BY <1>6, <3>1, <3>2
  <2>2. CASE ListDueTimers
    BY <1>2, <2>2 DEF ListDueTimers, runVars, workVars
  <2>3. CASE WakeDueRun
    <3>1. UNCHANGED <<history, inbox, runner, wf>> /\ IsTerminal' = IsTerminal
      BY <1>3, <2>3 DEF WakeDueRun, workVars
    <3>2. QED
      BY <3>1 DEF Quiet, Reads, Replaying
  <2>4. QED
    BY <1>7, <2>1, <2>2, <2>3 DEF Timers
<1>8. CASE SignalRun
  <2>1. PICK name \in SignalNames : Deliver("signal", name)
    BY <1>8 DEF SignalRun
  <2>2. UNCHANGED <<history, runner, wf>> /\ IsTerminal' = IsTerminal /\ ~IsTerminal
    BY <1>3, <1>8 DEF SignalRun, Controlling
  <2>3. QED
    BY <1>6, <2>1, <2>2, SignalNamesAreKeys
<1>9. CASE CancelRun
  <2>1. UNCHANGED <<history, runner, wf>> /\ IsTerminal' = IsTerminal /\ ~IsTerminal
    BY <1>3, <1>9 DEF CancelRun, Controlling
  <2>2. CASE UNCHANGED inbox
    BY <2>1, <2>2 DEF Quiet, Reads, Replaying
  <2>3. CASE Deliver("cancel", None)
    BY <1>6, <2>1, <2>3
  <2>4. QED
    BY <1>9, <2>2, <2>3 DEF CancelRun
<1>10. ASSUME NEW type \in NotedEvents, history' = Append(history, NewEvent(type, None, 0)), Controlling,
              IsTerminal => IsTerminal', inbox' = inbox \/ (inbox' = DiscardPending(inbox) /\ IsTerminal')
       PROVE  Reads
  <2> DEFINE event == NewEvent(type, None, 0)
  <2>1. type \in EventTypes
    BY DEF NotedEvents, EventTypes, EndingEvents
  <2>2. event \in Event /\ event.type = type /\ event.item = 0
    BY <2>1, EventType DEF NewEvent
  <2>3. ~Replaying /\ ~Replaying' /\ history' = Append(history, event)
    BY <1>1, <1>10 DEF Controlling, Replaying
  <2> HIDE DEF event
  <2>4. Notes
    BY <1>10, <2>2, <2>3 DEF Notes
  <2>5. QED
    BY <2>4 DEF Reads
<1>11. CASE SuspendRun
  <2>1. ~IsTerminal /\ UNCHANGED inbox
    BY <1>11 DEF SuspendRun, TransitionRunToSuspended, IsTerminal, TerminalStatuses, workVars
  <2>2. "workflow.suspended" \in NotedEvents
    BY DEF NotedEvents, LifecycleEvents
  <2>3. QED
    BY <1>10, <1>11, <2>1, <2>2 DEF SuspendRun
<1>12. CASE ResumeRun
  <2>1. ~IsTerminal /\ UNCHANGED inbox
    BY <1>12 DEF ResumeRun, TransitionRunToQueuedFromSuspended, TransitionRunToQueuedFromQuarantined,
       IsTerminal, TerminalStatuses, workVars
  <2>2. "workflow.resumed" \in NotedEvents
    BY DEF NotedEvents, LifecycleEvents
  <2>3. QED
    BY <1>10, <1>12, <2>1, <2>2 DEF ResumeRun
<1>13. CASE TerminateRun
  <2>1. IsTerminal' /\ inbox' = DiscardPending(inbox)
    BY <1>13 DEF TerminateRun, TransitionRunToTerminated, MoveRun, IsTerminal, TerminalStatuses
  <2>2. "workflow.terminated" \in NotedEvents
    BY DEF NotedEvents
  <2>3. QED
    BY <1>10, <1>13, <2>1, <2>2 DEF TerminateRun
<1>14. QED
  BY <1>4, <1>5, <1>7, <1>8, <1>9, <1>11, <1>12, <1>13 DEF Control

LEMMA StepsRead ==
  ASSUME Types, Locking, FinishingHoldsTask, WokenRunWaits, HorizonsAreBehind, [Next]_vars
  PROVE  Reads
<1>1. CASE UNCHANGED vars
  BY <1>1 DEF vars, workVars, runVars, Quiet, Reads, Replaying, IsTerminal
<1>2. CASE Next
  BY <1>2, ActivationReads, ExecutionReads, EnvironmentReads DEF Next
<1>3. QED
  BY <1>1, <1>2

HorizonStep ==
    \A w \in Workers : wf'[w] = wf[w] \/ wf'[w].horizon = 0 \/ wf'[w].horizon = Len(inbox)

\* The inbox only grows, and a horizon is set where it ends.
LEMMA HorizonsStayBehind ==
  ASSUME Types, HorizonsAreBehind, Reads, [Next]_vars
  PROVE  HorizonsAreBehind' /\ Len(inbox) <= Len(inbox')
<1>0. TypeOK /\ inbox \in Seq(InboxItem) /\ Len(inbox) \in Nat /\ wf \in [Workers -> WorkflowWorker]
  BY TypesAreTypeOK DEF TypeOK
<1>1. Len(inbox') \in Nat /\ Len(inbox) <= Len(inbox')
  <2>1. Consumed \in Seq(InboxItem) /\ Len(Consumed) = Len(inbox)
    BY <1>0, ConsumedType DEF Consumed
  <2>2. Len(DiscardPending(inbox)) = Len(inbox) /\ Len(DiscardPending(Consumed)) = Len(inbox)
    BY <1>0, <2>1 DEF DiscardPending
  <2>3. ASSUME NEW item, inbox' = Append(inbox, item), item \in InboxItem
        PROVE  Len(inbox') = Len(inbox) + 1
    BY <1>0, <2>3, AppendProperties
  <2>4. inbox' = inbox \/ Len(inbox') = Len(inbox) \/ Len(inbox') = Len(inbox) + 1
    BY <2>1, <2>2, <2>3 DEF Reads, Quiet, Arrives, Notes, Begins, Replays, Commits
  <2>5. QED
    BY <1>0, <2>4
<1>2. HorizonStep
  <2>1. ASSUME NEW v \in Workers, NEW pc, NEW horizon \in {0, Len(inbox)},
               wf' = [wf EXCEPT ![v] = [pc |-> pc, horizon |-> horizon]]
        PROVE  HorizonStep
    BY <1>0, <2>1 DEF HorizonStep
  <2>2. ASSUME UNCHANGED wf
        PROVE  HorizonStep
    BY <2>2 DEF HorizonStep
  <2>3. ASSUME NEW v \in Workers, Activation(v)
        PROVE  HorizonStep
    <3>1. CASE UNCHANGED wf
      BY <2>2, <3>1
    <3>2. CASE \E pc : SetWorker(v, pc)
      BY <2>1, <3>2 DEF SetWorker
    <3>3. CASE BeginTx(v)
      BY <2>1, <3>3 DEF BeginTx
    <3>4. UNCHANGED wf \/ BeginTx(v) \/ \E pc : SetWorker(v, pc)
      BY <2>3 DEF Activation, ClaimNextRun, StartReplay, DropStaleClaim, FailUnregistered, Replay, Committing,
         CommitWaiting, CommitEnded, CommitQuarantined, CommitCancelled, ReleaseRuns
    <3>5. QED
      BY <3>1, <3>2, <3>3, <3>4
  <2>4. ASSUME NEW a \in ActivityWorkers, Execution(a)
        PROVE  UNCHANGED wf
    BY <2>4 DEF Execution, ClaimActivityTask, StartOutcome, CommitOutcome, RetryActivity, DropStaleOutcome,
       ReleaseTasks
  <2>5. CASE WorkerFailure
    <3>1. ASSUME NEW v \in Workers, NEW pc, LeaveWorker(v, pc)
          PROVE  HorizonStep
      BY <2>1, <3>1 DEF LeaveWorker
    <3>2. ASSUME NEW a \in ActivityWorkers, NEW pc, LeaveActivityWorker(a, pc)
          PROVE  UNCHANGED wf
      BY <3>2 DEF LeaveActivityWorker
    <3>3. QED
      BY <2>2, <2>5, <3>1, <3>2 DEF WorkerFailure, CrashWorker, StopWorker, CrashActivityWorker,
         StopActivityWorker
  <2>6. LeaseExpiry \/ LateLeaseExpiry => UNCHANGED wf
    BY DEF LeaseExpiry, LateLeaseExpiry, ExpireRunLease, ExpireRunLeaseLate, ExpireTaskLease,
       ExpireTaskLeaseLate, LoseTaskLease
  <2>7. Timers \/ Control => UNCHANGED wf
    BY DEF Timers, TimerDue, ListDueTimers, WakeDueRun, Control, SignalRun, CancelRun, SuspendRun, ResumeRun,
       TerminateRun, Controlling
  <2>8. UNCHANGED vars => UNCHANGED wf
    BY DEF vars
  <2>9. QED
    BY <2>2, <2>3, <2>4, <2>5, <2>6, <2>7, <2>8 DEF Next
<1>3. ASSUME NEW w \in Workers
      PROVE  wf'[w].horizon <= Len(inbox')
  <2>1. wf[w].horizon \in Nat /\ wf[w].horizon <= Len(inbox)
    BY <1>0 DEF WorkflowWorker, HorizonsAreBehind
  <2>2. QED
    BY <1>0, <1>1, <1>2, <2>1 DEF HorizonStep
<1>4. QED
  BY <1>1, <1>3 DEF HorizonsAreBehind

(***************************************************************************)
(* Events and the inbox rows that they carry.                              *)
(***************************************************************************)

Rows(items) == 1..Len(items)
RowsIn(items, rowStatus) == {i \in Rows(items) : items[i].status = rowStatus}

CarriesRow(event, items) ==
    /\ event.item \in Rows(items)
    /\ event.type = EventOf(items[event.item].kind)
    /\ event.key = items[event.item].key

CarryingTypes == {"signal.received", "timer.fired", "cancel.requested"}
CarriesNone(event) == event.item = 0 /\ event.type \notin CarryingTypes

\* The rows `delivered' are those that the events carry, each by one of them.
Carried(events, delivered, items) ==
    /\ \A n \in 1..Len(events) :
          \/ CarriesNone(events[n])
          \/ CarriesRow(events[n], items) /\ events[n].item \in delivered
    /\ \A m, n \in 1..Len(events) :
          events[m].item = events[n].item => m = n \/ events[m].item = 0
    /\ \A i \in delivered : \E n \in 1..Len(events) : events[n].item = i

InOrder(events) ==
    \A m, n \in 1..Len(events) :
       /\ m < n
       /\ events[m].type = "signal.received" /\ events[n].type = "signal.received"
       /\ events[m].key = events[n].key
       => events[m].item < events[n].item

\* With a signal, those of its name that were sent before it are delivered.
EarlierToo(delivered, items) ==
    \A i, j \in Rows(items) :
       /\ i < j
       /\ items[i].kind = "signal" /\ items[j].kind = "signal" /\ items[i].key = items[j].key
       /\ j \in delivered
       => i \in delivered

\* Rows are only added, and keep their kind and key.
RowsStay(items, later) ==
    /\ Len(items) <= Len(later)
    /\ \A i \in Rows(items) : later[i].kind = items[i].kind /\ later[i].key = items[i].key

LEMMA CarriedStays ==
  ASSUME NEW items \in Seq(InboxItem), NEW later \in Seq(InboxItem), RowsStay(items, later),
         NEW events, NEW delivered, Carried(events, delivered, items)
  PROVE  Carried(events, delivered, later)
<1>1. Rows(items) \subseteq Rows(later)
  BY DEF Rows, RowsStay
<1>2. \A n \in 1..Len(events) : CarriesRow(events[n], items) => CarriesRow(events[n], later)
  BY <1>1 DEF CarriesRow, RowsStay
<1>3. QED
  BY <1>2 DEF Carried

LEMMA EarlierStays ==
  ASSUME NEW items \in Seq(InboxItem), NEW later \in Seq(InboxItem), RowsStay(items, later),
         NEW delivered \in SUBSET Rows(items), EarlierToo(delivered, items)
  PROVE  EarlierToo(delivered, later)
<1> SUFFICES ASSUME NEW i \in Rows(later), NEW j \in Rows(later), i < j, j \in delivered,
                    later[i].kind = "signal", later[j].kind = "signal", later[i].key = later[j].key
             PROVE  i \in delivered
  BY DEF EarlierToo
<1>1. j \in Rows(items) /\ i \in Rows(items)
  BY DEF Rows
<1>2. QED
  BY <1>1 DEF EarlierToo, RowsStay

\* Two sequences of events that carry different rows.
LEMMA CarriedTogether ==
  ASSUME NEW items \in Seq(InboxItem), NEW first \in Seq(Event), NEW second \in Seq(Event),
         NEW former, NEW latter, former \cap latter = {},
         Carried(first, former, items), Carried(second, latter, items)
  PROVE  Carried(first \o second, former \cup latter, items)
<1> DEFINE events == first \o second
<1>1. Len(first) \in Nat /\ Len(second) \in Nat /\ Len(events) = Len(first) + Len(second)
  BY ConcatProperties
<1>2. \A n \in 1..Len(first) : n \in 1..Len(events) /\ events[n] = first[n]
  BY <1>1, ConcatProperties
<1>3. \A n \in 1..Len(second) : Len(first) + n \in 1..Len(events) /\ events[Len(first) + n] = second[n]
  BY <1>1, ConcatProperties
<1>4. \A n \in 1..Len(events) :
         n \in 1..Len(first) \/ \E k \in 1..Len(second) : n = Len(first) + k
  <2> SUFFICES ASSUME NEW n \in 1..Len(events), n \notin 1..Len(first)
               PROVE  \E k \in 1..Len(second) : n = Len(first) + k
    OBVIOUS
  <2>1. n - Len(first) \in 1..Len(second) /\ n = Len(first) + (n - Len(first))
    BY <1>1
  <2>2. QED
    BY <2>1
<1> HIDE DEF events
<1>5. ASSUME NEW n \in 1..Len(events)
      PROVE  \/ CarriesNone(events[n])
             \/ CarriesRow(events[n], items) /\ events[n].item \in former \cup latter
  <2>1. CASE n \in 1..Len(first)
    BY <1>2, <2>1 DEF Carried
  <2>2. ASSUME NEW k \in 1..Len(second), n = Len(first) + k
        PROVE  CarriesNone(events[n]) \/ (CarriesRow(events[n], items) /\ events[n].item \in latter)
    <3>1. events[n] = second[k]
      BY <1>3, <2>2
    <3>2. QED
      BY <3>1 DEF Carried
  <2>3. QED
    BY <1>4, <2>1, <2>2
<1>6. ASSUME NEW m \in 1..Len(events), NEW n \in 1..Len(events), events[m].item = events[n].item
      PROVE  m = n \/ events[m].item = 0
  <2>1. CASE m \in 1..Len(first) /\ n \in 1..Len(first)
    BY <1>2, <1>6, <2>1 DEF Carried
  <2>2. ASSUME NEW k \in 1..Len(second), NEW l \in 1..Len(second), m = Len(first) + k, n = Len(first) + l
        PROVE  m = n \/ events[m].item = 0
    <3>1. events[m] = second[k] /\ events[n] = second[l]
      BY <1>3, <2>2
    <3>2. k = l \/ second[k].item = 0
      BY <1>6, <3>1 DEF Carried
    <3>3. QED
      BY <2>2, <3>1, <3>2
  <2>3. ASSUME NEW k \in 1..Len(first), NEW l \in 1..Len(second), first[k].item = second[l].item
        PROVE  first[k].item = 0
    <3>1. first[k].item = 0 \/ first[k].item \in former
      BY DEF Carried, CarriesNone
    <3>2. second[l].item = 0 \/ second[l].item \in latter
      BY DEF Carried, CarriesNone
    <3>3. QED
      BY <2>3, <3>1, <3>2
  <2>4. ASSUME NEW k \in 1..Len(first), NEW l \in 1..Len(second),
               (m = k /\ n = Len(first) + l) \/ (n = k /\ m = Len(first) + l)
        PROVE  events[m].item = 0
    <3>1. events[k] = first[k] /\ events[Len(first) + l] = second[l]
      BY <1>2, <1>3
    <3>2. first[k].item = second[l].item
      BY <1>6, <2>4, <3>1
    <3>3. QED
      BY <1>6, <2>3, <2>4, <3>1, <3>2
  <2>5. CASE m \in 1..Len(first) /\ n \notin 1..Len(first)
    BY <1>4, <2>4, <2>5
  <2>6. CASE m \notin 1..Len(first) /\ n \in 1..Len(first)
    BY <1>4, <2>4, <2>6
  <2>7. CASE m \notin 1..Len(first) /\ n \notin 1..Len(first)
    <3>1. PICK k \in 1..Len(second) : m = Len(first) + k
      BY <1>4, <2>7
    <3>2. PICK l \in 1..Len(second) : n = Len(first) + l
      BY <1>4, <2>7
    <3>3. QED
      BY <2>2, <3>1, <3>2
  <2>8. QED
    BY <2>1, <2>5, <2>6, <2>7
<1>7. ASSUME NEW i \in former \cup latter
      PROVE  \E n \in 1..Len(events) : events[n].item = i
  <2>1. CASE i \in former
    BY <1>2, <2>1, ZenonT(60) DEF Carried
  <2>2. CASE i \in latter
    <3>1. PICK k \in 1..Len(second) : second[k].item = i
      BY <2>2 DEF Carried
    <3>2. QED
      BY <1>3, <3>1
  <2>3. QED
    BY <2>1, <2>2
<1>8. QED
  BY <1>5, <1>6, <1>7 DEF Carried, events

LEMMA OrderedTogether ==
  ASSUME NEW items \in Seq(InboxItem), NEW first \in Seq(Event), NEW second \in Seq(Event),
         NEW former, NEW latter, NEW before, former \subseteq before, before \cap latter = {},
         Carried(first, former, items), Carried(second, latter, items),
         EarlierToo(before, items), InOrder(first), InOrder(second)
  PROVE  InOrder(first \o second)
<1> DEFINE events == first \o second
<1>1. Len(first) \in Nat /\ Len(second) \in Nat /\ Len(events) = Len(first) + Len(second)
  BY ConcatProperties
<1>2. \A n \in 1..Len(first) : events[n] = first[n]
  BY <1>1, ConcatProperties
<1>3. \A n \in 1..Len(second) : events[Len(first) + n] = second[n]
  BY <1>1, ConcatProperties
<1>4. \A n \in 1..Len(events) :
         n \in 1..Len(first) \/ \E k \in 1..Len(second) : n = Len(first) + k
  <2> SUFFICES ASSUME NEW n \in 1..Len(events), n \notin 1..Len(first)
               PROVE  \E k \in 1..Len(second) : n = Len(first) + k
    OBVIOUS
  <2>1. n - Len(first) \in 1..Len(second) /\ n = Len(first) + (n - Len(first))
    BY <1>1
  <2>2. QED
    BY <2>1
<1> HIDE DEF events
<1>5. ASSUME NEW k \in 1..Len(first), NEW l \in 1..Len(second),
             first[k].type = "signal.received", second[l].type = "signal.received",
             first[k].key = second[l].key
      PROVE  first[k].item < second[l].item
  <2> DEFINE i == first[k].item
             j == second[l].item
  <2>1. CarriesRow(first[k], items) /\ i \in before
    BY <1>5 DEF Carried, CarriesNone, CarryingTypes
  <2>2. CarriesRow(second[l], items) /\ j \in latter
    BY <1>5 DEF Carried, CarriesNone, CarryingTypes
  <2>3. /\ i \in Rows(items) /\ j \in Rows(items)
        /\ items[i].key = items[j].key
        /\ EventOf(items[i].kind) = "signal.received" /\ EventOf(items[j].kind) = "signal.received"
    BY <1>5, <2>1, <2>2 DEF CarriesRow
  <2>4. \A r \in Rows(items) : EventOf(items[r].kind) = "signal.received" => items[r].kind = "signal"
    <3>1. \A r \in Rows(items) : items[r].kind \in {"signal", "cancel", "timer"}
      <4>1. \A r \in Rows(items) : items[r] \in InboxItem
        BY DEF Rows
      <4>2. QED
        BY <4>1 DEF InboxItem
    <3>2. QED
      BY <3>1 DEF EventOf
  <2>5. ~(j < i)
    BY <2>1, <2>2, <2>3, <2>4 DEF EarlierToo
  <2>6. i # j /\ i \in Nat /\ j \in Nat
    BY <2>1, <2>2, <2>3 DEF Rows
  <2>7. QED
    BY <2>5, <2>6
<1>6. ASSUME NEW m \in 1..Len(events), NEW n \in 1..Len(events), m < n,
             events[m].type = "signal.received", events[n].type = "signal.received",
             events[m].key = events[n].key
      PROVE  events[m].item < events[n].item
  <2>1. CASE m \in 1..Len(first) /\ n \in 1..Len(first)
    BY <1>2, <1>6, <2>1 DEF InOrder
  <2>2. ASSUME NEW k \in 1..Len(second), NEW l \in 1..Len(second), m = Len(first) + k, n = Len(first) + l
        PROVE  events[m].item < events[n].item
    <3>1. events[m] = second[k] /\ events[n] = second[l]
      BY <1>3, <2>2
    <3>2. k < l
      BY <1>1, <1>6, <2>2
    <3>3. QED
      BY <1>6, <3>1, <3>2 DEF InOrder
  <2>3. CASE m \in 1..Len(first) /\ \E l \in 1..Len(second) : n = Len(first) + l
    <3>1. PICK l \in 1..Len(second) : n = Len(first) + l
      BY <2>3
    <3>2. events[m] = first[m] /\ events[n] = second[l]
      BY <1>2, <1>3, <2>3, <3>1
    <3>3. first[m].type = "signal.received" /\ second[l].type = "signal.received" /\ first[m].key = second[l].key
      BY <1>6, <3>2
    <3>4. first[m].item < second[l].item
      BY <1>5, <2>3, <3>3
    <3>5. QED
      BY <3>2, <3>4
  <2>4. ~(n \in 1..Len(first) /\ \E k \in 1..Len(second) : m = Len(first) + k)
    BY <1>1, <1>6
  <2>5. QED
    BY <1>4, <2>1, <2>2, <2>3, <2>4
<1>7. QED
  BY <1>6 DEF InOrder, events

(***************************************************************************)
(* What a replay does with the rows it reads.                              *)
(***************************************************************************)

\* The rows left to read, the rows read, and the events written.
Reading(r) == <<r.frontier, r.consumed, r.queued>>

\* The replay goes on, or decides, and writes nothing.
Keeps(r) == Reading(r) = Reading(runner)

\* It writes an event that no row has caused.
Writes(r) ==
    \E event \in Event :
       /\ Reading(r) = <<runner.frontier, runner.consumed, Append(runner.queued, event)>>
       /\ CarriesNone(event)

\* It takes a row of its frontier, a signal not before the others of its name.
TakesRow(r, i) ==
    /\ Reading(r) = <<runner.frontier \ {i}, runner.consumed \cup {i},
                      Append(runner.queued,
                             NewEvent(EventOf(inbox[i].kind),
                                      IF inbox[i].kind = "cancel" THEN None ELSE inbox[i].key, i))>>
    /\ inbox[i].kind = "signal" =>
         \A j \in runner.frontier : inbox[j].kind = "signal" /\ inbox[j].key = inbox[i].key => i <= j
Takes(r) == \E i \in runner.frontier : TakesRow(r, i)

GivesUp(r) == Reading(r) = <<runner.frontier, {}, <<>>>> /\ r.phase = "decided"

LEMMA ReadingOf ==
  ASSUME NEW r \in Runner
  PROVE  /\ Reading(ReturnTo(r)) = Reading(r)
         /\ Reading(FailCall(r)) = Reading(r)
         /\ \A kind : Reading(Block(r, kind)) = Reading(r)
         /\ \A key : /\ Reading([r EXCEPT !.newTask = key]) = Reading(r)
                     /\ Reading([r EXCEPT !.newTimer = key]) = Reading(r)
         /\ Reading([r EXCEPT !.cancelled = TRUE]) = Reading(r)
         /\ \A d : Reading([r EXCEPT !.phase = "finish", !.returned = d]) = Reading(r)
         /\ \A event : Reading(Queue(r, event)) = <<r.frontier, r.consumed, Append(r.queued, event)>>
<1>1. Reading(ReturnTo(r)) = Reading(r)
  BY DEF Reading, ReturnTo, Runner
<1>2. Reading(FailCall(r)) = Reading(r)
  BY <1>1 DEF FailCall, Reading, Runner
<1>3. \A kind : Reading(Block(r, kind)) = Reading(r)
  BY DEF Reading, Block, Runner
<1>4. QED
  BY <1>1, <1>2, <1>3 DEF Reading, Queue, Runner

LEMMA ReadingMatched ==
  ASSUME runner \in Runner
  PROVE  \A phase : Reading(Matched(phase)) = Reading(runner)
BY DEF Reading, Matched, Runner

LEMMA ReadingConsumed ==
  ASSUME NEW r \in Runner, NEW i, NEW event
  PROVE  Reading(Consume(r, i, event)) = <<r.frontier \ {i}, r.consumed \cup {i}, Append(r.queued, event)>>
<1> DEFINE q == Queue(r, event)
<1>1. q.frontier = r.frontier /\ q.consumed = r.consumed /\ q.queued = Append(r.queued, event)
  BY DEF Queue, Runner
<1>2. q = [r EXCEPT !.queued = Append(r.queued, event)]
  BY DEF Queue
<1>3. Consume(r, i, event) = [q EXCEPT !.frontier = q.frontier \ {i}, !.consumed = q.consumed \cup {i}]
  BY DEF Consume
<1>4. QED
  BY <1>1, <1>2, <1>3 DEF Reading, Runner

LEMMA ReplayReads ==
  ASSUME runner \in Runner, ReplayPosition, ReplayStep
  PROVE  Keeps(runner') \/ Writes(runner') \/ Takes(runner') \/ GivesUp(runner')
<1>0. "call" \in Phases /\ "scheduled" \in Phases /\ "outcome" \in Phases
  BY DEF Phases
<1>K. Called => Call.key \in Keys \cup {None}
  BY CallType
<1>A. runner.phase \in {"scheduled", "outcome"} => Called
  BY DEF ReplayPosition, Called
<1>M. \A phase \in Phases : Matched(phase) \in Runner /\ Reading(Matched(phase)) = Reading(runner)
  BY MatchedType, ReadingMatched
<1>m. ASSUME runner' \in {ReturnTo(Matched("call")), FailCall(Matched("call"))}
      PROVE  Keeps(runner')
  <2>1. Matched("call") \in Runner /\ Reading(Matched("call")) = Reading(runner)
    BY <1>0, <1>M
  <2>2. Reading(runner') = Reading(Matched("call"))
    BY <1>m, <2>1, ReadingOf
  <2>3. QED
    BY <2>1, <2>2 DEF Keeps
<1>b. ASSUME NEW kind, runner' = Block(runner, kind)
      PROVE  Keeps(runner')
  <2>1. \A k : Reading(Block(runner, k)) = Reading(runner)
    BY ReadingOf
  <2>2. QED
    BY <1>b, <2>1 DEF Keeps
<1>1. CASE SkipLifecycleEvent \/ ConsumeRecordedCancel
  <2> DEFINE n == runner.cursor + 1
             past == [runner EXCEPT !.cursor = n]
             pastCancel == [runner EXCEPT !.cursor = n, !.cancelled = TRUE]
  <2>1. runner' \in {past, pastCancel}
    BY <1>1 DEF SkipLifecycleEvent, ConsumeRecordedCancel
  <2> HIDE DEF n
  <2>2. Reading(past) = Reading(runner) /\ Reading(pastCancel) = Reading(runner)
    BY DEF Reading, Runner
  <2> HIDE DEF past, pastCancel
  <2>3. QED
    BY <2>1, <2>2 DEF Keeps
<1>2. CASE MatchSchedule \/ SkipActivityRetry
  <2>1. runner' \in {Matched("scheduled"), Matched("outcome")}
    BY <1>2 DEF MatchSchedule, SkipActivityRetry
  <2>2. QED
    BY <1>0, <1>M, <2>1 DEF Keeps
<1>3. CASE MatchActivityOutcome
  <2>1. runner' \in {ReturnTo(Matched("call")), FailCall(Matched("call"))}
    BY <1>3 DEF MatchActivityOutcome
  <2>2. QED
    BY <1>m, <2>1
<1>4. CASE MatchTimerFired \/ MatchSignal \/ MatchMarker
  <2>1. runner' \in {ReturnTo(Matched("call")), FailCall(Matched("call"))}
    BY <1>4 DEF MatchTimerFired, MatchSignal, MatchMarker
  <2>2. QED
    BY <1>m, <2>1
<1>5. CASE AwaitActivity \/ AwaitTimer \/ AwaitSignal \/ CheckCancel \/ ReturnNil
  <2>1. CASE AwaitActivity \/ AwaitTimer \/ AwaitSignal
    BY <1>b, <2>1 DEF AwaitActivity, AwaitTimer, AwaitSignal
  <2>2. \A d : Reading([runner EXCEPT !.phase = "finish", !.returned = d]) = Reading(runner)
    BY ReadingOf
  <2>3. Reading(ReturnTo(runner)) = Reading(runner)
    BY ReadingOf
  <2>4. CASE CheckCancel \/ ReturnNil
    BY <2>2, <2>3, <2>4 DEF CheckCancel, ReturnNil, Keeps
  <2>5. QED
    BY <1>5, <2>1, <2>4
<1>6. ASSUME NEW type \in EventTypes, type \notin CarryingTypes, NEW key \in Keys \cup {None},
             Reading(runner') = Reading(Queue(runner, NewEvent(type, key, 0)))
      PROVE  Writes(runner')
  <2> DEFINE event == NewEvent(type, key, 0)
  <2>1. event \in Event /\ CarriesNone(event)
    BY <1>6, EventType DEF CarriesNone, NewEvent
  <2> HIDE DEF event
  <2>2. Reading(runner') = <<runner.frontier, runner.consumed, Append(runner.queued, event)>>
    BY <1>6, ReadingOf DEF event
  <2>3. QED
    BY <2>1, <2>2 DEF Writes
<1>7. \A event \in Event : Queue(runner, event) \in Runner
  BY QueueType
<1>8. CASE ScheduleActivity
  <2> DEFINE event == NewEvent("activity.scheduled", Call.key, 0)
             queue == Queue(runner, event)
  <2>1. "activity.scheduled" \in EventTypes /\ Call.key \in Keys \cup {None} /\ "activity" \in WaitKinds
    BY <1>8, <1>K DEF EventTypes, ScheduleActivity, Calling, WaitKinds
  <2>2. queue \in Runner
    BY <1>7, <2>1, EventType
  <2>3. Block(queue, "activity") \in Runner
    BY <2>1, <2>2, BlockType
  <2> DEFINE blocked == Block(queue, "activity")
  <2>4. Reading(runner') = Reading(queue)
    <3>1. runner' = [blocked EXCEPT !.newTask = Call.key]
      BY <1>8 DEF ScheduleActivity
    <3>2. Reading(blocked) = Reading(queue)
      BY <2>2, ReadingOf
    <3> HIDE DEF blocked, queue
    <3>3. QED
      BY <2>3, <3>1, <3>2, ReadingOf DEF blocked
  <2>5. QED
    BY <1>6, <2>1, <2>4 DEF CarryingTypes
<1>9. CASE ScheduleTimer
  <2> DEFINE event == NewEvent("timer.scheduled", Call.key, 0)
             queue == Queue(runner, event)
  <2>1. "timer.scheduled" \in EventTypes /\ Call.key \in Keys \cup {None} /\ "timer" \in WaitKinds
    BY <1>9, <1>K DEF EventTypes, ScheduleTimer, Calling, WaitKinds
  <2>2. queue \in Runner
    BY <1>7, <2>1, EventType
  <2>3. Block(queue, "timer") \in Runner
    BY <2>1, <2>2, BlockType
  <2> DEFINE blocked == Block(queue, "timer")
  <2>4. Reading(runner') = Reading(queue)
    <3>1. runner' = [blocked EXCEPT !.newTimer = Call.key]
      BY <1>9 DEF ScheduleTimer
    <3>2. Reading(blocked) = Reading(queue)
      BY <2>2, ReadingOf
    <3> HIDE DEF blocked, queue
    <3>3. QED
      BY <2>3, <3>1, <3>2, ReadingOf DEF blocked
  <2>5. QED
    BY <1>6, <2>1, <2>4 DEF CarryingTypes
<1>10. ASSUME NEW type \in EventTypes, type \notin CarryingTypes, Called,
              runner' \in {ReturnTo(Queue(runner, NewEvent(type, Call.key, 0))),
                           FailCall(Queue(runner, NewEvent(type, Call.key, 0)))}
       PROVE  Writes(runner')
  <2>1. Queue(runner, NewEvent(type, Call.key, 0)) \in Runner
    BY <1>10, <1>7, <1>K, EventType
  <2>2. Reading(runner') = Reading(Queue(runner, NewEvent(type, Call.key, 0)))
    BY <1>10, <2>1, ReadingOf
  <2>3. QED
    BY <1>6, <1>10, <1>K, <2>2
<1>11. CASE RecordActivityOutcome
  <2>1. Called
    BY <1>11, <1>A DEF RecordActivityOutcome, AwaitingActivity
  <2>2. "activity.completed" \in EventTypes /\ "activity.failed" \in EventTypes
    BY DEF EventTypes
  <2>3. QED
    BY <1>10, <1>11, <2>1, <2>2 DEF RecordActivityOutcome, CarryingTypes
<1>12. CASE RecordMarker
  <2>1. Called /\ "marker.recorded" \in EventTypes
    BY <1>12 DEF RecordMarker, Calling, EventTypes
  <2>2. QED
    BY <1>10, <1>12, <2>1 DEF RecordMarker, CarryingTypes
<1>13. CASE Finish
  <2>1. CASE ~AtEnd
    <3>1. Reading(runner') = Reading(runner)
      BY <1>13, <2>1 DEF Finish, Reading, Runner
    <3>2. QED
      BY <3>1 DEF Keeps
  <2>2. CASE AtEnd
    <3> DEFINE type == EndingEvent[runner.returned]
    <3>1. type \in EventTypes /\ type \notin CarryingTypes
      BY <1>13 DEF Finish, ReplayPosition, EndingEvent, EventTypes, EndingEvents, CarryingTypes
    <3>2. Reading(runner') = <<runner.frontier, runner.consumed, Append(runner.queued, FinalEvent)>>
      BY <1>13, <2>2 DEF Finish, Reading, Runner
    <3>3. Reading(runner') = Reading(Queue(runner, NewEvent(type, None, 0)))
      BY <3>2, ReadingOf DEF FinalEvent
    <3> HIDE DEF type
    <3>4. QED
      BY <1>6, <3>1, <3>3
  <2>3. QED
    BY <2>1, <2>2
<1>14. CASE Diverge
  BY <1>14 DEF Diverge, Quarantine, GivesUp, Reading, Runner
<1>15. ASSUME NEW i \in runner.frontier, NEW key, NEW type, NEW r \in Runner, Reading(runner') = Reading(r),
              r = Consume(runner, i, NewEvent(type, key, i)), type = EventOf(inbox[i].kind),
              key = (IF inbox[i].kind = "cancel" THEN None ELSE inbox[i].key),
              inbox[i].kind = "signal" =>
                \A j \in runner.frontier : inbox[j].kind = "signal" /\ inbox[j].key = inbox[i].key => i <= j
       PROVE  Takes(runner')
  <2>1. Reading(runner') = <<runner.frontier \ {i}, runner.consumed \cup {i},
                             Append(runner.queued, NewEvent(type, key, i))>>
    BY <1>15, ReadingConsumed
  <2>2. TakesRow(runner', i)
    BY <1>15, <2>1 DEF TakesRow
  <2>3. QED
    BY <2>2 DEF Takes
<1>16. ASSUME NEW i \in runner.frontier, NEW key \in Keys \cup {None}, NEW type \in EventTypes
       PROVE  Consume(runner, i, NewEvent(type, key, i)) \in Runner
  <2>1. i \in Nat
    BY DEF Runner
  <2>2. QED
    BY <2>1, EventType, ConsumeType
<1>17. CASE ConsumeFrontierCancel
  <2>1. PICK i \in runner.frontier :
            /\ FrontierCancel(i)
            /\ runner' = [Consume(runner, i, NewEvent("cancel.requested", None, i)) EXCEPT !.cancelled = TRUE]
    BY <1>17 DEF ConsumeFrontierCancel
  <2> DEFINE read == Consume(runner, i, NewEvent("cancel.requested", None, i))
  <2>2. read \in Runner
    BY <1>16 DEF EventTypes
  <2>3. inbox[i].kind = "cancel"
    BY <2>1 DEF FrontierCancel
  <2>4. EventOf(inbox[i].kind) = "cancel.requested"
    BY <2>3 DEF EventOf
  <2>5. Reading(runner') = Reading(read)
    BY <2>1, <2>2, ReadingOf
  <2>6. QED
    BY <1>15, <2>2, <2>3, <2>4, <2>5
<1>18. CASE FireTimer
  <2>1. PICK i \in TimerItems : runner' = ReturnTo(Consume(runner, i, NewEvent("timer.fired", Call.key, i)))
    BY <1>18 DEF FireTimer
  <2>2. i \in runner.frontier /\ Called /\ inbox[i].kind = "timer" /\ inbox[i].key = Call.key
    BY <1>18, <1>A DEF FireTimer, AwaitingTimer, TimerItems
  <2> DEFINE read == Consume(runner, i, NewEvent("timer.fired", Call.key, i))
  <2>3. read \in Runner
    BY <1>16, <1>K, <2>2 DEF EventTypes
  <2>4. EventOf(inbox[i].kind) = "timer.fired"
    BY <2>2 DEF EventOf
  <2>5. Reading(runner') = Reading(read)
    BY <2>1, <2>3, ReadingOf
  <2>6. QED
    BY <1>15, <2>2, <2>3, <2>4, <2>5
<1>19. CASE ReceiveSignal
  <2>1. PICK i \in SignalItems :
            /\ Oldest(i, SignalItems)
            /\ runner' = ReturnTo(Consume(runner, i, NewEvent("signal.received", Call.key, i)))
    BY <1>19 DEF ReceiveSignal
  <2>2. i \in runner.frontier /\ Called /\ inbox[i].kind = "signal" /\ inbox[i].key = Call.key
    BY <1>19 DEF ReceiveSignal, Calling, SignalItems
  <2> DEFINE read == Consume(runner, i, NewEvent("signal.received", Call.key, i))
  <2>3. read \in Runner
    BY <1>16, <1>K, <2>2 DEF EventTypes
  <2>4. EventOf(inbox[i].kind) = "signal.received"
    BY <2>2 DEF EventOf
  <2>5. Reading(runner') = Reading(read)
    BY <2>1, <2>3, ReadingOf
  <2>6. \A j \in runner.frontier : inbox[j].kind = "signal" /\ inbox[j].key = inbox[i].key => i <= j
    BY <2>1, <2>2 DEF Oldest, SignalItems
  <2>7. QED
    BY <1>15, <2>2, <2>3, <2>4, <2>5, <2>6
<1>20. QED
  BY <1>1, <1>2, <1>3, <1>4, <1>5, <1>8, <1>9, <1>11, <1>12, <1>13, <1>14, <1>17, <1>18, <1>19
     DEF ReplayStep

LEMMA ReplayIsUndecided ==
  ASSUME ReplayStep
  PROVE  runner.phase # "decided"
BY DEF ReplayStep, SkipLifecycleEvent, ConsumeRecordedCancel, RecordedCancelNext, ConsumeFrontierCancel,
   FrontierCancelNext, Advancing, MatchSchedule, ScheduleActivity, ScheduleTimer, SkipActivityRetry,
   MatchActivityOutcome, RecordActivityOutcome, AwaitActivity, AwaitingActivity, MatchTimerFired, FireTimer,
   AwaitTimer, AwaitingTimer, MatchSignal, ReceiveSignal, AwaitSignal, MatchMarker, RecordMarker, CheckCancel,
   ReturnNil, Finish, Diverge, MismatchAtCall, MismatchAtWait, Calling

(***************************************************************************)
(* The history and the inbox agree, and a replay keeps them so.            *)
(***************************************************************************)

Processed(items) == RowsIn(items, "processed")

CancelsHaveNoKey(items) == \A i \in Rows(items) : items[i].kind = "cancel" => items[i].key = None

\* The history carries the rows that are processed, signals in order and none skipped.
Journalled(events, items) ==
    /\ Carried(events, Processed(items), items)
    /\ InOrder(events)
    /\ EarlierToo(Processed(items), items)

\* Until it decides, a replay has in hand every row before one it has in hand.
InHand(r) == r.frontier \cup r.consumed
NothingPassedOver(r, items) ==
    \A j \in InHand(r), i \in RowsIn(items, "pending") : i < j => i \in InHand(r)

\* A replay's events carry the rows it has taken, and follow on from the history.
FollowsOn(r, items) ==
    /\ InHand(r) \subseteq RowsIn(items, "pending")
    /\ r.frontier \cap r.consumed = {}
    /\ Carried(r.queued, r.consumed, items)
    /\ InOrder(r.queued)
    /\ EarlierToo(Processed(items) \cup r.consumed, items)
    /\ r.phase # "decided" => NothingPassedOver(r, items)

InboxInv ==
    /\ CancelsHaveNoKey(inbox)
    /\ ~IsTerminal => RowsIn(inbox, "discarded") = {}
    /\ Journalled(history, inbox)
    /\ Replaying => FollowsOn(runner, inbox)

\* The one event that carries nothing, or one row.
LEMMA OneEvent ==
  ASSUME NEW event \in Event, NEW items \in Seq(InboxItem)
  PROVE  /\ CarriesNone(event) => Carried(<<event>>, {}, items)
         /\ CarriesRow(event, items) => Carried(<<event>>, {event.item}, items)
         /\ InOrder(<<event>>)
<1> DEFINE events == <<event>>
<1>1. Len(events) = 1 /\ events[1] = event /\ \A n \in 1..Len(events) : n = 1
  OBVIOUS
<1> HIDE DEF events
<1>2. CarriesNone(event) => Carried(events, {}, items)
  BY <1>1 DEF Carried
<1>3. CarriesRow(event, items) => Carried(events, {event.item}, items)
  BY <1>1 DEF Carried
<1>4. InOrder(events)
  BY <1>1 DEF InOrder
<1>5. QED
  BY <1>2, <1>3, <1>4 DEF events

\* An event that carries nothing changes nothing.
LEMMA WriteNone ==
  ASSUME NEW items \in Seq(InboxItem), NEW events \in Seq(Event), NEW event \in Event, CarriesNone(event),
         NEW delivered, NEW before, delivered \subseteq before,
         Carried(events, delivered, items), InOrder(events), EarlierToo(before, items)
  PROVE  Carried(Append(events, event), delivered, items) /\ InOrder(Append(events, event))
<1>1. <<event>> \in Seq(Event) /\ Append(events, event) = events \o <<event>>
  BY AppendIsConcat
<1>2. Carried(<<event>>, {}, items) /\ InOrder(<<event>>)
  BY OneEvent
<1>3. Carried(events \o <<event>>, delivered \cup {}, items)
  BY <1>1, <1>2, CarriedTogether
<1>4. InOrder(events \o <<event>>)
  BY <1>1, <1>2, OrderedTogether
<1>5. QED
  BY <1>1, <1>3, <1>4

LEMMA WriteRow ==
  ASSUME NEW items \in Seq(InboxItem), NEW events \in Seq(Event), NEW event \in Event,
         CarriesRow(event, items),
         NEW delivered, NEW before, delivered \subseteq before, event.item \notin before,
         Carried(events, delivered, items), InOrder(events), EarlierToo(before, items)
  PROVE  /\ Carried(Append(events, event), delivered \cup {event.item}, items)
         /\ InOrder(Append(events, event))
<1>1. <<event>> \in Seq(Event) /\ Append(events, event) = events \o <<event>>
  BY AppendIsConcat
<1>2. Carried(<<event>>, {event.item}, items) /\ InOrder(<<event>>)
  BY OneEvent
<1>0. before \cap {event.item} = {} /\ delivered \cap {event.item} = {}
  OBVIOUS
<1>3. Carried(events \o <<event>>, delivered \cup {event.item}, items)
  BY <1>0, <1>1, <1>2, CarriedTogether
<1>4. InOrder(events \o <<event>>)
  BY <1>0, <1>1, <1>2, OrderedTogether
<1>5. QED
  BY <1>1, <1>3, <1>4

\* A row that arrives changes nothing for the rows before it.
LEMMA ArrivesKeeps ==
  ASSUME Types, InboxInv, Arrives
  PROVE  InboxInv'
<1>0. inbox \in Seq(InboxItem) /\ Len(inbox) \in Nat
  BY DEF Types, WorkTypes
<1>1. PICK item \in InboxItem :
         /\ inbox' = Append(inbox, item)
         /\ item.status = "pending"
         /\ item.kind = "cancel" => item.key = None
  BY DEF Arrives
<1>2. /\ inbox' \in Seq(InboxItem)
      /\ Len(inbox') = Len(inbox) + 1
      /\ \A i \in Rows(inbox) : inbox'[i] = inbox[i]
      /\ inbox'[Len(inbox) + 1] = item
  BY <1>0, <1>1, AppendProperties DEF Rows
<1>3. Rows(inbox') = Rows(inbox) \cup {Len(inbox) + 1} /\ Len(inbox) + 1 \notin Rows(inbox)
  BY <1>0, <1>2 DEF Rows
<1>4. RowsStay(inbox, inbox')
  BY <1>0, <1>2 DEF RowsStay
<1>5. /\ Processed(inbox') = Processed(inbox)
      /\ RowsIn(inbox', "discarded") = RowsIn(inbox, "discarded")
      /\ RowsIn(inbox', "pending") = RowsIn(inbox, "pending") \cup {Len(inbox) + 1}
  BY <1>1, <1>2, <1>3 DEF RowsIn, Processed
<1>6. CancelsHaveNoKey(inbox')
  BY <1>1, <1>2, <1>3, ZenonT(60) DEF CancelsHaveNoKey, InboxInv
<1>7. Journalled(history, inbox')
  <2>1. Processed(inbox) \in SUBSET Rows(inbox)
    BY DEF Processed, RowsIn
  <2>2. Carried(history, Processed(inbox), inbox') /\ EarlierToo(Processed(inbox), inbox')
    BY <1>0, <1>2, <1>4, <2>1, CarriedStays, EarlierStays DEF InboxInv, Journalled
  <2>3. QED
    BY <1>5, <2>2 DEF InboxInv, Journalled
<1>8. ASSUME FollowsOn(runner, inbox)
      PROVE  FollowsOn(runner, inbox')
  <2>1. Processed(inbox) \cup runner.consumed \in SUBSET Rows(inbox)
    BY <1>8 DEF FollowsOn, InHand, Processed, RowsIn
  <2>2. /\ Carried(runner.queued, runner.consumed, inbox')
        /\ EarlierToo(Processed(inbox) \cup runner.consumed, inbox')
    BY <1>0, <1>2, <1>4, <1>8, <2>1, CarriedStays, EarlierStays DEF FollowsOn
  <2>3. \A j \in InHand(runner) : ~(Len(inbox) + 1 < j)
    BY <1>0, <1>8 DEF FollowsOn, RowsIn, Rows
  <2>4. NothingPassedOver(runner, inbox) => NothingPassedOver(runner, inbox')
    BY <1>5, <2>3 DEF NothingPassedOver
  <2>5. InHand(runner) \subseteq RowsIn(inbox', "pending")
    BY <1>5, <1>8 DEF FollowsOn
  <2>6. QED
    BY <1>5, <1>8, <2>2, <2>4, <2>5 DEF FollowsOn
<1>9. UNCHANGED <<history, runner>> /\ IsTerminal' = IsTerminal /\ Replaying' = Replaying
  BY DEF Arrives, Replaying
<1>10. QED
  BY <1>5, <1>6, <1>7, <1>8, <1>9 DEF InboxInv

LEMMA CancelsStay ==
  ASSUME NEW items \in Seq(InboxItem), NEW later \in Seq(InboxItem), Len(later) = Len(items),
         RowsStay(items, later), CancelsHaveNoKey(items)
  PROVE  CancelsHaveNoKey(later)
BY DEF CancelsHaveNoKey, RowsStay, Rows

LEMMA DiscardKeepsRows ==
  ASSUME NEW items \in Seq(InboxItem)
  PROVE  /\ DiscardPending(items) \in Seq(InboxItem)
         /\ Len(DiscardPending(items)) = Len(items)
         /\ RowsStay(items, DiscardPending(items))
         /\ Processed(DiscardPending(items)) = Processed(items)
<1> DEFINE later == DiscardPending(items)
<1>1. later \in Seq(InboxItem) /\ Len(later) = Len(items) /\ Len(items) \in Nat
  BY DiscardType DEF DiscardPending
<1>2. ASSUME NEW i \in Rows(items)
      PROVE  /\ later[i].kind = items[i].kind /\ later[i].key = items[i].key
             /\ later[i].status = "processed" <=> items[i].status = "processed"
  <2>1. items[i] \in InboxItem /\ i \in 1..Len(items)
    BY DEF Rows
  <2>2. later[i] = IF items[i].status = "pending" THEN [items[i] EXCEPT !.status = "discarded"] ELSE items[i]
    BY <2>1 DEF DiscardPending
  <2>3. QED
    BY <2>1, <2>2 DEF InboxItem
<1> HIDE DEF later
<1>3. RowsStay(items, later)
  BY <1>1, <1>2 DEF RowsStay
<1>4. Processed(later) = Processed(items)
  BY <1>1, <1>2 DEF Processed, RowsIn, Rows
<1>5. QED
  BY <1>1, <1>3, <1>4 DEF later

LEMMA ConsumedKeepsRows ==
  ASSUME TypeOK, runner.consumed \subseteq RowsIn(inbox, "pending")
  PROVE  /\ Consumed \in Seq(InboxItem)
         /\ Len(Consumed) = Len(inbox)
         /\ RowsStay(inbox, Consumed)
         /\ Processed(Consumed) = Processed(inbox) \cup runner.consumed
         /\ RowsIn(Consumed, "discarded") = RowsIn(inbox, "discarded")
<1>1. Consumed \in Seq(InboxItem) /\ Len(Consumed) = Len(inbox) /\ Len(inbox) \in Nat
      /\ inbox \in Seq(InboxItem)
  BY ConsumedType DEF Consumed, TypeOK
<1>2. ASSUME NEW i \in Rows(inbox)
      PROVE  /\ Consumed[i].kind = inbox[i].kind /\ Consumed[i].key = inbox[i].key
             /\ Consumed[i].status = "processed" <=> inbox[i].status = "processed" \/ i \in runner.consumed
             /\ Consumed[i].status = "discarded" <=> inbox[i].status = "discarded"
  <2>1. inbox[i] \in InboxItem /\ i \in 1..Len(inbox)
    BY <1>1 DEF Rows
  <2>2. Consumed[i] = IF i \in runner.consumed /\ inbox[i].status = "pending"
                      THEN [inbox[i] EXCEPT !.status = "processed"] ELSE inbox[i]
    BY <2>1 DEF Consumed
  <2>3. i \in runner.consumed => inbox[i].status = "pending"
    BY DEF RowsIn
  <2>4. QED
    BY <2>1, <2>2, <2>3 DEF InboxItem
<1>3. RowsStay(inbox, Consumed)
  BY <1>1, <1>2 DEF RowsStay
<1>4. Rows(Consumed) = Rows(inbox) /\ runner.consumed \subseteq Rows(inbox)
  BY <1>1 DEF Rows, RowsIn
<1>5. Processed(Consumed) = Processed(inbox) \cup runner.consumed
  BY <1>2, <1>4 DEF Processed, RowsIn
<1>6. RowsIn(Consumed, "discarded") = RowsIn(inbox, "discarded")
  BY <1>2, <1>4 DEF RowsIn
<1>7. QED
  BY <1>1, <1>3, <1>5, <1>6

LEMMA JournalStays ==
  ASSUME NEW items \in Seq(InboxItem), NEW later \in Seq(InboxItem), RowsStay(items, later),
         Processed(later) = Processed(items), NEW events, Journalled(events, items)
  PROVE  Journalled(events, later)
<1>1. Processed(items) \in SUBSET Rows(items)
  BY DEF Processed, RowsIn
<1>2. QED
  BY <1>1, CarriedStays, EarlierStays DEF Journalled

LEMMA NotesKeeps ==
  ASSUME Types, InboxInv, Notes
  PROVE  InboxInv'
<1>0. inbox \in Seq(InboxItem) /\ history \in Seq(Event)
  BY DEF Types, WorkTypes, HistoryType
<1>1. PICK event \in Event :
         /\ history' = Append(history, event)
         /\ event.type \in NotedEvents /\ event.item = 0
  BY DEF Notes
<1>2. CarriesNone(event)
  BY <1>1 DEF CarriesNone, CarryingTypes, NotedEvents, LifecycleEvents
<1>3. Journalled(history', inbox)
  BY <1>0, <1>1, <1>2, WriteNone DEF InboxInv, Journalled
<1>4. CASE inbox' = inbox
  BY <1>3, <1>4 DEF InboxInv, Notes
<1>5. CASE inbox' = DiscardPending(inbox) /\ IsTerminal'
  <2>1. /\ inbox' \in Seq(InboxItem) /\ Len(inbox') = Len(inbox)
        /\ RowsStay(inbox, inbox') /\ Processed(inbox') = Processed(inbox)
    BY <1>0, <1>5, DiscardKeepsRows
  <2>2. Journalled(history', inbox')
    BY <1>0, <1>3, <2>1, JournalStays
  <2>3. CancelsHaveNoKey(inbox')
    BY <1>0, <2>1, CancelsStay DEF InboxInv
  <2>4. QED
    BY <1>5, <2>2, <2>3 DEF InboxInv, Notes
<1>6. QED
  BY <1>4, <1>5 DEF Notes

LEMMA BeginsKeeps ==
  ASSUME Types, InboxInv, Begins
  PROVE  InboxInv'
<1>0. inbox \in Seq(InboxItem) /\ Len(inbox) \in Nat
  BY DEF Types, WorkTypes
<1>1. UNCHANGED <<history, inbox>> /\ ~IsTerminal
  BY DEF Begins
<1>2. PICK w \in Workers, outcomes \in [Keys -> Outcomes], horizon \in 0..Len(inbox) :
         runner' = NewRunner(Deployed[w], history, {i \in 1..horizon : inbox[i].status = "pending"}, outcomes)
  BY DEF Begins
<1> DEFINE frontier == {i \in 1..horizon : inbox[i].status = "pending"}
<1>3. runner'.frontier = frontier /\ runner'.consumed = {} /\ runner'.queued = <<>>
  BY <1>2 DEF NewRunner
<1> DEFINE r == runner'
<1>4. InHand(r) = frontier
  BY <1>3 DEF InHand
<1>5. frontier \subseteq RowsIn(inbox, "pending")
  BY <1>0 DEF RowsIn, Rows
<1>6. NothingPassedOver(r, inbox)
  <2> SUFFICES ASSUME NEW j \in frontier, NEW i \in RowsIn(inbox, "pending"), i < j
               PROVE  i \in frontier
    BY <1>4 DEF NothingPassedOver
  <2>1. i \in 1..Len(inbox) /\ inbox[i].status = "pending" /\ j \in 1..horizon
    BY DEF RowsIn, Rows
  <2>2. i \in 1..horizon
    BY <1>0, <2>1
  <2>3. QED
    BY <2>1, <2>2
<1>7. Carried(r.queued, r.consumed, inbox) /\ InOrder(r.queued)
  BY <1>3 DEF Carried, InOrder
<1>8. EarlierToo(Processed(inbox) \cup r.consumed, inbox)
  BY <1>3 DEF InboxInv, Journalled
<1>9. FollowsOn(r, inbox)
  BY <1>3, <1>4, <1>5, <1>6, <1>7, <1>8 DEF FollowsOn
<1>10. QED
  BY <1>1, <1>9 DEF InboxInv

\* What a replay step makes of the rows in hand.
LEMMA TakesKeeps ==
  ASSUME inbox \in Seq(InboxItem), runner \in Runner, CancelsHaveNoKey(inbox),
         RowsIn(inbox, "discarded") = {}, FollowsOn(runner, inbox), runner.phase # "decided",
         NEW r, NEW i \in runner.frontier, TakesRow(r, i)
  PROVE  FollowsOn(r, inbox)
<1> DEFINE key == IF inbox[i].kind = "cancel" THEN None ELSE inbox[i].key
           event == NewEvent(EventOf(inbox[i].kind), key, i)
           before == Processed(inbox) \cup runner.consumed
<1>1. /\ r.frontier = runner.frontier \ {i} /\ r.consumed = runner.consumed \cup {i}
      /\ r.queued = Append(runner.queued, event)
  BY DEF TakesRow, Reading
<1>2. i \in RowsIn(inbox, "pending") /\ i \in Rows(inbox) /\ inbox[i].status = "pending"
  BY DEF FollowsOn, InHand, RowsIn
<1>3. inbox[i] \in InboxItem /\ i \in Nat
  BY <1>2 DEF Rows
<1>4. key = inbox[i].key /\ key \in Keys \cup {None}
  BY <1>2, <1>3 DEF CancelsHaveNoKey, InboxItem
<1>5. EventOf(inbox[i].kind) \in EventTypes
  BY <1>3 DEF InboxItem, EventOf, EventTypes
<1>6. event \in Event /\ event.item = i /\ event.key = key /\ event.type = EventOf(inbox[i].kind)
  BY <1>3, <1>4, <1>5, EventType DEF NewEvent
<1> HIDE DEF key, event
<1>7. CarriesRow(event, inbox)
  BY <1>2, <1>4, <1>6 DEF CarriesRow
<1>8. i \notin before
  BY <1>2 DEF FollowsOn, Processed, RowsIn
<1>9. Carried(r.queued, r.consumed, inbox) /\ InOrder(r.queued)
  <2>1. runner.queued \in Seq(Event) /\ runner.consumed \subseteq before
    BY DEF Runner
  <2>2. Carried(runner.queued, runner.consumed, inbox) /\ InOrder(runner.queued) /\ EarlierToo(before, inbox)
    BY DEF FollowsOn
  <2> HIDE DEF before
  <2>3. event.item \notin before
    BY <1>6, <1>8
  <2>4. /\ Carried(Append(runner.queued, event), runner.consumed \cup {event.item}, inbox)
        /\ InOrder(Append(runner.queued, event))
    BY <1>6, <1>7, <2>1, <2>2, <2>3, WriteRow
  <2>5. QED
    BY <1>1, <1>6, <2>4
<1>10. InHand(r) = InHand(runner)
  BY <1>1 DEF InHand
<1>11. EarlierToo(Processed(inbox) \cup r.consumed, inbox)
  <2> SUFFICES ASSUME NEW h \in Rows(inbox), NEW j \in Rows(inbox), h < j,
                      inbox[h].kind = "signal", inbox[j].kind = "signal", inbox[h].key = inbox[j].key,
                      j \in before \cup {i}, h \notin before
               PROVE  FALSE
    BY <1>1 DEF EarlierToo
  <2>1. j = i
    BY DEF FollowsOn, EarlierToo
  <2>2. inbox[h] \in InboxItem
    BY DEF Rows
  <2>3. h \in RowsIn(inbox, "pending")
    BY <2>2 DEF InboxItem, Processed, RowsIn
  <2>4. i \in InHand(runner)
    BY DEF InHand
  <2>5. h \in InHand(runner)
    BY <2>1, <2>3, <2>4 DEF FollowsOn, NothingPassedOver
  <2>6. h \in runner.frontier
    BY <2>5 DEF InHand
  <2>7. i <= h
    BY <2>1, <2>6 DEF TakesRow
  <2>8. QED
    BY <1>3, <2>1, <2>7 DEF Rows
<1>12. NothingPassedOver(r, inbox)
  BY <1>10 DEF FollowsOn, NothingPassedOver
<1>13. r.frontier \cap r.consumed = {}
  BY <1>1 DEF FollowsOn
<1>14. QED
  BY <1>9, <1>10, <1>11, <1>12, <1>13 DEF FollowsOn

LEMMA ReplaysKeeps ==
  ASSUME Types, Locking, InboxInv, Replays
  PROVE  InboxInv'
<1>0. inbox \in Seq(InboxItem) /\ runner \in Runner /\ ReplayPosition /\ runner.queued \in Seq(Event)
  BY DEF Types, WorkTypes, ReplayTypes, Runner
<1>1. UNCHANGED <<history, inbox>> /\ IsTerminal' = IsTerminal /\ FollowsOn(runner, inbox) /\ ReplayStep
  BY DEF Replays, InboxInv, IsTerminal
<1>2. RowsIn(inbox, "discarded") = {}
  BY ReplayingIsLocked DEF Replays, InboxInv
<1>3. runner.phase # "decided"
  BY <1>1, ReplayIsUndecided
<1>4. CASE Keeps(runner')
  <2>1. /\ runner'.frontier = runner.frontier /\ runner'.consumed = runner.consumed
        /\ runner'.queued = runner.queued
    BY <1>4 DEF Keeps, Reading
  <2>2. InHand(runner') = InHand(runner)
    BY <2>1 DEF InHand
  <2>3. QED
    BY <1>1, <1>3, <2>1, <2>2 DEF FollowsOn, NothingPassedOver, InboxInv
<1>5. CASE Writes(runner')
  <2>1. PICK event \in Event :
           /\ CarriesNone(event)
           /\ runner'.frontier = runner.frontier /\ runner'.consumed = runner.consumed
           /\ runner'.queued = Append(runner.queued, event)
    BY <1>5 DEF Writes, Reading
  <2>2. InHand(runner') = InHand(runner)
    BY <2>1 DEF InHand
  <2>3. Carried(runner'.queued, runner'.consumed, inbox) /\ InOrder(runner'.queued)
    <3> DEFINE before == Processed(inbox) \cup runner.consumed
    <3>1. /\ runner.consumed \subseteq before /\ EarlierToo(before, inbox)
          /\ Carried(runner.queued, runner.consumed, inbox) /\ InOrder(runner.queued)
      BY <1>1 DEF FollowsOn
    <3> HIDE DEF before
    <3>2. QED
      BY <1>0, <2>1, <3>1, WriteNone
  <2>4. FollowsOn(runner', inbox)
    BY <1>1, <1>3, <2>1, <2>2, <2>3 DEF FollowsOn, NothingPassedOver
  <2>5. QED
    BY <1>1, <2>4 DEF InboxInv
<1>6. CASE Takes(runner')
  <2>1. FollowsOn(runner', inbox)
    BY <1>0, <1>1, <1>2, <1>3, <1>6, TakesKeeps DEF Takes, InboxInv
  <2>2. QED
    BY <1>1, <2>1 DEF InboxInv
<1>7. CASE GivesUp(runner')
  <2>1. /\ runner'.frontier = runner.frontier /\ runner'.consumed = {} /\ runner'.queued = <<>>
        /\ runner'.phase = "decided"
    BY <1>7 DEF GivesUp, Reading
  <2>2. Carried(runner'.queued, runner'.consumed, inbox) /\ InOrder(runner'.queued)
    BY <2>1 DEF Carried, InOrder
  <2>3. InHand(runner') \subseteq RowsIn(inbox, "pending") /\ runner'.frontier \cap runner'.consumed = {}
    BY <1>1, <2>1 DEF FollowsOn, InHand
  <2>4. EarlierToo(Processed(inbox) \cup runner'.consumed, inbox)
    BY <2>1 DEF InboxInv, Journalled
  <2>5. FollowsOn(runner', inbox)
    BY <2>1, <2>2, <2>3, <2>4 DEF FollowsOn
  <2>6. QED
    BY <1>1, <2>5 DEF InboxInv
<1>8. QED
  BY <1>0, <1>1, <1>4, <1>5, <1>6, <1>7, ReplayReads

\* A commit appends the replay's events and processes the rows they carry.
LEMMA CommitsKeeps ==
  ASSUME Types, InboxInv, Commits
  PROVE  InboxInv'
<1>0. TypeOK /\ inbox \in Seq(InboxItem) /\ history \in Seq(Event) /\ runner.queued \in Seq(Event)
  BY TypesAreTypeOK DEF TypeOK, Runner
<1>1. /\ FollowsOn(runner, inbox) /\ ~Replaying' /\ ~IsTerminal /\ history' = history \o runner.queued
      /\ RowsIn(inbox, "discarded") = {}
  BY DEF Commits, InboxInv
<1>2. runner.consumed \subseteq RowsIn(inbox, "pending")
  BY <1>1 DEF FollowsOn, InHand
<1>3. /\ Consumed \in Seq(InboxItem) /\ Len(Consumed) = Len(inbox)
      /\ RowsStay(inbox, Consumed)
      /\ Processed(Consumed) = Processed(inbox) \cup runner.consumed
      /\ RowsIn(Consumed, "discarded") = {}
  BY <1>0, <1>1, <1>2, ConsumedKeepsRows
<1>4. Journalled(history', Consumed)
  <2>1. Processed(inbox) \cap runner.consumed = {} /\ Processed(inbox) \in SUBSET Rows(inbox)
        /\ Processed(inbox) \cup runner.consumed \in SUBSET Rows(inbox)
    BY <1>2 DEF Processed, RowsIn
  <2>2. Carried(history', Processed(inbox) \cup runner.consumed, inbox)
    BY <1>0, <1>1, <2>1, CarriedTogether DEF InboxInv, Journalled, FollowsOn
  <2>3. InOrder(history')
    BY <1>0, <1>1, <2>1, OrderedTogether DEF InboxInv, Journalled, FollowsOn
  <2>4. Carried(history', Processed(Consumed), Consumed)
    BY <1>0, <1>3, <2>2, CarriedStays
  <2>5. EarlierToo(Processed(Consumed), Consumed)
    BY <1>0, <1>1, <1>3, <2>1, EarlierStays DEF FollowsOn
  <2>6. QED
    BY <2>3, <2>4, <2>5 DEF Journalled
<1>5. CancelsHaveNoKey(Consumed)
  BY <1>0, <1>3, CancelsStay DEF InboxInv
<1>6. CASE inbox' = Consumed
  BY <1>1, <1>3, <1>4, <1>5, <1>6 DEF InboxInv
<1>7. CASE inbox' = DiscardPending(Consumed) /\ IsTerminal'
  <2>1. /\ inbox' \in Seq(InboxItem) /\ Len(inbox') = Len(Consumed)
        /\ RowsStay(Consumed, inbox') /\ Processed(inbox') = Processed(Consumed)
    BY <1>3, <1>7, DiscardKeepsRows
  <2>2. Journalled(history', inbox')
    BY <1>3, <1>4, <2>1, JournalStays
  <2>3. CancelsHaveNoKey(inbox')
    BY <1>3, <1>5, <2>1, CancelsStay
  <2>4. QED
    BY <1>1, <1>7, <2>2, <2>3 DEF InboxInv
<1>8. QED
  BY <1>6, <1>7 DEF Commits

LEMMA InboxStep ==
  ASSUME Types, Locking, InboxInv, Reads
  PROVE  InboxInv'
<1>1. CASE Quiet
  BY <1>1 DEF Quiet, InboxInv
<1>2. QED
  BY <1>1, ArrivesKeeps, NotesKeeps, BeginsKeeps, ReplaysKeeps, CommitsKeeps DEF Reads

LEMMA InboxInvImplies ==
  ASSUME Types, InboxInv
  PROVE  InboxJournal /\ SignalsInOrder
<1>0. inbox \in Seq(InboxItem) /\ history \in Seq(Event) /\ Journalled(history, inbox)
  BY DEF Types, WorkTypes, HistoryType, InboxInv
<1>1. ASSUME NEW i \in 1..Len(inbox)
      PROVE  LET carriers == {n \in Events : history[n].item = i}
             IN /\ inbox[i].status = "processed" <=> carriers # {}
                /\ \A n \in carriers :
                     /\ carriers = {n}
                     /\ history[n].type = EventOf(inbox[i].kind)
                     /\ history[n].key = inbox[i].key
  <2> DEFINE carriers == {n \in Events : history[n].item = i}
  <2>1. i # 0 /\ i \in Rows(inbox)
    BY DEF Rows
  <2>2. ASSUME NEW n \in carriers
        PROVE  /\ i \in Processed(inbox) /\ carriers = {n}
               /\ history[n].type = EventOf(inbox[i].kind)
               /\ history[n].key = inbox[i].key
    <3>1. n \in 1..Len(history) /\ history[n].item = i
      BY DEF Events
    <3>2. CarriesRow(history[n], inbox) /\ i \in Processed(inbox)
      BY <1>0, <2>1, <3>1 DEF Journalled, Carried, CarriesNone
    <3>3. \A m \in carriers : m = n
      BY <1>0, <2>1, <3>1 DEF Journalled, Carried, Events
    <3>4. QED
      BY <3>1, <3>2, <3>3 DEF CarriesRow
  <2>3. i \in Processed(inbox) => carriers # {}
    BY <1>0 DEF Journalled, Carried, Events
  <2>4. i \in Processed(inbox) <=> inbox[i].status = "processed"
    BY <2>1 DEF Processed, RowsIn
  <2>5. QED
    BY <2>2, <2>3, <2>4
<1>2. InboxJournal
  BY <1>1 DEF InboxJournal
<1>3. SignalsInOrder
  BY <1>0 DEF SignalsInOrder, Journalled, InOrder, EarlierToo, Processed, RowsIn, Rows, Events
<1>4. QED
  BY <1>2, <1>3

(***************************************************************************)
(* The theorems.                                                           *)
(***************************************************************************)

ReadingInv == Types /\ Locking /\ FinishingHoldsTask /\ WokenRunWaits /\ HorizonsAreBehind /\ InboxInv

LEMMA InitReads ==
  ASSUME Init
  PROVE  ReadingInv
<1>1. Types
  BY InitTypes, TypesAreTypeOK
<1>2. /\ history = <<>> /\ inbox = <<>> /\ status = "queued"
      /\ \A w \in Workers : wf[w] = [pc |-> "idle", horizon |-> 0]
      /\ \A a \in ActivityWorkers : aw[a] = IdleActivityWorker
  BY DEF Init
<1>3. Locking /\ FinishingHoldsTask /\ WokenRunWaits /\ HorizonsAreBehind
  BY <1>2 DEF Locking, ActivationFence, WakeHoldsLock, FinishingHoldsTask, WokenRunWaits, HorizonsAreBehind,
     IdleActivityWorker
<1>4. ~Replaying
  BY <1>2 DEF Replaying
<1>5. Rows(inbox) = {} /\ 1..Len(history) = {}
  BY <1>2 DEF Rows
<1>6. RowsIn(inbox, "discarded") = {} /\ Processed(inbox) = {}
  BY <1>5 DEF RowsIn, Processed
<1>7. Journalled(history, inbox) /\ CancelsHaveNoKey(inbox)
  BY <1>5, <1>6 DEF Journalled, Carried, InOrder, EarlierToo, CancelsHaveNoKey
<1>8. QED
  BY <1>1, <1>3, <1>4, <1>6, <1>7 DEF ReadingInv, InboxInv

LEMMA ReadingOn ==
  ASSUME ReadingInv, [Next]_vars
  PROVE  ReadingInv'
<1>1. Types' /\ Locking' /\ FinishingHoldsTask' /\ WokenRunWaits'
  BY NextKeepsTypes, NextKeepsLocking, NextKeepsTasks, WokenRunWaitsOn DEF ReadingInv, TasksStep
<1>2. Reads
  BY StepsRead DEF ReadingInv
<1>3. HorizonsAreBehind'
  BY <1>2, HorizonsStayBehind DEF ReadingInv
<1>4. InboxInv'
  BY <1>2, InboxStep DEF ReadingInv
<1>5. QED
  BY <1>1, <1>3, <1>4 DEF ReadingInv

\* For every function, mixture of builds, number of workers and sequence of
\* requests: a row of the inbox is processed exactly if one event of the history
\* carries it, and then one only, of its kind and key.  Nothing is delivered twice
\* or lost between the read of the inbox, the replay and the commit
\* (activation.go:93-133, 305-409; replay.go:763-993).
THEOREM InboxIsJournalled == Spec => []InboxJournal
<1>1. ReadingInv => InboxJournal
  BY InboxInvImplies DEF ReadingInv
<1>2. QED
  BY <1>1, InitReads, ReadingOn, PTL DEF Spec

\* Signals of one name are received in the order in which they were sent, across
\* all activations of the run, and none of them is skipped (ReceiveSignal,
\* replay.go:968-993).
THEOREM SignalsAreInOrder == Spec => []SignalsInOrder
<1>1. ReadingInv => SignalsInOrder
  BY InboxInvImplies DEF ReadingInv
<1>2. QED
  BY <1>1, InitReads, ReadingOn, PTL DEF Spec

=============================================================================
