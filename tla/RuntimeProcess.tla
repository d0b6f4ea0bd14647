---------------------------- MODULE RuntimeProcess ----------------------------
(***************************************************************************)
(* One process of the engine runtime (engine/pkg/runtime/runtime.go): its  *)
(* poll loops (internal/worker/loop.go), the notification listener that    *)
(* wakes them (internal/notify/notify.go) through buffered channels, local *)
(* wakes, and the shutdown, from a cancelled context, a loop that fails or *)
(* servers that end, to the release of the claims.                         *)
(***************************************************************************)
EXTENDS Integers, FiniteSets

CONSTANTS
    BufferSize,   \* the buffer of a subscription: 64 in the code
    Setups        \* [loops, inputs, servers, work, breaks, errors]

\* A setup is a process with some of its loops, channels and servers, and the bounds of
\* what it may meet: rows that become claimable, connections that break, iterations that
\* fail. The workflow and activity loops claim rows and are woken; the plain loops
\* (maintenance, retention, projector, heartbeat, metrics) only have their timer.
LocalInputs == {"localOutcome", "localRetry"}
LoopOf(input) == IF input \in {"runs", "inbox", "localOutcome"} THEN "workflow" ELSE "activity"
Capacity(input) == IF input = "localOutcome" THEN 1 ELSE BufferSize

VARIABLES
    work,      \* claimable rows: [told, silent, later, timers] of a loop
    conn,      \* [state, sent]: the listener's connection and what is in it
    wakes,     \* [Inputs -> [buffer, hand]]: a channel and its forwarder
    merged,    \* [Claiming -> 0..1]: the channels that the loops select on
    loop,      \* [pc, claim, failed] of each loop
    process    \* [ctx, group, workCtx, stage, servers, kept, result, ...]

processVars == <<work, conn, wakes, merged, loop, process>>

Claiming == {"workflow", "activity"}
Loops == Claiming \cup {"maintenance"}
Inputs == DOMAIN wakes
Channels == Inputs \ LocalInputs
Servers == DOMAIN process.servers

\* A loop that a setup leaves out is done from the start.
Init ==
    \E setup \in Setups :
        /\ work = [l \in Claiming |-> [told |-> 0, silent |-> 0, later |-> 0, timers |-> 0]]
        /\ conn = [state |-> "down", sent |-> [c \in setup.inputs \ LocalInputs |-> 0]]
        /\ wakes = [i \in setup.inputs |-> [buffer |-> 0, hand |-> FALSE]]
        /\ merged = [l \in Claiming |-> 0]
        /\ loop = [l \in Loops |-> [pc |-> IF l \in setup.loops THEN "poll" ELSE "done",
                                    claim |-> "none", failed |-> FALSE]]
        /\ process = [ctx |-> FALSE, group |-> FALSE, workCtx |-> FALSE, stage |-> "running",
                      servers |-> [s \in setup.servers |-> "serving"], noticed |-> FALSE,
                      kept |-> {}, result |-> "none",
                      work |-> setup.work, breaks |-> setup.breaks, errors |-> setup.errors]

(***************************************************************************)
(* Work arrives. A notification reaches a connection that is listening.    *)
(***************************************************************************)

Listening == conn.state \in {"listening", "healthy", "up"}
Notify(channel) == IF Listening /\ channel \in Channels THEN [conn EXCEPT !.sent[channel] = @ + 1] ELSE conn

\* A transaction elsewhere makes a row claimable and notifies.
Arrives(channel) ==
    /\ process.work > 0
    /\ process' = [process EXCEPT !.work = @ - 1]
    /\ work' = [work EXCEPT ![LoopOf(channel)].told = @ + 1]
    /\ conn' = Notify(channel)
    /\ UNCHANGED <<wakes, merged, loop>>

\* A lease expires: nobody is told.
BecomesClaimable(l) ==
    /\ process.work > 0
    /\ process' = [process EXCEPT !.work = @ - 1]
    /\ work' = [work EXCEPT ![l].silent = @ + 1]
    /\ UNCHANGED <<conn, wakes, merged, loop>>

\* A retry's backoff ends in the database.
RetryDue ==
    /\ work["activity"].later > 0
    /\ work' = [work EXCEPT !["activity"].later = @ - 1, !["activity"].silent = @ + 1]
    /\ UNCHANGED <<conn, wakes, merged, loop, process>>

\* A send to a full channel is dropped.
Push(inputs) ==
    [i \in Inputs |-> [wakes[i] EXCEPT !.buffer = IF i \in inputs /\ @ < Capacity(i) THEN @ + 1 ELSE @]]

\* And in the process: the two clocks need not agree.
RetryTimer ==
    /\ work["activity"].timers > 0
    /\ work' = [work EXCEPT !["activity"].timers = @ - 1]
    /\ wakes' = IF process.group THEN wakes ELSE Push({"localRetry"})
    /\ UNCHANGED <<conn, merged, loop, process>>

(***************************************************************************)
(* The listener.                                                           *)
(***************************************************************************)

\* The connection is made, and LISTEN executed on every channel.
Connect ==
    /\ conn.state = "down" /\ ~process.group
    /\ conn' = [conn EXCEPT !.state = "listening"]
    /\ UNCHANGED <<work, wakes, merged, loop, process>>

MarkHealthy ==
    /\ conn.state = "listening"
    /\ conn' = [conn EXCEPT !.state = "healthy"]
    /\ UNCHANGED <<work, wakes, merged, loop, process>>

\* Mutated: the listener relies on the notifications that it will get.
NobodyWoken == {}

WokenAtStart == Channels

\* wakeAll: whatever was committed before LISTEN is polled for.
WakeAll ==
    /\ conn.state = "healthy"
    /\ conn' = [conn EXCEPT !.state = "up"]
    /\ wakes' = Push(WokenAtStart)
    /\ UNCHANGED <<work, merged, loop, process>>

Receive(channel) ==
    /\ conn.state = "up" /\ conn.sent[channel] > 0
    /\ conn' = [conn EXCEPT !.sent[channel] = @ - 1]
    /\ wakes' = Push({channel})
    /\ UNCHANGED <<work, merged, loop, process>>

\* The connection is gone with what was in it; the listener learns of it later.
Break ==
    /\ Listening /\ process.breaks > 0
    /\ process' = [process EXCEPT !.breaks = @ - 1]
    /\ conn' = [state |-> "dead", sent |-> [c \in Channels |-> 0]]
    /\ UNCHANGED <<work, wakes, merged, loop>>

Reconnect ==
    /\ conn.state = "dead" /\ ~process.group
    /\ conn' = [conn EXCEPT !.state = "down"]
    /\ UNCHANGED <<work, wakes, merged, loop, process>>

ListenerStops ==
    /\ process.group /\ conn.state # "stopped"
    /\ conn' = [conn EXCEPT !.state = "stopped", !.sent = [c \in Channels |-> 0]]
    /\ UNCHANGED <<work, wakes, merged, loop, process>>

\* mergeWakeChannels: a forwarder takes a wake from its input, then sends it on.
Take(i) ==
    /\ wakes[i].buffer > 0 /\ ~wakes[i].hand
    /\ wakes' = [wakes EXCEPT ![i] = [buffer |-> @.buffer - 1, hand |-> TRUE]]
    /\ UNCHANGED <<work, conn, merged, loop, process>>

Forward(i) ==
    /\ wakes[i].hand
    /\ wakes' = [wakes EXCEPT ![i].hand = FALSE]
    /\ merged' = [merged EXCEPT ![LoopOf(i)] = 1]
    /\ UNCHANGED <<work, conn, loop, process>>

(***************************************************************************)
(* The loops. An iteration of a claiming loop runs under workCtx, those of *)
(* the others under the group's context.                                   *)
(***************************************************************************)

IterationCancelled(l) == IF l \in Claiming THEN process.workCtx ELSE process.group

\* An iteration claims a row, if there is one.
Claim(l) ==
    /\ loop[l].pc = "poll" /\ l \in Claiming /\ ~process.workCtx
    /\ \/ work[l].told > 0 /\ work' = [work EXCEPT ![l].told = @ - 1]
       \/ work[l].silent > 0 /\ work' = [work EXCEPT ![l].silent = @ - 1]
    /\ loop' = [loop EXCEPT ![l].pc = "busy", ![l].claim = "held"]
    /\ UNCHANGED <<conn, wakes, merged, process>>

\* It finds none.
FindsNothing(l) ==
    /\ loop[l].pc = "poll" /\ ~IterationCancelled(l)
    /\ l \in Claiming => work[l].told + work[l].silent = 0
    /\ loop' = [loop EXCEPT ![l].pc = IF process.group THEN "done" ELSE "wait"]
    /\ UNCHANGED <<work, conn, wakes, merged, process>>

\* It ends, and the loop polls again at once unless the group is cancelled.
Polls(l) == [loop EXCEPT ![l].pc = IF process.group THEN "done" ELSE "poll", ![l].claim = "none"]

ActivationEnds ==
    /\ loop["workflow"].pc = "busy"
    /\ loop' = Polls("workflow")
    /\ UNCHANGED <<work, conn, wakes, merged, process>>

\* An outcome makes the run claimable and notifies; the process also wakes its own loop.
OutcomeStored ==
    /\ loop["activity"].pc = "busy"
    /\ loop' = Polls("activity")
    /\ work' = [work EXCEPT !["workflow"].told = @ + 1]
    /\ conn' = Notify("runs")
    /\ wakes' = Push({"localOutcome"})
    /\ UNCHANGED <<merged, process>>

RetryScheduled ==
    /\ loop["activity"].pc = "busy" /\ process.work > 0
    /\ process' = [process EXCEPT !.work = @ - 1]
    /\ loop' = Polls("activity")
    /\ work' = [work EXCEPT !["activity"].later = @ + 1, !["activity"].timers = @ + 1]
    /\ UNCHANGED <<conn, wakes, merged>>

\* An error ends the loop, and with it the group, unless that is cancelled already. What
\* the iteration had claimed stays claimed.
IterationFails(l) ==
    /\ loop[l].pc \in {"poll", "busy"} /\ process.errors > 0
    /\ process' = [process EXCEPT !.errors = @ - 1, !.group = TRUE]
    /\ loop' = [loop EXCEPT ![l].pc = "done", ![l].failed = ~process.group]
    /\ UNCHANGED <<work, conn, wakes, merged>>

\* Its context is cancelled.
Interrupted(l) ==
    /\ loop[l].pc \in {"poll", "busy"} /\ IterationCancelled(l)
    /\ loop' = [loop EXCEPT ![l].pc = "done"]
    /\ UNCHANGED <<work, conn, wakes, merged, process>>

\* select: the interval ends, a wake comes, or the group is cancelled, whichever Go takes.
IntervalEnds(l) ==
    /\ loop[l].pc = "wait"
    /\ loop' = [loop EXCEPT ![l].pc = "poll"]
    /\ UNCHANGED <<work, conn, wakes, merged, process>>

IsWoken(l) ==
    /\ loop[l].pc = "wait" /\ l \in Claiming /\ merged[l] = 1
    /\ merged' = [merged EXCEPT ![l] = 0]
    /\ loop' = [loop EXCEPT ![l].pc = "poll"]
    /\ UNCHANGED <<work, conn, wakes, process>>

LoopStops(l) ==
    /\ loop[l].pc = "wait" /\ process.group
    /\ loop' = [loop EXCEPT ![l].pc = "done"]
    /\ UNCHANGED <<work, conn, wakes, merged, process>>

(***************************************************************************)
(* Run and its end.                                                        *)
(***************************************************************************)

Cancel ==
    /\ ~process.ctx /\ process.stage # "returned"
    /\ process' = [process EXCEPT !.ctx = TRUE, !.group = TRUE]
    /\ UNCHANGED <<work, conn, wakes, merged, loop>>

\* Mutated: the grace only begins with a request to stop.
StopRequested == process.ctx

GraceBegun == process.group

GraceEnds ==
    /\ GraceBegun /\ ~process.workCtx /\ process.stage = "running"
    /\ process' = [process EXCEPT !.workCtx = TRUE]
    /\ UNCHANGED <<work, conn, wakes, merged, loop>>

ServerFails(s) ==
    /\ process.servers[s] = "serving"
    /\ process' = [process EXCEPT !.servers[s] = "failed"]
    /\ UNCHANGED <<work, conn, wakes, merged, loop>>

\* serverGroup.Wait returns when every server has ended: one of two is not noticed.
ServersDone ==
    /\ process.stage = "running" /\ ~process.noticed
    /\ Servers # {} /\ \A s \in Servers : process.servers[s] = "failed"
    /\ process' = [process EXCEPT !.noticed = TRUE, !.group = TRUE]
    /\ UNCHANGED <<work, conn, wakes, merged, loop>>

\* Mutated: the loops are not waited for.
GroupCancelled == process.group

\* group.Wait returns.
WorkersDone == (\A l \in Loops : loop[l].pc = "done") /\ conn.state = "stopped"

BeginRelease ==
    /\ process.stage = "running" /\ WorkersDone
    /\ process' = [process EXCEPT !.stage = "releaseActivity"]
    /\ UNCHANGED <<work, conn, wakes, merged, loop>>

\* releaseWorkerClaims: first the tasks, then the runs; an error is logged.
Release(l, next, ok) ==
    /\ process' = [process EXCEPT !.stage = next, !.kept = IF ok THEN @ ELSE @ \cup {l}]
    /\ loop' = IF ok THEN [loop EXCEPT ![l].claim = "none"] ELSE loop
    /\ work' = IF ok /\ loop[l].claim = "held" THEN [work EXCEPT ![l].told = @ + 1] ELSE work
    /\ UNCHANGED <<conn, wakes, merged>>

ReleaseActivityTasks(ok) == process.stage = "releaseActivity" /\ Release("activity", "releaseRuns", ok)
ReleaseRuns(ok) == process.stage = "releaseRuns" /\ Release("workflow", "shutdown", ok)

ShutdownServers ==
    /\ process.stage = "shutdown"
    /\ process' = [process EXCEPT !.stage = "returned",
          !.servers = [s \in Servers |-> IF @[s] = "serving" THEN "closed" ELSE @[s]],
                    !.result =
             CASE \E l \in Loops : loop[l].failed -> "workerErr"
               [] ~process.ctx /\ (\A l \in Loops : ~loop[l].failed)
                  /\ (\E s \in Servers : process.servers[s] = "failed") -> "serverErr"
               [] OTHER -> "nil"]
    /\ UNCHANGED <<work, conn, wakes, merged, loop>>

ListenerNext ==
    \/ Connect
    \/ MarkHealthy
    \/ WakeAll
    \/ \E c \in Channels : Receive(c)
    \/ Reconnect
    \/ ListenerStops
    \/ \E i \in Inputs : Take(i) \/ Forward(i)

LoopNext(l) ==
    \/ Claim(l)
    \/ FindsNothing(l)
    \/ Interrupted(l)
    \/ IntervalEnds(l)
    \/ IsWoken(l)
    \/ LoopStops(l)

RunNext ==
    \/ GraceEnds
    \/ ServersDone
    \/ BeginRelease
    \/ \E ok \in BOOLEAN : ReleaseActivityTasks(ok) \/ ReleaseRuns(ok)
    \/ ShutdownServers

Next ==
    \/ \E c \in Channels : Arrives(c)
    \/ \E l \in Claiming : BecomesClaimable(l)
    \/ RetryDue
    \/ RetryTimer
    \/ ListenerNext
    \/ Break
    \/ \E l \in Loops : LoopNext(l) \/ IterationFails(l)
    \/ ActivationEnds
    \/ OutcomeStored
    \/ RetryScheduled
    \/ Cancel
    \/ \E s \in Servers : ServerFails(s)
    \/ RunNext

\* The process's goroutines run on. A handler need not end by itself, but when its
\* context is cancelled its iteration fails.
Fairness ==
    /\ WF_processVars(ListenerNext)
    /\ WF_processVars(RunNext)
    /\ \A l \in Loops : WF_processVars(LoopNext(l))

Spec == Init /\ [][Next]_processVars /\ Fairness
=============================================================================
