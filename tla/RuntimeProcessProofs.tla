-------------------------- MODULE RuntimeProcessProofs --------------------------
(***************************************************************************)
(* Theorems about a process of the runtime, for every setup, any size of   *)
(* the channels' buffers and any number of rows, broken connections and    *)
(* failed iterations: no wake is lost, and the process stops cleanly.      *)
(***************************************************************************)
EXTENDS RuntimeProcessProperties, TLAPS

\* A process that stores outcomes beside its workflow loop listens for runs
\* (runtime.go:265-281: both loops are started together, with their subscriptions).
Wired ==
    /\ BufferSize \in Nat \ {0}
    /\ \A setup \in Setups :
         /\ setup.work \in Nat /\ setup.breaks \in Nat /\ setup.errors \in Nat
         /\ {"workflow", "activity"} \subseteq setup.loops => "runs" \in setup.inputs

(***************************************************************************)
(* Types.                                                                  *)
(***************************************************************************)

WorkTypes == work \in [Claiming -> [told : Nat, silent : Nat, later : Nat, timers : Nat]]
ConnTypes ==
    conn \in [state : {"down", "listening", "healthy", "up", "dead", "stopped"}, sent : [Channels -> Nat]]
WakeTypes ==
    /\ wakes \in [Inputs -> [buffer : Nat, hand : BOOLEAN]]
    /\ merged \in [Claiming -> {0, 1}]
LoopTypes ==
    loop \in [Loops -> [pc : {"poll", "wait", "busy", "done"}, claim : {"none", "held"}, failed : BOOLEAN]]
ProcessTypes ==
    process \in [ctx : BOOLEAN, group : BOOLEAN, workCtx : BOOLEAN,
                 stage : {"running", "releaseActivity", "releaseRuns", "shutdown", "returned"},
                 servers : [Servers -> {"serving", "failed", "closed"}], noticed : BOOLEAN,
                 kept : SUBSET Claiming, result : {"none", "nil", "workerErr", "serverErr"},
                 work : Nat, breaks : Nat, errors : Nat]

TypeOK == WorkTypes /\ ConnTypes /\ WakeTypes /\ LoopTypes /\ ProcessTypes

\* A process starts with an empty connection and empty channels.
LEMMA InitTypes ==
  ASSUME Wired, Init
  PROVE  TypeOK
<1>1. PICK setup \in Setups :
        /\ work = [l \in Claiming |-> [told |-> 0, silent |-> 0, later |-> 0, timers |-> 0]]
        /\ conn = [state |-> "down", sent |-> [c \in setup.inputs \ LocalInputs |-> 0]]
        /\ wakes = [i \in setup.inputs |-> [buffer |-> 0, hand |-> FALSE]]
        /\ merged = [l \in Claiming |-> 0]
        /\ loop = [l \in Loops |-> [pc |-> IF l \in setup.loops THEN "poll" ELSE "done",
                                    claim |-> "none", failed |-> FALSE]]
        /\ process = [ctx |-> FALSE, group |-> FALSE, workCtx |-> FALSE, stage |-> "running",
                      servers |-> [s \in setup.servers |-> "serving"], noticed |-> FALSE,
                      kept |-> {}, result |-> "none",
                      work |-> setup.work, breaks |-> setup.breaks, errors |-> setup.errors]
  BY DEF Init
<1>2. WorkTypes /\ LoopTypes
  BY <1>1 DEF WorkTypes, LoopTypes
<1>3. Inputs = setup.inputs /\ Channels = setup.inputs \ LocalInputs
  BY <1>1 DEF Inputs, Channels
<1>4. ConnTypes /\ WakeTypes
  BY <1>1, <1>3 DEF ConnTypes, WakeTypes
<1>5. Servers = setup.servers
  BY <1>1 DEF Servers
<1>6. ProcessTypes
  BY <1>1, <1>5 DEF ProcessTypes, Wired
<1>7. QED
  BY <1>2, <1>4, <1>6 DEF TypeOK

\* What is sent reaches the connection or is lost.
LEMMA Notified ==
  ASSUME ConnTypes, NEW channel
  PROVE  /\ Notify(channel).state = conn.state
         /\ Notify(channel) \in [state : {"down", "listening", "healthy", "up", "dead", "stopped"},
                                 sent : [Channels -> Nat]]
         /\ \A c \in Channels : Notify(channel).sent[c] >= conn.sent[c]
         /\ conn.state = "up" /\ channel \in Channels => Notify(channel).sent[channel] > 0
BY DEF ConnTypes, Notify, Listening

\* What is pushed is in the channel, which may have been full.
LEMMA Pushed ==
  ASSUME Wired, WakeTypes, NEW inputs
  PROVE  /\ DOMAIN Push(inputs) = Inputs
         /\ Push(inputs) \in [Inputs -> [buffer : Nat, hand : BOOLEAN]]
         /\ \A i \in Inputs : /\ Push(inputs)[i].buffer >= wakes[i].buffer
                              /\ Push(inputs)[i].hand = wakes[i].hand
                              /\ i \in inputs => Push(inputs)[i].buffer > 0
<1>1. \A i \in Inputs : Capacity(i) \in Nat \ {0}
  BY DEF Capacity, Wired
<1>2. QED
  BY <1>1 DEF Push, WakeTypes

\* The parts of the state keep their shape, each under the actions that touch it.
LEMMA WorkStays ==
  ASSUME TypeOK, Next
  PROVE  WorkTypes'
<1>0. WorkTypes
  BY DEF TypeOK
<1>1. CASE \E c \in Channels : Arrives(c)
  BY <1>0, <1>1 DEF WorkTypes, Arrives, Claiming, LoopOf
<1>2. CASE \E l \in Claiming : BecomesClaimable(l)
  BY <1>0, <1>2 DEF WorkTypes, BecomesClaimable, Claiming, LoopOf
<1>3. CASE RetryDue
  BY <1>0, <1>3 DEF WorkTypes, RetryDue, Claiming, LoopOf
<1>4. CASE RetryTimer
  BY <1>0, <1>4 DEF WorkTypes, RetryTimer, Claiming, LoopOf
<1>5. CASE \E l \in Loops : Claim(l)
  BY <1>0, <1>5 DEF WorkTypes, Claim, Claiming, LoopOf
<1>6. CASE OutcomeStored
  BY <1>0, <1>6 DEF WorkTypes, OutcomeStored, Claiming, LoopOf
<1>7. CASE RetryScheduled
  BY <1>0, <1>7 DEF WorkTypes, RetryScheduled, Claiming, LoopOf
<1>8. CASE \E ok \in BOOLEAN : ReleaseActivityTasks(ok)
  BY <1>0, <1>8 DEF WorkTypes, ReleaseActivityTasks, Claiming, LoopOf, Release
<1>9. CASE \E ok \in BOOLEAN : ReleaseRuns(ok)
  BY <1>0, <1>9 DEF WorkTypes, ReleaseRuns, Claiming, LoopOf, Release
<1>10. ASSUME UNCHANGED work
  PROVE  WorkTypes'
  BY <1>0, <1>10 DEF WorkTypes
<1>11. QED
  BY <1>1, <1>2, <1>3, <1>4, <1>5, <1>6, <1>7, <1>8, <1>9, <1>10
  DEF Next, ListenerNext, LoopNext, RunNext,
      Connect, MarkHealthy, WakeAll, Receive, Reconnect, ListenerStops, Take, Forward, Break,
      FindsNothing, Interrupted, IntervalEnds, IsWoken, LoopStops, IterationFails,
      ActivationEnds, Cancel, ServerFails, GraceEnds, ServersDone, BeginRelease,
      ShutdownServers

LEMMA ServersStay ==
  ASSUME TypeOK, Next
  PROVE  Servers' = Servers
<1>0. ProcessTypes
  BY DEF TypeOK
<1>1. CASE \E c \in Channels : Arrives(c)
  BY <1>0, <1>1 DEF ProcessTypes, Servers, Arrives
<1>2. CASE \E l \in Claiming : BecomesClaimable(l)
  BY <1>0, <1>2 DEF ProcessTypes, Servers, BecomesClaimable
<1>3. CASE Break
  BY <1>0, <1>3 DEF ProcessTypes, Servers, Break
<1>4. CASE \E l \in Loops : IterationFails(l)
  BY <1>0, <1>4 DEF ProcessTypes, Servers, IterationFails
<1>5. CASE RetryScheduled
  BY <1>0, <1>5 DEF ProcessTypes, Servers, RetryScheduled
<1>6. CASE Cancel
  BY <1>0, <1>6 DEF ProcessTypes, Servers, Cancel
<1>7. CASE \E s \in Servers : ServerFails(s)
  BY <1>0, <1>7 DEF ProcessTypes, Servers, ServerFails
<1>8. CASE GraceEnds
  BY <1>0, <1>8 DEF ProcessTypes, Servers, GraceEnds
<1>9. CASE ServersDone
  BY <1>0, <1>9 DEF ProcessTypes, Servers, ServersDone
<1>10. CASE BeginRelease
  BY <1>0, <1>10 DEF ProcessTypes, Servers, BeginRelease
<1>11. CASE \E ok \in BOOLEAN : ReleaseActivityTasks(ok)
  BY <1>0, <1>11 DEF ProcessTypes, Servers, ReleaseActivityTasks, Release
<1>12. CASE \E ok \in BOOLEAN : ReleaseRuns(ok)
  BY <1>0, <1>12 DEF ProcessTypes, Servers, ReleaseRuns, Release
<1>13. CASE ShutdownServers
  BY <1>0, <1>13 DEF ProcessTypes, Servers, ShutdownServers
<1>14. ASSUME UNCHANGED process
  PROVE  Servers' = Servers
  BY <1>0, <1>14 DEF ProcessTypes, Servers
<1>15. QED
  BY <1>1, <1>2, <1>3, <1>4, <1>5, <1>6, <1>7, <1>8, <1>9, <1>10, <1>11, <1>12, <1>13, <1>14
  DEF Next, ListenerNext, LoopNext, RunNext,
      RetryDue, RetryTimer, Connect, MarkHealthy, WakeAll, Receive, Reconnect, ListenerStops,
      Take, Forward, Claim, FindsNothing, Interrupted, IntervalEnds, IsWoken, LoopStops,
      ActivationEnds, OutcomeStored

LEMMA ProcessStays ==
  ASSUME TypeOK, Next
  PROVE  ProcessTypes'
<1>0. ProcessTypes /\ Servers' = Servers
  BY ServersStay DEF TypeOK
<1>1. CASE \E c \in Channels : Arrives(c)
  BY <1>0, <1>1 DEF ProcessTypes, Arrives
<1>2. CASE \E l \in Claiming : BecomesClaimable(l)
  BY <1>0, <1>2 DEF ProcessTypes, BecomesClaimable
<1>3. CASE Break
  <2>1. process' = [process EXCEPT !.breaks = @ - 1] /\ process.breaks > 0
    BY <1>3 DEF Break
  <2>2. QED
    BY <1>0, <2>1 DEF ProcessTypes
<1>4. CASE \E l \in Loops : IterationFails(l)
  <2>1. PICK left \in Nat : process' = [process EXCEPT !.errors = left, !.group = TRUE]
    <3>1. process.errors - 1 \in Nat
      BY <1>0, <1>4 DEF ProcessTypes, IterationFails
    <3>2. process' = [process EXCEPT !.errors = process.errors - 1, !.group = TRUE]
      BY Zenon, <1>4 DEF IterationFails
    <3>3. QED
      BY <3>1, <3>2
  <2>2. QED
    BY <1>0, <2>1 DEF ProcessTypes
<1>5. CASE RetryScheduled
  BY <1>0, <1>5 DEF ProcessTypes, RetryScheduled
<1>6. CASE Cancel
  BY <1>0, <1>6 DEF ProcessTypes, Cancel
<1>7. CASE \E s \in Servers : ServerFails(s)
  BY <1>0, <1>7 DEF ProcessTypes, ServerFails
<1>8. CASE GraceEnds
  BY <1>0, <1>8 DEF ProcessTypes, GraceEnds
<1>9. CASE ServersDone
  BY <1>0, <1>9 DEF ProcessTypes, ServersDone
<1>10. CASE BeginRelease
  BY <1>0, <1>10 DEF ProcessTypes, BeginRelease
<1>11. CASE \E ok \in BOOLEAN : ReleaseActivityTasks(ok)
  <2>1. PICK kept \in SUBSET Claiming :
          process' = [process EXCEPT !.stage = "releaseRuns", !.kept = kept]
    <3>1. PICK ok \in BOOLEAN : ReleaseActivityTasks(ok)
      BY <1>11
    <3>2. CASE ok
      BY <1>0, <3>1, <3>2 DEF ProcessTypes, ReleaseActivityTasks, Release
    <3>3. CASE ~ok
      <4>1. process' = [process EXCEPT !.stage = "releaseRuns", !.kept = process.kept \cup {"activity"}]
        BY <1>0, <3>1, <3>3 DEF ProcessTypes, ReleaseActivityTasks, Release
      <4>2. QED
        BY <1>0, <4>1 DEF ProcessTypes, Claiming
    <3>4. QED
      BY <3>2, <3>3
  <2>2. QED
    BY <1>0, <2>1 DEF ProcessTypes
<1>12. CASE \E ok \in BOOLEAN : ReleaseRuns(ok)
  <2>1. PICK kept \in SUBSET Claiming :
          process' = [process EXCEPT !.stage = "shutdown", !.kept = kept]
    <3>1. PICK ok \in BOOLEAN : ReleaseRuns(ok)
      BY <1>12
    <3>2. CASE ok
      BY <1>0, <3>1, <3>2 DEF ProcessTypes, ReleaseRuns, Release
    <3>3. CASE ~ok
      <4>1. process' = [process EXCEPT !.stage = "shutdown", !.kept = process.kept \cup {"workflow"}]
        BY <1>0, <3>1, <3>3 DEF ProcessTypes, ReleaseRuns, Release
      <4>2. QED
        BY <1>0, <4>1 DEF ProcessTypes, Claiming
    <3>4. QED
      BY <3>2, <3>3
  <2>2. QED
    BY <1>0, <2>1 DEF ProcessTypes
<1>13. CASE ShutdownServers
  BY <1>0, <1>13 DEF ProcessTypes, ShutdownServers
<1>14. ASSUME UNCHANGED process
  PROVE  ProcessTypes'
  BY <1>0, <1>14 DEF ProcessTypes
<1>15. QED
  BY <1>1, <1>2, <1>3, <1>4, <1>5, <1>6, <1>7, <1>8, <1>9, <1>10, <1>11, <1>12, <1>13, <1>14
  DEF Next, ListenerNext, LoopNext, RunNext,
      RetryDue, RetryTimer, Connect, MarkHealthy, WakeAll, Receive, Reconnect, ListenerStops,
      Take, Forward, Claim, FindsNothing, Interrupted, IntervalEnds, IsWoken, LoopStops,
      ActivationEnds, OutcomeStored

\* After an iteration a loop polls or ends; nothing happens to the others.
LEMMA PollsOn ==
  ASSUME LoopTypes, NEW l \in Loops
  PROVE  /\ Polls(l) \in [Loops -> [pc : {"poll", "wait", "busy", "done"},
                                  claim : {"none", "held"}, failed : BOOLEAN]]
         /\ \A m \in Loops : /\ Polls(l)[m].failed = loop[m].failed
                             /\ m # l => Polls(l)[m] = loop[m]
         /\ Polls(l)[l].pc \in {"poll", "done"}
<1>1. CASE process.group
  BY <1>1 DEF LoopTypes, Polls
<1>2. CASE ~process.group
  BY <1>2 DEF LoopTypes, Polls
<1>3. QED
  BY <1>1, <1>2

LEMMA LoopsStay ==
  ASSUME TypeOK, Next
  PROVE  LoopTypes'
<1>0. LoopTypes
  BY DEF TypeOK
<1>1. CASE \E l \in Loops : Claim(l)
  BY <1>0, <1>1 DEF LoopTypes, Claim, Loops, Claiming
<1>2. CASE \E l \in Loops : FindsNothing(l)
  <2>1. PICK l \in Loops, pc \in {"wait", "done"} : loop' = [loop EXCEPT ![l].pc = pc]
    <3>1. CASE process.group
      BY <1>2, <3>1 DEF FindsNothing
    <3>2. CASE ~process.group
      BY <1>2, <3>2 DEF FindsNothing
    <3>3. QED
      BY <3>1, <3>2
  <2>2. QED
    BY <1>0, <2>1 DEF LoopTypes
<1>3. CASE \E l \in Loops : Interrupted(l)
  BY <1>0, <1>3 DEF LoopTypes, Interrupted, Loops, Claiming
<1>4. CASE \E l \in Loops : IntervalEnds(l)
  BY <1>0, <1>4 DEF LoopTypes, IntervalEnds, Loops, Claiming
<1>5. CASE \E l \in Loops : IsWoken(l)
  BY <1>0, <1>5 DEF LoopTypes, IsWoken, Loops, Claiming
<1>6. CASE \E l \in Loops : LoopStops(l)
  BY <1>0, <1>6 DEF LoopTypes, LoopStops, Loops, Claiming
<1>7. CASE \E l \in Loops : IterationFails(l)
  <2>1. PICK l \in Loops : IterationFails(l)
    BY <1>7
  <2>2. PICK failed \in BOOLEAN : loop' = [loop EXCEPT ![l].pc = "done", ![l].failed = failed]
    <3>1. CASE process.group
      BY <2>1, <3>1 DEF IterationFails
    <3>2. CASE ~process.group
      BY <2>1, <3>2 DEF IterationFails
    <3>3. QED
      BY <3>1, <3>2
  <2>3. QED
    BY <1>0, <2>2 DEF LoopTypes
<1>8. CASE ActivationEnds
  BY <1>0, <1>8, PollsOn DEF LoopTypes, ActivationEnds, Loops, Claiming
<1>9. CASE OutcomeStored
  BY <1>0, <1>9, PollsOn DEF LoopTypes, OutcomeStored, Loops, Claiming
<1>10. CASE RetryScheduled
  BY <1>0, <1>10, PollsOn DEF LoopTypes, RetryScheduled, Loops, Claiming
<1>11. CASE \E ok \in BOOLEAN : ReleaseActivityTasks(ok)
  BY <1>0, <1>11 DEF LoopTypes, ReleaseActivityTasks, Release, Loops, Claiming
<1>12. CASE \E ok \in BOOLEAN : ReleaseRuns(ok)
  BY <1>0, <1>12 DEF LoopTypes, ReleaseRuns, Release, Loops, Claiming
<1>13. ASSUME UNCHANGED loop
  PROVE  LoopTypes'
  BY <1>0, <1>13 DEF LoopTypes
<1>14. QED
  BY <1>1, <1>2, <1>3, <1>4, <1>5, <1>6, <1>7, <1>8, <1>9, <1>10, <1>11, <1>12, <1>13
  DEF Next, ListenerNext, LoopNext, RunNext,
      Arrives, BecomesClaimable, RetryDue, RetryTimer, Connect, MarkHealthy, WakeAll, Receive,
      Reconnect, ListenerStops, Take, Forward, Break, Cancel, ServerFails, GraceEnds,
      ServersDone, BeginRelease, ShutdownServers

LEMMA InputsStay ==
  ASSUME Wired, TypeOK, Next
  PROVE  WakeTypes' /\ Inputs' = Inputs /\ Channels' = Channels
<1>0. WakeTypes
  BY DEF TypeOK
<1>1. CASE RetryTimer
  BY <1>0, <1>1, Pushed DEF WakeTypes, Inputs, Claiming, LoopOf, Channels, RetryTimer
<1>2. CASE WakeAll
  BY <1>0, <1>2, Pushed DEF WakeTypes, Inputs, Claiming, LoopOf, Channels, WakeAll
<1>3. CASE \E c \in Channels : Receive(c)
  BY <1>0, <1>3, Pushed DEF WakeTypes, Inputs, Claiming, LoopOf, Channels, Receive
<1>4. CASE \E i \in Inputs : Take(i)
  BY <1>0, <1>4 DEF WakeTypes, Inputs, Claiming, LoopOf, Channels, Take
<1>5. CASE \E i \in Inputs : Forward(i)
  <2>1. PICK i \in Inputs : Forward(i)
    BY <1>5
  <2>2. wakes' = [wakes EXCEPT ![i].hand = FALSE] /\ merged' = [merged EXCEPT ![LoopOf(i)] = 1]
    BY <2>1 DEF Forward
  <2>3. wakes' \in [Inputs -> [buffer : Nat, hand : BOOLEAN]] /\ Inputs' = Inputs
    BY <1>0, <2>2 DEF WakeTypes, Inputs
  <2>4. merged' \in [Claiming -> {0, 1}]
    BY <1>0, <2>2 DEF WakeTypes, LoopOf, Claiming
  <2>5. QED
    BY <2>3, <2>4 DEF WakeTypes, Channels
<1>6. CASE \E l \in Loops : IsWoken(l)
  BY <1>0, <1>6 DEF WakeTypes, Inputs, Claiming, LoopOf, Channels, IsWoken
<1>7. CASE OutcomeStored
  BY <1>0, <1>7, Pushed DEF WakeTypes, Inputs, Claiming, LoopOf, Channels, OutcomeStored
<1>8. ASSUME UNCHANGED <<wakes, merged>>
  PROVE  WakeTypes' /\ Inputs' = Inputs /\ Channels' = Channels
  BY <1>0, <1>8 DEF WakeTypes, Inputs, Claiming, LoopOf, Channels
<1>9. QED
  BY <1>1, <1>2, <1>3, <1>4, <1>5, <1>6, <1>7, <1>8
  DEF Next, ListenerNext, LoopNext, RunNext,
      Arrives, BecomesClaimable, RetryDue, Connect, MarkHealthy, Reconnect, ListenerStops,
      Break, Claim, FindsNothing, Interrupted, IntervalEnds, LoopStops, IterationFails,
      ActivationEnds, RetryScheduled, Cancel, ServerFails, GraceEnds, ServersDone, BeginRelease,
      ReleaseActivityTasks, ReleaseRuns, ShutdownServers, Release

LEMMA ConnStays ==
  ASSUME Wired, TypeOK, Next
  PROVE  ConnTypes'
<1>0. ConnTypes /\ Channels' = Channels
  BY InputsStay DEF TypeOK
<1>1. CASE \E c \in Channels : Arrives(c)
  BY <1>0, <1>1, Notified DEF ConnTypes, Arrives
<1>2. CASE Connect
  BY <1>0, <1>2 DEF ConnTypes, Connect
<1>3. CASE MarkHealthy
  BY <1>0, <1>3 DEF ConnTypes, MarkHealthy
<1>4. CASE WakeAll
  BY <1>0, <1>4 DEF ConnTypes, WakeAll
<1>5. CASE \E c \in Channels : Receive(c)
  BY <1>0, <1>5 DEF ConnTypes, Receive
<1>6. CASE Reconnect
  BY <1>0, <1>6 DEF ConnTypes, Reconnect
<1>7. CASE ListenerStops
  BY <1>0, <1>7 DEF ConnTypes, ListenerStops
<1>8. CASE Break
  BY <1>0, <1>8 DEF ConnTypes, Break
<1>9. CASE OutcomeStored
  BY <1>0, <1>9, Notified DEF ConnTypes, OutcomeStored
<1>10. ASSUME UNCHANGED conn
  PROVE  ConnTypes'
  BY <1>0, <1>10 DEF ConnTypes
<1>11. QED
  BY <1>1, <1>2, <1>3, <1>4, <1>5, <1>6, <1>7, <1>8, <1>9, <1>10
  DEF Next, ListenerNext, LoopNext, RunNext,
      BecomesClaimable, RetryDue, RetryTimer, Take, Forward, Claim, FindsNothing, Interrupted,
      IntervalEnds, IsWoken, LoopStops, IterationFails, ActivationEnds, RetryScheduled, Cancel,
      ServerFails, GraceEnds, ServersDone, BeginRelease, ReleaseActivityTasks, ReleaseRuns,
      ShutdownServers, Release

\* All of them together.
LEMMA TypesGoOn ==
  ASSUME Wired, TypeOK, Next
  PROVE  TypeOK'
BY WorkStays, ConnStays, InputsStay, LoopsStay, ProcessStays DEF TypeOK

(***************************************************************************)
(* The end.                                                                *)
(***************************************************************************)

\* A process that is to stop has a reason to, and releases when its loops have ended.
Ending ==
    /\ process.stage # "running" => conn.state = "stopped" /\ \A l \in Loops : loop[l].pc = "done"
    /\ conn.state = "stopped" => process.group
    /\ \A l \in Loops : loop[l].failed => loop[l].pc = "done"
    /\ process.group => process.ctx \/ process.noticed \/ \E l \in Loops : loop[l].failed
    /\ process.noticed => \E s \in Servers : process.servers[s] = "failed"

\* What is released by a stage, and what Run answers.
Released ==
    /\ process.stage \in {"releaseRuns", "shutdown", "returned"} /\ loop["activity"].claim = "held" =>
          "activity" \in process.kept
    /\ process.stage \in {"shutdown", "returned"} /\ loop["workflow"].claim = "held" =>
          "workflow" \in process.kept
Answered ==
    process.stage = "returned" =>
        ((process.result = "nil") <=> process.ctx /\ \A l \in Loops : ~loop[l].failed)

\* A loop that has ended has ended, with its failure, and claims no more.
LEMMA ALoopEnds ==
  ASSUME TypeOK, Ending, Next, NEW m \in Loops
  PROVE  /\ loop[m].failed => loop'[m].failed
         /\ loop[m].pc = "done" => /\ loop'[m].pc = "done" /\ loop'[m].failed = loop[m].failed
                                   /\ loop'[m].claim = "held" => loop[m].claim = "held"
<1>0. LoopTypes /\ (loop[m].failed => loop[m].pc = "done")
  BY DEF TypeOK, Ending
<1>1. CASE \E l \in Loops : Claim(l)
  BY <1>0, <1>1 DEF LoopTypes, Claim, Loops, Claiming
<1>2. CASE \E l \in Loops : FindsNothing(l)
  BY <1>0, <1>2 DEF LoopTypes, FindsNothing, Loops, Claiming
<1>3. CASE \E l \in Loops : Interrupted(l)
  BY <1>0, <1>3 DEF LoopTypes, Interrupted, Loops, Claiming
<1>4. CASE \E l \in Loops : IntervalEnds(l)
  BY <1>0, <1>4 DEF LoopTypes, IntervalEnds, Loops, Claiming
<1>5. CASE \E l \in Loops : IsWoken(l)
  BY <1>0, <1>5 DEF LoopTypes, IsWoken, Loops, Claiming
<1>6. CASE \E l \in Loops : LoopStops(l)
  BY <1>0, <1>6 DEF LoopTypes, LoopStops, Loops, Claiming
<1>7. CASE \E l \in Loops : IterationFails(l)
  BY <1>0, <1>7 DEF LoopTypes, IterationFails, Loops, Claiming
<1>8. CASE ActivationEnds
  BY <1>0, <1>8 DEF LoopTypes, ActivationEnds, Loops, Claiming, Polls
<1>9. CASE OutcomeStored
  BY <1>0, <1>9 DEF LoopTypes, OutcomeStored, Loops, Claiming, Polls
<1>10. CASE RetryScheduled
  BY <1>0, <1>10 DEF LoopTypes, RetryScheduled, Loops, Claiming, Polls
<1>11. CASE \E ok \in BOOLEAN : ReleaseActivityTasks(ok)
  BY <1>0, <1>11 DEF LoopTypes, ReleaseActivityTasks, Release, Loops, Claiming
<1>12. CASE \E ok \in BOOLEAN : ReleaseRuns(ok)
  BY <1>0, <1>12 DEF LoopTypes, ReleaseRuns, Release, Loops, Claiming
<1>13. ASSUME UNCHANGED loop
  PROVE  /\ loop[m].failed => loop'[m].failed
         /\ loop[m].pc = "done" => /\ loop'[m].pc = "done" /\ loop'[m].failed = loop[m].failed
                                   /\ loop'[m].claim = "held" => loop[m].claim = "held"
  BY <1>0, <1>13 DEF LoopTypes
<1>14. QED
  BY <1>1, <1>2, <1>3, <1>4, <1>5, <1>6, <1>7, <1>8, <1>9, <1>10, <1>11, <1>12, <1>13
  DEF Next, ListenerNext, LoopNext, RunNext,
      Arrives, BecomesClaimable, RetryDue, RetryTimer, Connect, MarkHealthy, WakeAll, Receive,
      Reconnect, ListenerStops, Take, Forward, Break, Cancel, ServerFails, GraceEnds,
      ServersDone, BeginRelease, ShutdownServers

\* What may happen to the process.
LEMMA ProcessSteps ==
  ASSUME TypeOK, Next
  PROVE  /\ process.ctx => process'.ctx
         /\ process'.ctx => process.ctx \/ process.stage # "returned"
         /\ process.group => process'.group
         /\ process.noticed => process'.noticed
         /\ process.kept \subseteq process'.kept
         /\ process.stage = "running" => process'.stage \in {"running", "releaseActivity"}
         /\ process.stage = "releaseActivity" => process'.stage \in {"releaseActivity", "releaseRuns"}
         /\ process.stage = "releaseRuns" => process'.stage \in {"releaseRuns", "shutdown"}
         /\ process.stage = "shutdown" => process'.stage \in {"shutdown", "returned"}
         /\ process.stage = "returned" => process'.stage = "returned" /\ process'.result = process.result
<1>0. ProcessTypes
  BY DEF TypeOK
<1>1. CASE \E c \in Channels : Arrives(c)
  BY <1>0, <1>1 DEF ProcessTypes, Arrives
<1>2. CASE \E l \in Claiming : BecomesClaimable(l)
  BY <1>0, <1>2 DEF ProcessTypes, BecomesClaimable
<1>3. CASE Break
  BY <1>0, <1>3 DEF ProcessTypes, Break
<1>4. CASE \E l \in Loops : IterationFails(l)
  BY <1>0, <1>4 DEF ProcessTypes, IterationFails
<1>5. CASE RetryScheduled
  BY <1>0, <1>5 DEF ProcessTypes, RetryScheduled
<1>6. CASE Cancel
  BY <1>0, <1>6 DEF ProcessTypes, Cancel
<1>7. CASE \E s \in Servers : ServerFails(s)
  BY <1>0, <1>7 DEF ProcessTypes, ServerFails
<1>8. CASE GraceEnds
  BY <1>0, <1>8 DEF ProcessTypes, GraceEnds
<1>9. CASE ServersDone
  BY <1>0, <1>9 DEF ProcessTypes, ServersDone
<1>10. CASE BeginRelease
  BY <1>0, <1>10 DEF ProcessTypes, BeginRelease
<1>11. CASE \E ok \in BOOLEAN : ReleaseActivityTasks(ok)
  BY <1>0, <1>11 DEF ProcessTypes, ReleaseActivityTasks, Release
<1>12. CASE \E ok \in BOOLEAN : ReleaseRuns(ok)
  BY <1>0, <1>12 DEF ProcessTypes, ReleaseRuns, Release
<1>13. CASE ShutdownServers
  BY <1>0, <1>13 DEF ProcessTypes, ShutdownServers
<1>14. ASSUME UNCHANGED process
  PROVE  /\ process.ctx => process'.ctx
         /\ process'.ctx => process.ctx \/ process.stage # "returned"
         /\ process.group => process'.group
         /\ process.noticed => process'.noticed
         /\ process.kept \subseteq process'.kept
         /\ process.stage = "running" => process'.stage \in {"running", "releaseActivity"}
         /\ process.stage = "releaseActivity" => process'.stage \in {"releaseActivity", "releaseRuns"}
         /\ process.stage = "releaseRuns" => process'.stage \in {"releaseRuns", "shutdown"}
         /\ process.stage = "shutdown" => process'.stage \in {"shutdown", "returned"}
         /\ process.stage = "returned" => process'.stage = "returned" /\ process'.result = process.result
  BY <1>0, <1>14 DEF ProcessTypes
<1>15. QED
  BY <1>1, <1>2, <1>3, <1>4, <1>5, <1>6, <1>7, <1>8, <1>9, <1>10, <1>11, <1>12, <1>13, <1>14
  DEF Next, ListenerNext, LoopNext, RunNext,
      RetryDue, RetryTimer, Connect, MarkHealthy, WakeAll, Receive, Reconnect, ListenerStops,
      Take, Forward, Claim, FindsNothing, Interrupted, IntervalEnds, IsWoken, LoopStops,
      ActivationEnds, OutcomeStored

\* A server that has failed stays failed.
LEMMA ServersSteps ==
  ASSUME TypeOK, Next
  PROVE  \A s \in Servers : process.servers[s] = "failed" => process'.servers[s] = "failed"
<1>0. ProcessTypes
  BY DEF TypeOK
<1>1. CASE \E c \in Channels : Arrives(c)
  BY <1>0, <1>1 DEF ProcessTypes, Arrives
<1>2. CASE \E l \in Claiming : BecomesClaimable(l)
  BY <1>0, <1>2 DEF ProcessTypes, BecomesClaimable
<1>3. CASE Break
  BY <1>0, <1>3 DEF ProcessTypes, Break
<1>4. CASE \E l \in Loops : IterationFails(l)
  BY <1>0, <1>4 DEF ProcessTypes, IterationFails
<1>5. CASE RetryScheduled
  BY <1>0, <1>5 DEF ProcessTypes, RetryScheduled
<1>6. CASE Cancel
  BY <1>0, <1>6 DEF ProcessTypes, Cancel
<1>7. CASE \E s \in Servers : ServerFails(s)
  BY <1>0, <1>7 DEF ProcessTypes, ServerFails
<1>8. CASE GraceEnds
  BY <1>0, <1>8 DEF ProcessTypes, GraceEnds
<1>9. CASE ServersDone
  BY <1>0, <1>9 DEF ProcessTypes, ServersDone
<1>10. CASE BeginRelease
  BY <1>0, <1>10 DEF ProcessTypes, BeginRelease
<1>11. CASE \E ok \in BOOLEAN : ReleaseActivityTasks(ok)
  BY <1>0, <1>11 DEF ProcessTypes, ReleaseActivityTasks, Release
<1>12. CASE \E ok \in BOOLEAN : ReleaseRuns(ok)
  BY <1>0, <1>12 DEF ProcessTypes, ReleaseRuns, Release
<1>13. CASE ShutdownServers
  BY <1>0, <1>13 DEF ProcessTypes, ShutdownServers
<1>14. ASSUME UNCHANGED process
  PROVE  \A s \in Servers : process.servers[s] = "failed" => process'.servers[s] = "failed"
  BY <1>0, <1>14 DEF ProcessTypes
<1>15. QED
  BY <1>1, <1>2, <1>3, <1>4, <1>5, <1>6, <1>7, <1>8, <1>9, <1>10, <1>11, <1>12, <1>13, <1>14
  DEF Next, ListenerNext, LoopNext, RunNext,
      RetryDue, RetryTimer, Connect, MarkHealthy, WakeAll, Receive, Reconnect, ListenerStops,
      Take, Forward, Claim, FindsNothing, Interrupted, IntervalEnds, IsWoken, LoopStops,
      ActivationEnds, OutcomeStored

\* The group is cancelled, and the servers are noticed, for a reason.
LEMMA GroupSteps ==
  ASSUME TypeOK, Next
  PROVE  /\ process'.group => \/ process.group \/ process'.ctx \/ process'.noticed
                             \/ \E l \in Loops : loop'[l].failed
<1>0. ProcessTypes /\ LoopTypes
  BY DEF TypeOK
<1>1. CASE \E c \in Channels : Arrives(c)
  BY <1>0, <1>1 DEF ProcessTypes, Arrives
<1>2. CASE \E l \in Claiming : BecomesClaimable(l)
  BY <1>0, <1>2 DEF ProcessTypes, BecomesClaimable
<1>3. CASE Break
  BY <1>0, <1>3 DEF ProcessTypes, Break
<1>4. CASE \E l \in Loops : IterationFails(l)
  <2>1. PICK l \in Loops : IterationFails(l)
    BY <1>4
  <2>2. CASE process.group
    BY <2>2
  <2>3. CASE ~process.group
    <3>1. loop' = [loop EXCEPT ![l].pc = "done", ![l].failed = TRUE]
      BY <2>1, <2>3 DEF IterationFails
    <3>2. loop'[l].failed
      BY <1>0, <3>1 DEF LoopTypes
    <3>3. QED
      BY <3>2
  <2>4. QED
    BY <2>2, <2>3
<1>5. CASE RetryScheduled
  BY <1>0, <1>5 DEF ProcessTypes, RetryScheduled
<1>6. CASE Cancel
  BY <1>0, <1>6 DEF ProcessTypes, Cancel
<1>7. CASE \E s \in Servers : ServerFails(s)
  BY <1>0, <1>7 DEF ProcessTypes, ServerFails
<1>8. CASE GraceEnds
  BY <1>0, <1>8 DEF ProcessTypes, GraceEnds
<1>9. CASE ServersDone
  BY <1>0, <1>9 DEF ProcessTypes, ServersDone
<1>10. CASE BeginRelease
  BY <1>0, <1>10 DEF ProcessTypes, BeginRelease
<1>11. CASE \E ok \in BOOLEAN : ReleaseActivityTasks(ok)
  BY <1>0, <1>11 DEF ProcessTypes, ReleaseActivityTasks, Release
<1>12. CASE \E ok \in BOOLEAN : ReleaseRuns(ok)
  BY <1>0, <1>12 DEF ProcessTypes, ReleaseRuns, Release
<1>13. CASE ShutdownServers
  BY <1>0, <1>13 DEF ProcessTypes, ShutdownServers
<1>14. ASSUME UNCHANGED process
  PROVE  /\ process'.group => \/ process.group \/ process'.ctx \/ process'.noticed
                             \/ \E l \in Loops : loop'[l].failed
  BY <1>0, <1>14 DEF ProcessTypes
<1>15. QED
  BY <1>1, <1>2, <1>3, <1>4, <1>5, <1>6, <1>7, <1>8, <1>9, <1>10, <1>11, <1>12, <1>13, <1>14
  DEF Next, ListenerNext, LoopNext, RunNext,
      RetryDue, RetryTimer, Connect, MarkHealthy, WakeAll, Receive, Reconnect, ListenerStops,
      Take, Forward, Claim, FindsNothing, Interrupted, IntervalEnds, IsWoken, LoopStops,
      ActivationEnds, OutcomeStored

\* The servers are noticed when one has failed, and the release begins when all have ended.
LEMMA NoticedSteps ==
  ASSUME TypeOK, Next
  PROVE  /\ process'.noticed => process.noticed \/ \E s \in Servers : process'.servers[s] = "failed"
         /\ process'.stage # "running" => process.stage # "running" \/ WorkersDone
<1>0. ProcessTypes
  BY DEF TypeOK
<1>1. CASE \E c \in Channels : Arrives(c)
  BY <1>0, <1>1 DEF ProcessTypes, Arrives
<1>2. CASE \E l \in Claiming : BecomesClaimable(l)
  BY <1>0, <1>2 DEF ProcessTypes, BecomesClaimable
<1>3. CASE Break
  BY <1>0, <1>3 DEF ProcessTypes, Break
<1>4. CASE \E l \in Loops : IterationFails(l)
  BY <1>0, <1>4 DEF ProcessTypes, IterationFails
<1>5. CASE RetryScheduled
  BY <1>0, <1>5 DEF ProcessTypes, RetryScheduled
<1>6. CASE Cancel
  BY <1>0, <1>6 DEF ProcessTypes, Cancel
<1>7. CASE \E s \in Servers : ServerFails(s)
  BY <1>0, <1>7 DEF ProcessTypes, ServerFails
<1>8. CASE GraceEnds
  BY <1>0, <1>8 DEF ProcessTypes, GraceEnds
<1>9. CASE ServersDone
  BY <1>0, <1>9 DEF ProcessTypes, ServersDone
<1>10. CASE BeginRelease
  BY <1>0, <1>10 DEF ProcessTypes, BeginRelease
<1>11. CASE \E ok \in BOOLEAN : ReleaseActivityTasks(ok)
  BY <1>0, <1>11 DEF ProcessTypes, ReleaseActivityTasks, Release
<1>12. CASE \E ok \in BOOLEAN : ReleaseRuns(ok)
  BY <1>0, <1>12 DEF ProcessTypes, ReleaseRuns, Release
<1>13. CASE ShutdownServers
  BY <1>0, <1>13 DEF ProcessTypes, ShutdownServers
<1>14. ASSUME UNCHANGED process
  PROVE  /\ process'.noticed => process.noticed \/ \E s \in Servers : process'.servers[s] = "failed"
         /\ process'.stage # "running" => process.stage # "running" \/ WorkersDone
  BY <1>0, <1>14 DEF ProcessTypes
<1>15. QED
  BY <1>1, <1>2, <1>3, <1>4, <1>5, <1>6, <1>7, <1>8, <1>9, <1>10, <1>11, <1>12, <1>13, <1>14
  DEF Next, ListenerNext, LoopNext, RunNext,
      RetryDue, RetryTimer, Connect, MarkHealthy, WakeAll, Receive, Reconnect, ListenerStops,
      Take, Forward, Claim, FindsNothing, Interrupted, IntervalEnds, IsWoken, LoopStops,
      ActivationEnds, OutcomeStored

\* The listener stops for good when the group is cancelled, and is up after its wakeAll.
LEMMA ListenerSteps ==
  ASSUME TypeOK, Next
  PROVE  /\ conn.state = "stopped" => conn'.state = "stopped"
         /\ conn'.state = "stopped" => conn.state = "stopped" \/ process.group
         /\ conn'.state = "up" => conn.state = "up" \/ WakeAll
<1>0. ConnTypes
  BY DEF TypeOK
<1>1. CASE \E c \in Channels : Arrives(c)
  BY <1>0, <1>1, Notified DEF ConnTypes, Arrives
<1>2. CASE Connect
  BY <1>0, <1>2 DEF ConnTypes, Connect
<1>3. CASE MarkHealthy
  BY <1>0, <1>3 DEF ConnTypes, MarkHealthy
<1>4. CASE WakeAll
  BY <1>0, <1>4 DEF ConnTypes, WakeAll
<1>5. CASE \E c \in Channels : Receive(c)
  BY <1>0, <1>5 DEF ConnTypes, Receive
<1>6. CASE Reconnect
  BY <1>0, <1>6 DEF ConnTypes, Reconnect
<1>7. CASE ListenerStops
  BY <1>0, <1>7 DEF ConnTypes, ListenerStops
<1>8. CASE Break
  BY <1>0, <1>8 DEF ConnTypes, Break, Listening
<1>9. CASE OutcomeStored
  BY <1>0, <1>9, Notified DEF ConnTypes, OutcomeStored
<1>10. ASSUME UNCHANGED conn
  PROVE  /\ conn.state = "stopped" => conn'.state = "stopped"
         /\ conn'.state = "stopped" => conn.state = "stopped" \/ process.group
         /\ conn'.state = "up" => conn.state = "up" \/ WakeAll
  BY <1>0, <1>10 DEF ConnTypes
<1>11. QED
  BY <1>1, <1>2, <1>3, <1>4, <1>5, <1>6, <1>7, <1>8, <1>9, <1>10
  DEF Next, ListenerNext, LoopNext, RunNext,
      BecomesClaimable, RetryDue, RetryTimer, Take, Forward, Claim, FindsNothing, Interrupted,
      IntervalEnds, IsWoken, LoopStops, IterationFails, ActivationEnds, RetryScheduled, Cancel,
      ServerFails, GraceEnds, ServersDone, BeginRelease, ReleaseActivityTasks, ReleaseRuns,
      ShutdownServers, Release

\* A loop that fails ends.
LEMMA FailedEnds ==
  ASSUME TypeOK, Ending, Next
  PROVE  \A m \in Loops : loop'[m].failed => loop'[m].pc = "done"
<1>0. LoopTypes /\ \A m \in Loops : loop[m].failed => loop[m].pc = "done"
  BY DEF TypeOK, Ending
<1>1. CASE \E l \in Loops : Claim(l)
  BY <1>0, <1>1 DEF LoopTypes, Claim, Loops, Claiming
<1>2. CASE \E l \in Loops : FindsNothing(l)
  BY <1>0, <1>2 DEF LoopTypes, FindsNothing, Loops, Claiming
<1>3. CASE \E l \in Loops : Interrupted(l)
  BY <1>0, <1>3 DEF LoopTypes, Interrupted, Loops, Claiming
<1>4. CASE \E l \in Loops : IntervalEnds(l)
  BY <1>0, <1>4 DEF LoopTypes, IntervalEnds, Loops, Claiming
<1>5. CASE \E l \in Loops : IsWoken(l)
  BY <1>0, <1>5 DEF LoopTypes, IsWoken, Loops, Claiming
<1>6. CASE \E l \in Loops : LoopStops(l)
  BY <1>0, <1>6 DEF LoopTypes, LoopStops, Loops, Claiming
<1>7. CASE \E l \in Loops : IterationFails(l)
  BY <1>0, <1>7 DEF LoopTypes, IterationFails, Loops, Claiming
<1>8. CASE ActivationEnds
  <2>1. loop' = Polls("workflow") /\ loop["workflow"].pc = "busy" /\ "workflow" \in Loops
    BY <1>8 DEF ActivationEnds, Loops, Claiming
  <2>2. QED
    BY <1>0, <2>1, PollsOn
<1>9. CASE OutcomeStored
  <2>1. loop' = Polls("activity") /\ loop["activity"].pc = "busy" /\ "activity" \in Loops
    BY <1>9 DEF OutcomeStored, Loops, Claiming
  <2>2. QED
    BY <1>0, <2>1, PollsOn
<1>10. CASE RetryScheduled
  <2>1. loop' = Polls("activity") /\ loop["activity"].pc = "busy" /\ "activity" \in Loops
    BY <1>10 DEF RetryScheduled, Loops, Claiming
  <2>2. QED
    BY <1>0, <2>1, PollsOn
<1>11. CASE \E ok \in BOOLEAN : ReleaseActivityTasks(ok)
  BY <1>0, <1>11 DEF LoopTypes, ReleaseActivityTasks, Release, Loops, Claiming
<1>12. CASE \E ok \in BOOLEAN : ReleaseRuns(ok)
  BY <1>0, <1>12 DEF LoopTypes, ReleaseRuns, Release, Loops, Claiming
<1>13. ASSUME UNCHANGED loop
  PROVE  \A m \in Loops : loop'[m].failed => loop'[m].pc = "done"
  BY <1>0, <1>13 DEF LoopTypes
<1>14. QED
  BY <1>1, <1>2, <1>3, <1>4, <1>5, <1>6, <1>7, <1>8, <1>9, <1>10, <1>11, <1>12, <1>13
  DEF Next, ListenerNext, LoopNext, RunNext,
      Arrives, BecomesClaimable, RetryDue, RetryTimer, Connect, MarkHealthy, WakeAll, Receive,
      Reconnect, ListenerStops, Take, Forward, Break, Cancel, ServerFails, GraceEnds,
      ServersDone, BeginRelease, ShutdownServers

\* So a process ends in order.
LEMMA EndingGoesOn ==
  ASSUME TypeOK, Ending, Next
  PROVE  Ending'
<1>0. \A m \in Loops : /\ loop[m].failed => loop'[m].failed
                       /\ loop[m].pc = "done" => loop'[m].pc = "done"
  BY ALoopEnds
<1>1. process'.stage # "running" => conn'.state = "stopped" /\ \A l \in Loops : loop'[l].pc = "done"
  BY NoticedSteps, ListenerSteps, <1>0 DEF Ending, WorkersDone
<1>2. conn'.state = "stopped" => process'.group
  BY ListenerSteps, ProcessSteps DEF Ending
<1>3. \A l \in Loops : loop'[l].failed => loop'[l].pc = "done"
  BY FailedEnds
<1>4. process'.group => process'.ctx \/ process'.noticed \/ \E l \in Loops : loop'[l].failed
  BY GroupSteps, ProcessSteps, <1>0 DEF Ending
<1>5. process'.noticed => \E s \in Servers : process'.servers[s] = "failed"
  BY NoticedSteps, ServersSteps DEF Ending
<1>6. QED
  BY <1>1, <1>2, <1>3, <1>4, <1>5, ServersStay DEF Ending

\* The release of the tasks keeps a claim only if it fails.
LEMMA TasksReleased ==
  ASSUME TypeOK, Next
  PROVE  process.stage = "releaseActivity" /\ process'.stage = "releaseRuns"
           /\ loop'["activity"].claim = "held" => "activity" \in process'.kept
<1>0. ProcessTypes /\ LoopTypes
  BY DEF TypeOK
<1>1. CASE \E c \in Channels : Arrives(c)
  BY <1>0, <1>1 DEF ProcessTypes, LoopTypes, Arrives
<1>2. CASE \E l \in Claiming : BecomesClaimable(l)
  BY <1>0, <1>2 DEF ProcessTypes, LoopTypes, BecomesClaimable
<1>3. CASE Break
  BY <1>0, <1>3 DEF ProcessTypes, LoopTypes, Break
<1>4. CASE \E l \in Loops : IterationFails(l)
  BY <1>0, <1>4 DEF ProcessTypes, LoopTypes, IterationFails
<1>5. CASE RetryScheduled
  BY <1>0, <1>5 DEF ProcessTypes, LoopTypes, RetryScheduled
<1>6. CASE Cancel
  BY <1>0, <1>6 DEF ProcessTypes, LoopTypes, Cancel
<1>7. CASE \E s \in Servers : ServerFails(s)
  BY <1>0, <1>7 DEF ProcessTypes, LoopTypes, ServerFails
<1>8. CASE GraceEnds
  BY <1>0, <1>8 DEF ProcessTypes, LoopTypes, GraceEnds
<1>9. CASE ServersDone
  BY <1>0, <1>9 DEF ProcessTypes, LoopTypes, ServersDone
<1>10. CASE BeginRelease
  BY <1>0, <1>10 DEF ProcessTypes, LoopTypes, BeginRelease
<1>11. CASE \E ok \in BOOLEAN : ReleaseActivityTasks(ok)
  BY <1>0, <1>11 DEF ProcessTypes, LoopTypes, ReleaseActivityTasks, Release, Loops, Claiming
<1>12. CASE \E ok \in BOOLEAN : ReleaseRuns(ok)
  BY <1>0, <1>12 DEF ProcessTypes, LoopTypes, ReleaseRuns, Release, Loops, Claiming
<1>13. CASE ShutdownServers
  BY <1>0, <1>13 DEF ProcessTypes, LoopTypes, ShutdownServers
<1>14. ASSUME UNCHANGED process
  PROVE  process.stage = "releaseActivity" /\ process'.stage = "releaseRuns"
           /\ loop'["activity"].claim = "held" => "activity" \in process'.kept
  BY <1>0, <1>14 DEF ProcessTypes, LoopTypes
<1>15. QED
  BY <1>1, <1>2, <1>3, <1>4, <1>5, <1>6, <1>7, <1>8, <1>9, <1>10, <1>11, <1>12, <1>13, <1>14
  DEF Next, ListenerNext, LoopNext, RunNext,
      RetryDue, RetryTimer, Connect, MarkHealthy, WakeAll, Receive, Reconnect, ListenerStops,
      Take, Forward, Claim, FindsNothing, Interrupted, IntervalEnds, IsWoken, LoopStops,
      ActivationEnds, OutcomeStored

\* And so does that of the runs.
LEMMA RunsReleased ==
  ASSUME TypeOK, Next
  PROVE  process.stage = "releaseRuns" /\ process'.stage = "shutdown"
           /\ loop'["workflow"].claim = "held" => "workflow" \in process'.kept
<1>0. ProcessTypes /\ LoopTypes
  BY DEF TypeOK
<1>1. CASE \E c \in Channels : Arrives(c)
  BY <1>0, <1>1 DEF ProcessTypes, LoopTypes, Arrives
<1>2. CASE \E l \in Claiming : BecomesClaimable(l)
  BY <1>0, <1>2 DEF ProcessTypes, LoopTypes, BecomesClaimable
<1>3. CASE Break
  BY <1>0, <1>3 DEF ProcessTypes, LoopTypes, Break
<1>4. CASE \E l \in Loops : IterationFails(l)
  BY <1>0, <1>4 DEF ProcessTypes, LoopTypes, IterationFails
<1>5. CASE RetryScheduled
  BY <1>0, <1>5 DEF ProcessTypes, LoopTypes, RetryScheduled
<1>6. CASE Cancel
  BY <1>0, <1>6 DEF ProcessTypes, LoopTypes, Cancel
<1>7. CASE \E s \in Servers : ServerFails(s)
  BY <1>0, <1>7 DEF ProcessTypes, LoopTypes, ServerFails
<1>8. CASE GraceEnds
  BY <1>0, <1>8 DEF ProcessTypes, LoopTypes, GraceEnds
<1>9. CASE ServersDone
  BY <1>0, <1>9 DEF ProcessTypes, LoopTypes, ServersDone
<1>10. CASE BeginRelease
  BY <1>0, <1>10 DEF ProcessTypes, LoopTypes, BeginRelease
<1>11. CASE \E ok \in BOOLEAN : ReleaseActivityTasks(ok)
  BY <1>0, <1>11 DEF ProcessTypes, LoopTypes, ReleaseActivityTasks, Release, Loops, Claiming
<1>12. CASE \E ok \in BOOLEAN : ReleaseRuns(ok)
  BY <1>0, <1>12 DEF ProcessTypes, LoopTypes, ReleaseRuns, Release, Loops, Claiming
<1>13. CASE ShutdownServers
  BY <1>0, <1>13 DEF ProcessTypes, LoopTypes, ShutdownServers
<1>14. ASSUME UNCHANGED process
  PROVE  process.stage = "releaseRuns" /\ process'.stage = "shutdown"
           /\ loop'["workflow"].claim = "held" => "workflow" \in process'.kept
  BY <1>0, <1>14 DEF ProcessTypes, LoopTypes
<1>15. QED
  BY <1>1, <1>2, <1>3, <1>4, <1>5, <1>6, <1>7, <1>8, <1>9, <1>10, <1>11, <1>12, <1>13, <1>14
  DEF Next, ListenerNext, LoopNext, RunNext,
      RetryDue, RetryTimer, Connect, MarkHealthy, WakeAll, Receive, Reconnect, ListenerStops,
      Take, Forward, Claim, FindsNothing, Interrupted, IntervalEnds, IsWoken, LoopStops,
      ActivationEnds, OutcomeStored

\* The answer: without a request to stop or a failed loop, a server has failed.
LEMMA RunAnswers ==
  ASSUME TypeOK, Ending, Next
  PROVE  process.stage = "shutdown" /\ process'.stage = "returned" =>
           ((process'.result = "nil") <=> process'.ctx /\ \A l \in Loops : ~loop'[l].failed)
<1>0. ProcessTypes /\ Ending
  BY DEF TypeOK
<1>1. CASE \E c \in Channels : Arrives(c)
  BY <1>0, <1>1 DEF ProcessTypes, Arrives
<1>2. CASE \E l \in Claiming : BecomesClaimable(l)
  BY <1>0, <1>2 DEF ProcessTypes, BecomesClaimable
<1>3. CASE Break
  BY <1>0, <1>3 DEF ProcessTypes, Break
<1>4. CASE \E l \in Loops : IterationFails(l)
  BY <1>0, <1>4 DEF ProcessTypes, IterationFails
<1>5. CASE RetryScheduled
  BY <1>0, <1>5 DEF ProcessTypes, RetryScheduled
<1>6. CASE Cancel
  BY <1>0, <1>6 DEF ProcessTypes, Cancel
<1>7. CASE \E s \in Servers : ServerFails(s)
  BY <1>0, <1>7 DEF ProcessTypes, ServerFails
<1>8. CASE GraceEnds
  BY <1>0, <1>8 DEF ProcessTypes, GraceEnds
<1>9. CASE ServersDone
  BY <1>0, <1>9 DEF ProcessTypes, ServersDone
<1>10. CASE BeginRelease
  BY <1>0, <1>10 DEF ProcessTypes, BeginRelease
<1>11. CASE \E ok \in BOOLEAN : ReleaseActivityTasks(ok)
  BY <1>0, <1>11 DEF ProcessTypes, ReleaseActivityTasks, Release
<1>12. CASE \E ok \in BOOLEAN : ReleaseRuns(ok)
  BY <1>0, <1>12 DEF ProcessTypes, ReleaseRuns, Release
<1>13. CASE ShutdownServers
  <2>1. process.servers \in [Servers -> {"serving", "failed", "closed"}]
    BY <1>0 DEF ProcessTypes
  <2>2. /\ process'.ctx = process.ctx
        /\ process'.result = CASE \E l \in Loops : loop[l].failed -> "workerErr"
                              [] ~process.ctx /\ (\A l \in Loops : ~loop[l].failed)
                                 /\ (\E s \in Servers : process.servers[s] = "failed") -> "serverErr"
                              [] OTHER -> "nil"
        /\ loop' = loop
    BY <1>0, <1>13 DEF ProcessTypes, ShutdownServers
  <2>3. CASE \E l \in Loops : loop[l].failed
    BY <2>2, <2>3
  <2>4. CASE ~process.ctx /\ \A l \in Loops : ~loop[l].failed
    <3>1. \E s \in Servers : process.servers[s] = "failed"
      BY <1>0, <2>4, <1>13 DEF Ending, ShutdownServers
    <3>2. QED
      BY <2>2, <2>4, <3>1
  <2>5. CASE process.ctx /\ \A l \in Loops : ~loop[l].failed
    BY <2>2, <2>5
  <2>6. QED
    BY <2>3, <2>4, <2>5
<1>14. ASSUME UNCHANGED process
  PROVE  process.stage = "shutdown" /\ process'.stage = "returned" =>
           ((process'.result = "nil") <=> process'.ctx /\ \A l \in Loops : ~loop'[l].failed)
  BY <1>0, <1>14 DEF ProcessTypes
<1>15. QED
  BY <1>1, <1>2, <1>3, <1>4, <1>5, <1>6, <1>7, <1>8, <1>9, <1>10, <1>11, <1>12, <1>13, <1>14
  DEF Next, ListenerNext, LoopNext, RunNext,
      RetryDue, RetryTimer, Connect, MarkHealthy, WakeAll, Receive, Reconnect, ListenerStops,
      Take, Forward, Claim, FindsNothing, Interrupted, IntervalEnds, IsWoken, LoopStops,
      ActivationEnds, OutcomeStored

\* What is released is not claimed again, as all loops have ended.
LEMMA ReleasedGoesOn ==
  ASSUME TypeOK, Ending, Released, Next
  PROVE  Released'
<1>0. \A m \in Loops : loop[m].pc = "done" /\ loop'[m].claim = "held" => loop[m].claim = "held"
  BY ALoopEnds
<1>1. process.stage # "running" => \A m \in Claiming : loop'[m].claim = "held" => loop[m].claim = "held"
  BY <1>0 DEF Ending, Loops
<1>2. process.stage \in {"running", "releaseActivity", "releaseRuns", "shutdown", "returned"}
  BY DEF TypeOK, ProcessTypes
<1>3. process'.stage \in {"releaseRuns", "shutdown", "returned"} /\ loop'["activity"].claim = "held" =>
        "activity" \in process'.kept
  BY <1>1, <1>2, TasksReleased, ProcessSteps DEF Released, Claiming
<1>4. process'.stage \in {"shutdown", "returned"} /\ loop'["workflow"].claim = "held" =>
        "workflow" \in process'.kept
  BY <1>1, <1>2, RunsReleased, ProcessSteps DEF Released, Claiming
<1>5. QED
  BY <1>3, <1>4 DEF Released

\* And the answer remains true.
LEMMA AnsweredGoesOn ==
  ASSUME TypeOK, Ending, Answered, Next
  PROVE  Answered'
<1>1. process.stage \in {"running", "releaseActivity", "releaseRuns", "shutdown", "returned"}
  BY DEF TypeOK, ProcessTypes
<1>2. CASE process.stage = "returned"
  <2>1. \A m \in Loops : loop[m].pc = "done" => loop'[m].failed = loop[m].failed
    BY ALoopEnds
  <2>3. \A m \in Loops : loop'[m].failed = loop[m].failed
    BY <1>2, <2>1 DEF Ending
  <2>2. process'.result = process.result /\ (process'.ctx <=> process.ctx)
    BY <1>2, ProcessSteps
  <2>4. QED
    BY <1>2, <2>2, <2>3 DEF Answered
<1>3. CASE process.stage # "returned"
  BY <1>1, <1>3, ProcessSteps, RunAnswers DEF Answered
<1>4. QED
  BY <1>2, <1>3

(***************************************************************************)
(* Wakes.                                                                  *)
(***************************************************************************)

\* A loop that waits while a row is told of listens for it; an outcome is stored beside
\* a workflow loop only where that one listens for runs.
Heard ==
    /\ \A l \in Claiming : loop[l].pc = "wait" /\ work[l].told > 0 => \E c \in Channels : LoopOf(c) = l
    /\ loop["workflow"].pc # "done" /\ loop["activity"].pc # "done" => "runs" \in Channels

\* How a loop comes to wait while a row is told of: it waited, and the row came.
LEMMA NewlyWaiting ==
  ASSUME TypeOK, Ending, Next, NEW l \in Claiming
  PROVE  loop'[l].pc = "wait" /\ work'[l].told > 0 =>
           /\ loop[l].pc = "wait"
           /\ \/ work[l].told > 0
              \/ \E c \in Channels : Arrives(c) /\ LoopOf(c) = l
              \/ OutcomeStored /\ l = "workflow"
<1>0. WorkTypes /\ LoopTypes /\ Ending
  BY DEF TypeOK
<1>1. CASE \E c \in Channels : Arrives(c)
  BY <1>0, <1>1 DEF WorkTypes, Arrives
<1>2. CASE \E k \in Claiming : BecomesClaimable(k)
  BY <1>0, <1>2 DEF WorkTypes, BecomesClaimable
<1>3. CASE RetryDue
  BY <1>0, <1>3 DEF WorkTypes, RetryDue
<1>4. CASE RetryTimer
  BY <1>0, <1>4 DEF WorkTypes, RetryTimer
<1>5. CASE \E k \in Loops : Claim(k)
  BY <1>0, <1>5 DEF WorkTypes, Claim, LoopTypes, Loops, Claiming
<1>6. CASE \E k \in Loops : FindsNothing(k)
  <2>1. PICK m \in Loops : FindsNothing(m)
    BY <1>6
  <2>2. CASE m = l
    <3>1. work[l].told = 0 /\ work' = work
      BY <1>0, <2>1, <2>2 DEF FindsNothing, WorkTypes
    <3>2. QED
      BY <3>1
  <2>3. CASE m # l
    <3>1. loop'[l] = loop[l] /\ work' = work
      BY <1>0, <2>1, <2>3 DEF FindsNothing, LoopTypes, Loops
    <3>2. QED
      BY <3>1
  <2>4. QED
    BY <2>2, <2>3
<1>7. CASE \E k \in Loops : Interrupted(k)
  BY <1>0, <1>7 DEF WorkTypes, Interrupted, LoopTypes, Loops, Claiming
<1>8. CASE \E k \in Loops : IntervalEnds(k)
  BY <1>0, <1>8 DEF WorkTypes, IntervalEnds, LoopTypes, Loops, Claiming
<1>9. CASE \E k \in Loops : IsWoken(k)
  BY <1>0, <1>9 DEF WorkTypes, IsWoken, LoopTypes, Loops, Claiming
<1>10. CASE \E k \in Loops : LoopStops(k)
  BY <1>0, <1>10 DEF WorkTypes, LoopStops, LoopTypes, Loops, Claiming
<1>11. CASE \E k \in Loops : IterationFails(k)
  BY <1>0, <1>11 DEF WorkTypes, IterationFails, LoopTypes, Loops, Claiming
<1>12. CASE ActivationEnds
  <2>1. loop' = Polls("workflow") /\ "workflow" \in Loops
    BY <1>12 DEF ActivationEnds, Loops, Claiming
  <2>2. loop'["workflow"].pc # "wait" /\ \A k \in Loops : k # "workflow" => loop'[k] = loop[k]
    BY <1>0, <2>1, PollsOn
  <2>3. work' = work
    BY <1>0, <1>12 DEF WorkTypes, ActivationEnds, Claiming
  <2>4. QED
    BY <1>12, <2>2, <2>3 DEF Claiming, Loops
<1>13. CASE OutcomeStored
  <2>1. loop' = Polls("activity") /\ "activity" \in Loops
    BY <1>13 DEF OutcomeStored, Loops, Claiming
  <2>2. loop'["activity"].pc # "wait" /\ \A k \in Loops : k # "activity" => loop'[k] = loop[k]
    BY <1>0, <2>1, PollsOn
  <2>3. work'["activity"].told = work["activity"].told
    BY <1>0, <1>13 DEF WorkTypes, OutcomeStored, Claiming
  <2>4. QED
    BY <1>13, <2>2, <2>3 DEF Claiming, Loops
<1>14. CASE RetryScheduled
  <2>1. loop' = Polls("activity") /\ "activity" \in Loops
    BY <1>14 DEF RetryScheduled, Loops, Claiming
  <2>2. loop'["activity"].pc # "wait" /\ \A k \in Loops : k # "activity" => loop'[k] = loop[k]
    BY <1>0, <2>1, PollsOn
  <2>3. \A k \in Claiming : work'[k].told = work[k].told
    BY <1>0, <1>14 DEF WorkTypes, RetryScheduled, Claiming
  <2>4. QED
    BY <1>14, <2>2, <2>3 DEF Claiming, Loops
<1>15. CASE \E ok \in BOOLEAN : ReleaseActivityTasks(ok)
  <2>1. process.stage # "running"
    BY <1>15 DEF ReleaseActivityTasks
  <2>2. loop[l].pc = "done"
    BY <1>0, <2>1 DEF Ending, Loops
  <2>3. loop'[l].pc = "done"
    BY <1>0, <2>2, ALoopEnds DEF Loops
  <2>4. QED
    BY <2>3
<1>16. CASE \E ok \in BOOLEAN : ReleaseRuns(ok)
  <2>1. process.stage # "running"
    BY <1>16 DEF ReleaseRuns
  <2>2. loop[l].pc = "done"
    BY <1>0, <2>1 DEF Ending, Loops
  <2>3. loop'[l].pc = "done"
    BY <1>0, <2>2, ALoopEnds DEF Loops
  <2>4. QED
    BY <2>3
<1>17. ASSUME UNCHANGED <<loop, work>>
  PROVE  loop'[l].pc = "wait" /\ work'[l].told > 0 =>
           /\ loop[l].pc = "wait"
           /\ \/ work[l].told > 0
              \/ \E c \in Channels : Arrives(c) /\ LoopOf(c) = l
              \/ OutcomeStored /\ l = "workflow"
  BY <1>0, <1>17 DEF WorkTypes
<1>18. QED
  BY <1>1, <1>2, <1>3, <1>4, <1>5, <1>6, <1>7, <1>8, <1>9, <1>10, <1>11, <1>12, <1>13, <1>14, <1>15,
 <1>16, <1>17
  DEF Next, ListenerNext, LoopNext, RunNext,
      Connect, MarkHealthy, WakeAll, Receive, Reconnect, ListenerStops, Take, Forward, Break,
      Cancel, ServerFails, GraceEnds, ServersDone, BeginRelease, ShutdownServers

\* Nothing is taken from the channels: a wake that is under way still is.
LEMMA MoreUnderWay ==
  ASSUME NEW l \in Claiming, WakeTypes, ConnTypes, WakeTypes', ConnTypes',
         Inputs' = Inputs, Channels' = Channels, merged' = merged,
         \A i \in Inputs : wakes'[i].buffer >= wakes[i].buffer /\ wakes'[i].hand = wakes[i].hand,
         \A c \in Channels : conn'.sent[c] >= conn.sent[c],
         WakeUnderWay(l)
  PROVE  WakeUnderWay(l)'
<1>1. WayTo(l)' = WayTo(l) /\ WayTo(l) \subseteq Inputs
  BY DEF WayTo
<1>2. \A i \in WayTo(l) : wakes[i].buffer > 0 => wakes'[i].buffer > 0
  BY <1>1 DEF WakeTypes
<1>3. \A c \in Channels : conn.sent[c] > 0 => conn'.sent[c] > 0
  BY DEF ConnTypes
<1>4. QED
  BY <1>1, <1>2, <1>3 DEF WakeUnderWay

\* A wake that is under way stays so until the loop takes it or the connection is lost.
LEMMA UnderWayStays ==
  ASSUME Wired, TypeOK, Next, NEW l \in Claiming, WakeUnderWay(l)
  PROVE  WakeUnderWay(l)' \/ loop'[l].pc # "wait" \/ conn'.state # "up"
<1>0. /\ WakeTypes /\ ConnTypes
      /\ WakeTypes' /\ ConnTypes' /\ Inputs' = Inputs /\ Channels' = Channels
      /\ WayTo(l)' = WayTo(l) /\ WayTo(l) \subseteq Inputs /\ Channels \subseteq Inputs
  <2>1. TypeOK' /\ Inputs' = Inputs /\ Channels' = Channels
    BY TypesGoOn, InputsStay
  <2>2. QED
    BY <2>1 DEF TypeOK, WayTo, Channels
<1>1. CASE \E c \in Channels : Arrives(c)
  <2>1. merged' = merged /\ wakes' = wakes
    BY <1>1 DEF Arrives
  <2>2. \A c \in Channels : conn'.sent[c] >= conn.sent[c]
    BY <1>0, <1>1, Notified DEF Arrives
  <2>3. \A i \in Inputs : wakes'[i].buffer >= wakes[i].buffer /\ wakes'[i].hand = wakes[i].hand
    BY <1>0, <2>1 DEF WakeTypes
  <2>4. QED
    BY <1>0, <2>1, <2>2, <2>3, MoreUnderWay
<1>2. CASE RetryTimer
  <2>1. merged' = merged /\ conn' = conn
    BY <1>2 DEF RetryTimer
  <2>2. \A i \in Inputs : wakes'[i].buffer >= wakes[i].buffer /\ wakes'[i].hand = wakes[i].hand
    BY <1>0, <1>2, Pushed DEF RetryTimer, WakeTypes
  <2>3. \A c \in Channels : conn'.sent[c] >= conn.sent[c]
    BY <1>0, <2>1 DEF ConnTypes
  <2>4. QED
    BY <1>0, <2>1, <2>2, <2>3, MoreUnderWay
<1>3. CASE Connect
  <2>1. merged' = merged /\ wakes' = wakes /\ conn'.sent = conn.sent
    BY <1>0, <1>3 DEF Connect, ConnTypes
  <2>2. QED
    BY <1>0, <2>1 DEF WakeUnderWay
<1>4. CASE MarkHealthy
  <2>1. merged' = merged /\ wakes' = wakes /\ conn'.sent = conn.sent
    BY <1>0, <1>4 DEF MarkHealthy, ConnTypes
  <2>2. QED
    BY <1>0, <2>1 DEF WakeUnderWay
<1>5. CASE WakeAll
  <2>1. merged' = merged /\ conn'.sent = conn.sent
    BY <1>0, <1>5 DEF WakeAll, ConnTypes
  <2>2. \A i \in Inputs : wakes'[i].buffer >= wakes[i].buffer /\ wakes'[i].hand = wakes[i].hand
    BY <1>0, <1>5, Pushed DEF WakeAll, WakeTypes
  <2>3. \A c \in Channels : conn'.sent[c] >= conn.sent[c]
    BY <1>0, <2>1 DEF ConnTypes
  <2>4. QED
    BY <1>0, <2>1, <2>2, <2>3, MoreUnderWay
<1>6. CASE \E c \in Channels : Receive(c)
  <2>1. PICK c \in Channels : Receive(c)
    BY <1>6
  <2>2. /\ merged' = merged /\ wakes' = Push({c})
        /\ \A d \in Channels : d # c => conn'.sent[d] = conn.sent[d]
    BY <1>0, <2>1 DEF Receive, ConnTypes
  <2>3. /\ wakes'[c].buffer > 0
        /\ \A i \in Inputs : wakes'[i].buffer >= wakes[i].buffer /\ wakes'[i].hand = wakes[i].hand
    BY <1>0, <2>2, Pushed DEF WakeTypes
  <2>4. CASE c \in WayTo(l)
    BY <1>0, <2>3, <2>4 DEF WakeUnderWay
  <2>5. CASE c \notin WayTo(l)
    <3>1. \A d \in Channels \cap WayTo(l) : conn'.sent[d] = conn.sent[d]
      BY <2>2, <2>5
    <3>2. \A i \in WayTo(l) : wakes[i].buffer > 0 => wakes'[i].buffer > 0
      BY <1>0, <2>3 DEF WakeTypes
    <3>3. QED
      BY <1>0, <2>2, <2>3, <3>1, <3>2 DEF WakeUnderWay
  <2>6. QED
    BY <2>4, <2>5
<1>7. CASE Reconnect
  <2>1. merged' = merged /\ wakes' = wakes /\ conn'.sent = conn.sent
    BY <1>0, <1>7 DEF Reconnect, ConnTypes
  <2>2. QED
    BY <1>0, <2>1 DEF WakeUnderWay
<1>8. CASE ListenerStops
  <2>1. conn'.state # "up"
    BY <1>0, <1>8 DEF ListenerStops, ConnTypes
  <2>2. QED
    BY <2>1
<1>9. CASE \E i \in Inputs : Take(i)
  <2>1. PICK i \in Inputs : Take(i)
    BY <1>9
  <2>2. merged' = merged /\ conn' = conn
    BY <2>1 DEF Take
  <2>3. wakes'[i].hand /\ \A j \in Inputs : j # i => wakes'[j] = wakes[j]
    BY <1>0, <2>1 DEF Take, WakeTypes, Inputs
  <2>4. QED
    BY <1>0, <2>2, <2>3 DEF WakeUnderWay
<1>10. CASE \E i \in Inputs : Forward(i)
  <2>1. PICK i \in Inputs : Forward(i)
    BY <1>10
  <2>2. conn' = conn /\ merged' = [merged EXCEPT ![LoopOf(i)] = 1]
    BY <2>1 DEF Forward
  <2>3. \A j \in Inputs : j # i => wakes'[j] = wakes[j]
    BY <1>0, <2>1 DEF Forward, WakeTypes, Inputs
  <2>4. CASE LoopOf(i) = l
    BY <1>0, <2>2, <2>4 DEF WakeUnderWay, WakeTypes
  <2>5. CASE LoopOf(i) # l
    <3>1. merged'[l] = merged[l]
      BY <1>0, <2>2, <2>5 DEF WakeTypes
    <3>2. \A j \in WayTo(l) : wakes'[j] = wakes[j]
      BY <2>3, <2>5 DEF WayTo
    <3>3. QED
      BY <1>0, <2>2, <3>1, <3>2 DEF WakeUnderWay
  <2>6. QED
    BY <2>4, <2>5
<1>11. CASE Break
  BY <1>11 DEF Break
<1>12. CASE \E k \in Loops : IsWoken(k)
  <2>1. PICK m \in Loops : IsWoken(m)
    BY <1>12
  <2>2. CASE m = l
    BY <2>1, <2>2 DEF IsWoken, TypeOK, LoopTypes
  <2>3. CASE m # l
    <3>1. merged'[l] = merged[l] /\ conn' = conn /\ wakes' = wakes
      BY <1>0, <2>1, <2>3 DEF IsWoken, WakeTypes
    <3>2. QED
      BY <1>0, <3>1 DEF WakeUnderWay
  <2>4. QED
    BY <2>2, <2>3
<1>13. CASE OutcomeStored
  <2>1. merged' = merged
    BY <1>13 DEF OutcomeStored
  <2>2. \A i \in Inputs : wakes'[i].buffer >= wakes[i].buffer /\ wakes'[i].hand = wakes[i].hand
    BY <1>0, <1>13, Pushed DEF OutcomeStored, WakeTypes
  <2>3. \A c \in Channels : conn'.sent[c] >= conn.sent[c]
    BY <1>0, <1>13, Notified DEF OutcomeStored, ConnTypes
  <2>4. QED
    BY <1>0, <2>1, <2>2, <2>3, MoreUnderWay
<1>14. ASSUME UNCHANGED <<wakes, merged, conn>>
  PROVE  WakeUnderWay(l)' \/ loop'[l].pc # "wait" \/ conn'.state # "up"
  BY <1>0, <1>14 DEF WakeUnderWay
<1>15. QED
  BY <1>1, <1>2, <1>3, <1>4, <1>5, <1>6, <1>7, <1>8, <1>9, <1>10, <1>11, <1>12, <1>13, <1>14
  DEF Next, ListenerNext, LoopNext, RunNext,
      BecomesClaimable, RetryDue, Claim, FindsNothing, Interrupted, IntervalEnds, LoopStops,
      IterationFails, ActivationEnds, RetryScheduled, Cancel, ServerFails, GraceEnds,
      ServersDone, BeginRelease, ReleaseActivityTasks, ReleaseRuns, ShutdownServers, Release

\* A loop that waits for a row hears of it on a channel that it listens to.
LEMMA HeardGoesOn ==
  ASSUME Wired, TypeOK, Ending, Heard, Next
  PROVE  Heard'
<1>0. Channels' = Channels /\ Loops = Claiming \cup {"maintenance"}
  BY InputsStay DEF Loops
<1>1. \A m \in Claiming : loop[m].pc = "done" => loop'[m].pc = "done"
  BY <1>0, ALoopEnds
<1>2. loop'["workflow"].pc # "done" /\ loop'["activity"].pc # "done" => "runs" \in Channels
  BY <1>1 DEF Heard, Claiming
<1>3. ASSUME NEW l \in Claiming, loop'[l].pc = "wait", work'[l].told > 0
      PROVE  \E c \in Channels : LoopOf(c) = l
  <2>1. CASE work[l].told > 0
    BY <1>3, <2>1, NewlyWaiting DEF Heard
  <2>2. CASE \E c \in Channels : Arrives(c) /\ LoopOf(c) = l
    BY <2>2
  <2>3. CASE OutcomeStored /\ l = "workflow" /\ loop["workflow"].pc = "wait"
    <3>1. loop["activity"].pc = "busy"
      BY <2>3 DEF OutcomeStored
    <3>2. "runs" \in Channels
      BY <2>3, <3>1 DEF Heard
    <3>3. QED
      BY <2>3, <3>2 DEF LoopOf
  <2>4. QED
    BY <1>3, <2>1, <2>2, <2>3, NewlyWaiting
<1>4. QED
  BY <1>0, <1>2, <1>3 DEF Heard

\* A row that comes while its loop waits sends the wake with it.
LEMMA ToldIsSent ==
  ASSUME Wired, TypeOK, NEW c \in Channels, conn.state = "up",
         conn' = Notify(c), Inputs' = Inputs, Channels' = Channels
  PROVE  WakeUnderWay(LoopOf(c))'
<1>1. conn'.sent[c] > 0
  BY Notified DEF TypeOK
<1>2. c \in Channels' /\ c \in WayTo(LoopOf(c))'
  BY DEF WayTo, Channels
<1>3. QED
  BY <1>1, <1>2 DEF WakeUnderWay

\* After a connection was made every loop is woken that a row may have come for before.
LEMMA ConnectedIsSent ==
  ASSUME Wired, TypeOK, Heard', Next, WakeAll, NEW l \in Claiming,
         loop'[l].pc = "wait", work'[l].told > 0
  PROVE  WakeUnderWay(l)'
<1>1. Inputs' = Inputs /\ Channels' = Channels
  BY InputsStay
<1>2. PICK c \in Channels : LoopOf(c) = l
  BY <1>1 DEF Heard
<1>3. wakes' = Push(Channels) /\ c \in Inputs
  BY DEF WakeAll, WokenAtStart, Channels
<1>4. wakes'[c].buffer > 0
  BY <1>3, Pushed DEF TypeOK
<1>5. c \in WayTo(l)'
  BY <1>1, <1>2, <1>3 DEF WayTo
<1>6. QED
  BY <1>4, <1>5 DEF WakeUnderWay

\* A loop that waits is woken, whether the row came before or after it began to.
LEMMA WokenGoesOn ==
  ASSUME Wired, TypeOK, Ending, Heard, WaitingIsWoken, Next
  PROVE  WaitingIsWoken'
<1>1. SUFFICES ASSUME conn'.state = "up", ~process'.group, NEW l \in Claiming,
                      loop'[l].pc = "wait", work'[l].told > 0
               PROVE  WakeUnderWay(l)'
  BY DEF WaitingIsWoken, Claiming
<1>2. ~process.group
  BY <1>1, ProcessSteps
<1>3. Inputs' = Inputs /\ Channels' = Channels /\ Heard'
  BY InputsStay, HeardGoesOn
<1>4. CASE WakeAll
  BY <1>1, <1>3, <1>4, ConnectedIsSent
<1>5. CASE ~WakeAll
  <2>1. conn.state = "up"
    BY <1>1, <1>5, ListenerSteps
  <2>2. CASE work[l].told > 0
    <3>1. WakeUnderWay(l)
      BY <1>1, <1>2, <2>1, <2>2, NewlyWaiting DEF WaitingIsWoken
    <3>2. QED
      BY <1>1, <3>1, UnderWayStays
  <2>3. CASE \E c \in Channels : Arrives(c) /\ LoopOf(c) = l
    BY <1>3, <2>1, <2>3, ToldIsSent DEF Arrives
  <2>4. CASE OutcomeStored /\ l = "workflow"
    <3>1. loop["activity"].pc = "busy" /\ conn' = Notify("runs")
      BY <2>4 DEF OutcomeStored
    <3>2. loop["workflow"].pc = "wait"
      BY <1>1, <2>4, NewlyWaiting
    <3>3. "runs" \in Channels
      BY <3>1, <3>2 DEF Heard
    <3>4. QED
      BY <1>3, <2>1, <2>4, <3>1, <3>3, ToldIsSent DEF LoopOf
  <2>5. QED
    BY <1>1, <2>2, <2>3, <2>4, NewlyWaiting
<1>6. QED
  BY <1>4, <1>5

(***************************************************************************)
(* The theorems.                                                           *)
(***************************************************************************)

IInv == TypeOK /\ Ending /\ Released /\ Answered /\ Heard /\ WaitingIsWoken

\* The invariant holds at the start.
LEMMA InitIInv ==
  ASSUME Wired, Init
  PROVE  IInv
<1>0. PICK setup \in Setups :
        /\ work = [l \in Claiming |-> [told |-> 0, silent |-> 0, later |-> 0, timers |-> 0]]
        /\ conn = [state |-> "down", sent |-> [c \in setup.inputs \ LocalInputs |-> 0]]
        /\ wakes = [i \in setup.inputs |-> [buffer |-> 0, hand |-> FALSE]]
        /\ merged = [l \in Claiming |-> 0]
        /\ loop = [l \in Loops |-> [pc |-> IF l \in setup.loops THEN "poll" ELSE "done",
                                    claim |-> "none", failed |-> FALSE]]
        /\ process = [ctx |-> FALSE, group |-> FALSE, workCtx |-> FALSE, stage |-> "running",
                      servers |-> [s \in setup.servers |-> "serving"], noticed |-> FALSE,
                      kept |-> {}, result |-> "none",
                      work |-> setup.work, breaks |-> setup.breaks, errors |-> setup.errors]
  BY DEF Init
<1>1. /\ \A l \in Claiming : work[l].told = 0
      /\ \A l \in Loops : ~loop[l].failed /\ (loop[l].pc # "done" => l \in setup.loops)
      /\ conn.state = "down" /\ wakes = [i \in setup.inputs |-> [buffer |-> 0, hand |-> FALSE]]
      /\ process.stage = "running" /\ process.group = FALSE /\ process.noticed = FALSE
  BY <1>0
<1>2. TypeOK
  BY InitTypes
<1>3. Ending /\ Released /\ Answered
  BY <1>1 DEF Ending, Released, Answered
<1>4. WaitingIsWoken
  BY <1>1 DEF WaitingIsWoken
<1>5. Channels = setup.inputs \ LocalInputs
  BY <1>1 DEF Channels, Inputs
<1>6. loop["workflow"].pc # "done" /\ loop["activity"].pc # "done" => "runs" \in Channels
  BY <1>1, <1>5 DEF Loops, Claiming, Wired, LocalInputs
<1>7. Heard
  BY <1>1, <1>6 DEF Heard
<1>8. QED
  BY <1>2, <1>3, <1>4, <1>7 DEF IInv

\* And every step keeps it.
LEMMA NextIInv ==
  ASSUME Wired, IInv, [Next]_processVars
  PROVE  IInv'
<1>1. CASE Next
  BY <1>1, TypesGoOn, EndingGoesOn, ReleasedGoesOn, AnsweredGoesOn, HeardGoesOn, WokenGoesOn
  DEF IInv
<1>2. CASE UNCHANGED processVars
  <2>1. Inputs' = Inputs /\ Channels' = Channels /\ Servers' = Servers
    BY <1>2 DEF processVars, Inputs, Channels, Servers
  <2>2. \A l \in Claiming : WakeUnderWay(l)' = WakeUnderWay(l)
    BY <1>2, <2>1 DEF processVars, WakeUnderWay, WayTo
  <2>3. TypeOK'
    BY <1>2, <2>1 DEF processVars, IInv, TypeOK, WorkTypes, ConnTypes, WakeTypes, LoopTypes, ProcessTypes
  <2>4. Ending' /\ Released' /\ Answered' /\ Heard'
    BY <1>2, <2>1 DEF processVars, IInv, Ending, Released, Answered, Heard
  <2>5. WaitingIsWoken'
    BY <1>2, <2>2 DEF processVars, IInv, WaitingIsWoken
  <2>6. QED
    BY <2>3, <2>4, <2>5 DEF IInv
<1>3. QED
  BY <1>1, <1>2

\* So it always holds.
LEMMA Invariant == Wired => (Spec => []IInv)
<1>1. SUFFICES ASSUME Wired
               PROVE  Spec => []IInv
  OBVIOUS
<1>2. Init => IInv
  BY <1>1, InitIInv
<1>3. IInv /\ [Next]_processVars => IInv'
  BY <1>1, NextIInv
<1>4. QED
  BY <1>2, <1>3, PTL DEF Spec

\* Every variable keeps its type: the connection's counters, the channels within what was
\* sent, and the stages of the shutdown (runtime.go, notify.go, loop.go).
THEOREM TypesAreCorrect == Wired => (Spec => []TypeOK)
<1>1. IInv => TypeOK
  BY DEF IInv
<1>2. QED
  BY <1>1, Invariant, PTL

\* In every process, whatever its loops and channels and however small the buffers: a loop
\* that does not poll although a transaction told of a row will be woken while the listener
\* is connected (WaitingIsWoken; notify.go, runtime.go's mergeWakeChannels).
THEOREM WakesAreNotLost == Wired => (Spec => []WaitingIsWoken)
<1>1. IInv => WaitingIsWoken
  BY DEF IInv
<1>2. QED
  BY <1>1, Invariant, PTL

\* And it stops cleanly: claims are released after the last iteration, none is left unless
\* its release failed, and Run answers nil exactly after a request to stop that no failed
\* loop came before (StopsCleanly; runtime.go's Run and releaseWorkerClaims).
THEOREM ProcessStopsCleanly == Wired => (Spec => []StopsCleanly)
<1>1. IInv => StopsCleanly
  <2>1. SUFFICES ASSUME IInv
                 PROVE  StopsCleanly
    OBVIOUS
  <2>2. process.stage # "running" => \A l \in Loops : loop[l].pc = "done"
    BY <2>1 DEF IInv, Ending
  <2>3. process.stage = "returned" => \A l \in Claiming : loop[l].claim = "held" => l \in process.kept
    BY <2>1 DEF IInv, Released, Claiming
  <2>4. process.stage = "returned" =>
          ((process.result = "nil") <=> process.ctx /\ \A l \in Loops : ~loop[l].failed)
    BY <2>1 DEF IInv, Answered
  <2>5. QED
    BY <2>2, <2>3, <2>4 DEF StopsCleanly
<1>2. QED
  BY <1>1, Invariant, PTL

=============================================================================
