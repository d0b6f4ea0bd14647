------------------------------ MODULE Simulator ------------------------------
(***************************************************************************)
(* The workflow unit-test kit (engine/pkg/workflowtest/workflowtest.go):   *)
(* one workflow function is replayed by the engine's own replay            *)
(* (internal/workflow/sim.go), activation after activation, against rows   *)
(* in memory; between activations scripted activities are resolved and     *)
(* timers fired.                                                           *)
(***************************************************************************)
EXTENDS WorkflowReplay

CONSTANTS
    Scenarios,      \* [program, script, signals, cancel]
    ActivationCap   \* activationCap: 1024 in the code

\* A scenario scripts every activity to be completed, to be failed, or not at all, and
\* queues signals and at most one cancellation.
VARIABLE sim   \* [scenario, history, outcomes, remaining, stage, result]

simulatorVars == <<runner, inbox, sim>>

Idle == NewRunner(<<>>, <<>>, {}, [k \in Keys |-> "none"])

Row(kind, key) == [kind |-> kind, key |-> key, status |-> "pending"]

\* materializeInbox: the signals in call order, then the cancellation.
MaterializedInbox(s) ==
    [i \in DOMAIN s.signals |-> Row("signal", s.signals[i])] \o
    (IF s.cancel THEN <<Row("cancel", None)>> ELSE <<>>)

\* newSimulation
NewSimulation(s) ==
    [scenario |-> s, history |-> <<>>, outcomes |-> [k \in Keys |-> "none"],
     remaining |-> ActivationCap, stage |-> "between", result |-> "none"]

Init ==
    \E s \in Scenarios :
        /\ sim = NewSimulation(s)
        /\ inbox = MaterializedInbox(s)
        /\ runner = Idle

Activate ==
    /\ sim.stage = "between" /\ sim.remaining > 0
    /\ sim' = [sim EXCEPT !.stage = "replaying", !.remaining = @ - 1]
    /\ runner' = NewRunner(sim.scenario.program, sim.history,
                           {i \in DOMAIN inbox : inbox[i].status = "pending"}, sim.outcomes)
    /\ UNCHANGED inbox

CapExceeded ==
    /\ sim.stage = "between" /\ sim.remaining = 0
    /\ sim' = [sim EXCEPT !.stage = "returned", !.result = "error"]
    /\ UNCHANGED <<runner, inbox>>

Replay == sim.stage = "replaying" /\ ReplayStep /\ UNCHANGED <<inbox, sim>>

\* Mutated: consumed rows stay.
NoneRemoved == inbox

\* removeInbox: a removed row is one that is not pending any more.
Removed == [i \in DOMAIN inbox |-> IF i \in runner.consumed THEN [inbox[i] EXCEPT !.status = "processed"] ELSE inbox[i]]

\* The decision is applied: its events, the rows it consumed, and what it asks for.
Decided(decision) == sim.stage = "replaying" /\ runner.phase = "decided" /\ runner.decision = decision
Applied == [sim EXCEPT !.history = @ \o runner.queued]
Returned(result) == [Applied EXCEPT !.stage = "returned", !.result = result]

Ends(decision) ==
    /\ Decided(decision)
    /\ sim' = Returned(decision)
    /\ inbox' = Removed /\ runner' = Idle

\* resolveActivity: one attempt; without a handler the result is blocked.
ResolveActivity ==
    /\ Decided("waiting") /\ runner.newTask # None
    /\ LET scripted == sim.scenario.script[runner.newTask]
       IN  sim' = IF scripted = "none" THEN Returned("blocked")
                  ELSE [Applied EXCEPT !.stage = "between", !.outcomes[runner.newTask] = scripted]
    /\ inbox' = Removed /\ runner' = Idle

FireTimerAtOnce ==
    /\ Decided("waiting") /\ runner.newTimer # None
    /\ sim' = [Applied EXCEPT !.stage = "between"]
    /\ inbox' = Append(Removed, Row("timer", runner.newTimer))
    /\ runner' = Idle

Blocked ==
    /\ Decided("waiting") /\ runner.newTask = None /\ runner.newTimer = None
    /\ sim' = Returned("blocked")
    /\ inbox' = Removed /\ runner' = Idle

SimulatorNext ==
    \/ Activate
    \/ CapExceeded
    \/ Replay
    \/ \E decision \in {"completed", "failed", "cancelled", "quarantined"} : Ends(decision)
    \/ ResolveActivity
    \/ FireTimerAtOnce
    \/ Blocked

SimulatorSpec == Init /\ [][SimulatorNext]_simulatorVars
=============================================================================
