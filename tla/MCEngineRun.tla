----------------------------- MODULE MCEngineRun -----------------------------
(***************************************************************************)
(* Instances of EngineRun for TLC: the workflow functions and the bounds   *)
(* on the environment that the configurations choose from.                 *)
(***************************************************************************)
EXTENDS EngineRunProperties, TLC

CONSTANTS w1, w2, w3, a1, a2, act, act2, sig, tmr, mark

\* The workers of a kind are interchangeable where all run the same build; used
\* by the runs without liveness.
Interchangeable == Permutations(Workers) \cup Permutations(ActivityWorkers)

Cmd(op, key) == [op |-> op, key |-> key]
Everywhere(program) == [w \in Workers |-> program]
Bounds(signals, cancels, controls, lateLeases) ==
    [signals |-> signals, cancels |-> cancels, controls |-> controls, lateLeases |-> lateLeases]

\* A reminder, an approval and an activity, while the run is signalled, cancelled,
\* suspended, resumed and terminated.
Escalation ==
    Everywhere(<<Cmd("timer", tmr), Cmd("checkCancel", None), Cmd("signal", sig), Cmd("activity", act)>>)
EscalationBounds == Bounds(1, 1, 2, 0)

\* A rolling deployment under every kind of disturbance: w1 waits for two approvals
\* where w2 records a decision of its own and executes a second activity; w3's build
\* does not register the run's version.
Rolling ==
    w1 :> <<Cmd("activity", act), Cmd("signal", sig), Cmd("checkCancel", None), Cmd("signal", sig)>> @@
    w2 :> <<Cmd("activity", act), Cmd("marker", mark), Cmd("activity", act2)>> @@
    w3 :> <<>>
RollingBounds == Bounds(2, 0, 0, 1)
ActivityWorkersAlike == Permutations(ActivityWorkers)

\* Nobody but the engine's own workers acts on the run.
Undisturbed == Everywhere(<<Cmd("activity", act), Cmd("marker", mark), Cmd("timer", tmr)>>)
UndisturbedBounds == Bounds(0, 0, 0, 2)

\* One signal arrives while an activity is executed, or just before it is awaited.
ActivityThenSignal == Everywhere(<<Cmd("activity", act), Cmd("signal", sig)>>)
OneSignal == Bounds(1, 0, 0, 0)
=============================================================================
