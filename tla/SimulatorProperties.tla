------------------------- MODULE SimulatorProperties -------------------------
(***************************************************************************)
(* A test sees what the function does when it is simply executed once.     *)
(***************************************************************************)
EXTENDS Simulator, SequencesExt

\* The function executed call by call, without replay or rows: signals are taken from
\* the queue, and the cancellation is seen once no signal is before it.
Executed(s, acc, call) ==
    LET effect(ok) == [acc EXCEPT !.journal = Append(@, [op |-> call.op, key |-> call.key, ok |-> ok])]
        queued == {i \in DOMAIN acc.signals : acc.signals[i] = call.key}
    IN  CASE acc.end # "running" -> acc
          [] acc.end = "running" /\ call.op \in {"timer", "marker"} -> effect(TRUE)
          [] acc.end = "running" /\ call.op = "checkCancel" ->
                IF s.cancel /\ acc.signals = <<>> THEN [acc EXCEPT !.end = "cancelled"] ELSE acc
          [] acc.end = "running" /\ call.op = "signal" ->
                IF queued = {} THEN [acc EXCEPT !.end = "blocked"]
                ELSE [effect(TRUE) EXCEPT !.signals = RemoveAt(@, CHOOSE i \in queued : \A j \in queued : i <= j)]
          [] acc.end = "running" /\ call.op = "activity" ->
                CASE s.script[call.key] = "completed" -> effect(TRUE)
                  [] s.script[call.key] = "failed" ->
                        [effect(FALSE) EXCEPT !.end = IF call.key \in Handled THEN @ ELSE "failed"]
                  [] OTHER -> [acc EXCEPT !.end = "blocked"]

Execution(s) ==
    LET last == FoldLeft(LAMBDA acc, call : Executed(s, acc, call),
                         [journal |-> <<>>, signals |-> s.signals, end |-> "running"], s.program)
    IN  [journal |-> last.journal, end |-> IF last.end = "running" THEN "completed" ELSE last.end]

CallOf(event) ==
    CASE event.type \in {"activity.completed", "activity.failed"} -> "activity"
      [] event.type = "timer.fired" -> "timer"
      [] event.type = "signal.received" -> "signal"
      [] event.type = "marker.recorded" -> "marker"
      [] OTHER -> "none"

SimulatedJournal ==
    LET done == SelectSeq(sim.history, LAMBDA event : CallOf(event) # "none")
    IN  [i \in DOMAIN done |-> [op |-> CallOf(done[i]), key |-> done[i].key, ok |-> done[i].type # "activity.failed"]]

Waits(journal) == Len(SelectSeq(journal, LAMBDA e : e.op \in {"activity", "timer"}))

\* The result and the history of a simulation are those of the plain execution of the
\* function, although every activation starts it again and replays what is recorded, for
\* every order in which signals, a cancellation, activities and timers are met; and only
\* a function that waits more often than the cap allows ends in an error ("runs def from
\* input to a terminal state", workflowtest.go:110-112).
SimulatedAsWritten ==
    sim.stage = "returned" =>
        IF sim.result = "error"
        THEN Waits(Execution(sim.scenario).journal) >= ActivationCap
        ELSE Execution(sim.scenario) = [journal |-> SimulatedJournal, end |-> sim.result]
=============================================================================
