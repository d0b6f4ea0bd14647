------------------------ MODULE ProjectionProperties ------------------------
(***************************************************************************)
(* What a reader of the debugger's tables may rely on.                     *)
(***************************************************************************)
EXTENDS Projection

Kept == (deleted + 1) .. Len(history)   \* the rows that exist

\* The state label is the truth about the checkpoint: up_to_date says that every row is
\* projected, catching_up that some row is left for the projector to select, whatever
\* was appended while a row was being projected (UpdateLatestHistory, AdvanceCheckpoint).
StateTellsTheTruth ==
    /\ trace.state = "up_to_date" => trace.projected >= MaxId
    /\ trace.state = "catching_up" => trace.projected < MaxId

\* What a span says once the rows up to `last' are projected, each once and in order.
SpanUpTo(a, last) ==
    LET rows == {history[i] : i \in (trace.since + 1) .. last}
        cleaned == run.tasks[a] = "cancelled" /\ \E end \in Cleanups : <<"ended", end>> \in rows
    IN IF <<"completed", a>> \in rows THEN [status |-> "completed", ended |-> TRUE]
       ELSE IF <<"failed", a>> \in rows THEN [status |-> "failed", ended |-> TRUE]
       ELSE IF <<"scheduled", a>> \notin rows THEN NoSpan
       ELSE IF cleaned THEN [status |-> "failed", ended |-> TRUE]
       ELSE [status |-> "running", ended |-> FALSE]

\* The detail is exactly what the rows up to the checkpoint say: no row was skipped,
\* none applied twice or out of order, although every row is projected in a transaction
\* of its own that another writer of the trace may precede.  It holds until a retry
\* appends to a run that has ended: that reopens even a trace whose rows were deleted.
DetailFollowsHistory ==
    (\A i \in DOMAIN history : history[i][1] = "ended" => i = Len(history)) =>
        /\ trace.events = (trace.since + 1) .. trace.projected
        /\ deleted = 0 => \A a \in Activities : trace.spans[a] = SpanUpTo(a, trace.projected)

\* A run that has completed, or was cancelled or terminated, is shown with its end,
\* whichever writer of the trace is late: none overwrites it with a status that it read
\* before (SyncRunSummary, writer.go:273).  A run that failed for want of its version
\* leaves open tasks, and an outcome transaction may write over its end.
EndIsShown ==
    run.status \in Ends \ {"failed"} => trace.runStatus = run.status /\ trace.status = run.status

\* The projection catches up with the history, or the trace is reduced.
CatchesUp == []<>(trace.state \in Reduced \/ trace.projected >= MaxId)
=============================================================================
