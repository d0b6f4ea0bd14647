----------------------- MODULE RuntimeProcessProperties -----------------------
(***************************************************************************)
(* What the process promises: no wake is lost on its way to a loop, and it *)
(* stops, in the end and without leaving claims.                           *)
(***************************************************************************)
EXTENDS RuntimeProcess

WayTo(l) == {i \in Inputs : LoopOf(i) = l}
WakeUnderWay(l) ==
    \/ merged[l] = 1
    \/ \E i \in WayTo(l) : wakes[i].buffer > 0 \/ wakes[i].hand
    \/ \E c \in Channels \cap WayTo(l) : conn.sent[c] > 0

\* While the listener is connected, a loop that does not poll although a row waits whose
\* transaction notified will be woken: through connects and breaks, wakes that are
\* dropped because a buffer is full, and rows that arrive between the last poll and the
\* wait (notify.go's wakeAll, mergeWakeChannels, RunLoopWithWake).
WaitingIsWoken ==
    conn.state = "up" /\ ~process.group =>
        \A l \in Claiming : loop[l].pc = "wait" /\ work[l].told > 0 => WakeUnderWay(l)

\* Claims are released after the last iteration, so that none is made or used later and
\* none is left unless its release failed; and the process answers nil exactly if it was
\* asked to stop and no loop had failed ("Run returns nil on graceful shutdown",
\* runtime.go:140-141).
StopsCleanly ==
    /\ process.stage # "running" => \A l \in Loops : loop[l].pc = "done"
    /\ process.stage = "returned" =>
          /\ \A l \in Claiming : loop[l].claim = "held" => l \in process.kept
          /\ (process.result = "nil") <=> process.ctx /\ \A l \in Loops : ~loop[l].failed

\* Once it is to stop, for whatever reason, it does: also when an activity handler does
\* not end by itself (runtime.go, ShutdownGrace).
StopsInTheEnd == process.group ~> process.stage = "returned"
=============================================================================
