-------------------------- MODULE SessionNarrative --------------------------
(***************************************************************************)
(* The narrative of a session (internal/store/session_narrative.go and     *)
(* session_narrative.sql): its traces in the order of their starts, each   *)
(* linked to the one it follows, by what its metadata says or because      *)
(* nothing else was going on.  Batches write while it is put together by   *)
(* three statements.                                                       *)
(***************************************************************************)
EXTENDS Integers, Sequences, FiniteSets

CONSTANTS
    Traces,       \* of the session, 1, 2, ...: the id is the second sort key
    Histories,    \* [Traces -> None or a trace]: what the session may hold
    Writes,       \* [start, ended, status, parent, marks, events] of a batch
    Now,          \* the time at which batches are received
    TraceLimit,   \* sessionNarrativeTraceLimit: 100 in the code
    MaxBatches,   \* bound: batches that come in meanwhile
    None

\* A trace is [start, received, ended, status, parent, marks, events]: start, ended and
\* parent may be None; marks are the starts and ends of its spans and the times of its
\* events, their own and those at which they were received; events are the times of
\* those that tell a decision, an effect or a wait.
VARIABLES
    session,    \* [Traces -> None or a trace]
    narrative   \* [stage, summary, shown, told, links, batches]

narrativeVars == <<session, narrative>>

(***************************************************************************)
(* Lineage.                                                                *)
(***************************************************************************)

MaxOf(S) == CHOOSE x \in S : \A y \in S : y <= x

StartedAt(trace) == IF trace.start = None THEN trace.received ELSE trace.start

\* What the summary of the session goes by. (Mutated: what the links go by as well.)
TraceTimesOnly(trace) == MaxOf({trace.received} \cup ({trace.ended} \ {None}))

LatestActivityAt(trace) == MaxOf({trace.received} \cup ({trace.ended} \ {None}) \cup trace.marks)

\* The place of the trace that the metadata of the i-th names, if it is shown before it.
Explicit(shown, i) ==
    {p \in 1..(i - 1) : shown[i].trace.parent = shown[p].id}

\* inferSessionNarrativeParentTraceID: the trace before it, if that had nothing to do any
\* more when the i-th started and neither had any other that had started.
Inferred(shown, i) ==
    LET startedAt(n) == StartedAt(shown[n].trace)
        latest(n) == LatestActivityAt(shown[n].trace)
    IN  {p \in {i - 1} \ {0} :
            /\ startedAt(i) > latest(p)
            /\ \A o \in 1..(p - 1) : startedAt(o) < startedAt(i) => latest(o) < startedAt(i)}

Link(shown, i) ==
    LET link(type, parents) == [type |-> type, parent |-> CHOOSE p \in parents : TRUE]
    IN  IF Explicit(shown, i) # {} THEN link("explicit", Explicit(shown, i))
        ELSE IF Inferred(shown, i) # {} THEN link("inferred", Inferred(shown, i))
        ELSE link("unlinked", {0})

(***************************************************************************)
(* Batches.                                                                *)
(***************************************************************************)

Held == {t \in Traces : session[t] # None}
Least(a, b) == IF a = None \/ (b # None /\ b < a) THEN b ELSE a
Greatest(a, b) == IF a = None \/ (b # None /\ b > a) THEN b ELSE a

\* UpsertTrace; spans and events are added.
Marks(new) == new.marks \cup new.events \cup (IF new.events = {} THEN {} ELSE {Now})
Upserted(old, new) ==
    IF old = None
    THEN [start |-> new.start, received |-> Now, ended |-> new.ended,
          status |-> IF new.status = None THEN "running" ELSE new.status,
          parent |-> new.parent, marks |-> Marks(new), events |-> new.events]
    ELSE [old EXCEPT
            !.start = Least(@, new.start), !.ended = Greatest(@, new.ended),
            !.status = IF @ \in {"failed", "error"} \/ new.status = None THEN @ ELSE new.status,
            !.parent = IF new.parent = None THEN @ ELSE new.parent,
            !.marks = @ \cup Marks(new), !.events = @ \cup new.events]

Batch(t, new) ==
    /\ narrative.batches < MaxBatches
    /\ session' = [session EXCEPT ![t] = Upserted(@, new)]
    /\ narrative' = [narrative EXCEPT !.batches = @ + 1]

(***************************************************************************)
(* The request.                                                            *)
(***************************************************************************)

Init ==
    /\ session \in Histories
    /\ narrative = [stage |-> "asked", summary |-> None, shown |-> <<>>, told |-> <<>>,
                    links |-> <<>>, batches |-> 0]

InBucket(statuses) == Cardinality({t \in Held : session[t].status \in statuses})
Completed == {"completed", "ok"}
Failed == {"failed", "error", "cancelled"}

\* A session without traces has neither a first nor a last moment.
GetSummary ==
    /\ narrative.stage = "asked"
    /\ narrative' = [narrative EXCEPT !.stage = "counted", !.summary =
          [total |-> Cardinality(Held), completed |-> InBucket(Completed), failed |-> InBucket(Failed),
           running |-> Cardinality(Held) - InBucket(Completed) - InBucket(Failed),
           lastActivityAt |-> IF Held = {} THEN None
                              ELSE MaxOf({TraceTimesOnly(session[t]) : t \in Held})]]
    /\ UNCHANGED session

EarlierStart(s, t) ==
    \/ StartedAt(session[s]) < StartedAt(session[t])
    \/ StartedAt(session[s]) = StartedAt(session[t]) /\ s < t
Place(t) == 1 + Cardinality({s \in Held : EarlierStart(s, t)})

ListTraces ==
    LET returned == IF Cardinality(Held) < TraceLimit THEN Cardinality(Held) ELSE TraceLimit
        at(n) == CHOOSE t \in Held : Place(t) = n
    IN  /\ narrative.stage = "counted"
        /\ narrative' = [narrative EXCEPT
              !.stage = IF returned = 0 THEN "read" ELSE "listed",
              !.shown = [n \in 1..returned |-> [id |-> at(n), trace |-> session[at(n)]]]]
        /\ UNCHANGED session

ListSemanticEvents ==
    /\ narrative.stage = "listed"
    /\ narrative' = [narrative EXCEPT !.stage = "read",
          !.told = [n \in DOMAIN narrative.shown |-> session[narrative.shown[n].id].events]]
    /\ UNCHANGED session

StatementFails ==
    /\ narrative.stage \in {"asked", "counted", "listed"}
    /\ narrative' = [narrative EXCEPT !.stage = "failed"]
    /\ UNCHANGED session

ResolveLineage ==
    /\ narrative.stage = "read"
    /\ narrative' = [narrative EXCEPT !.stage = "answered",
          !.links = [n \in DOMAIN narrative.shown |-> Link(narrative.shown, n)]]
    /\ UNCHANGED session

Returned == Len(narrative.shown)
Truncated == narrative.summary.total > Returned
Count(type) == Cardinality({n \in DOMAIN narrative.links : narrative.links[n].type = type})

Next ==
    \/ \E t \in Traces, new \in Writes : Batch(t, new)
    \/ GetSummary
    \/ ListTraces
    \/ ListSemanticEvents
    \/ StatementFails
    \/ ResolveLineage

Spec == Init /\ [][Next]_narrativeVars
=============================================================================
