---------------------------- MODULE MCComponents ----------------------------
(***************************************************************************)
(* One instance for TLC of six components that share no state: a behaviour *)
(* is a behaviour of one of them, which the initial state chooses, and the *)
(* variables of the others stay None.                                      *)
(***************************************************************************)
EXTENDS Integers, Sequences, FiniteSets, TLC

CONSTANTS None, act, act2, sig, sig2, tmr, mark

VARIABLES
    component,                                       \* which of the six this is
    traces, request,                                 \* SessionCompare
    batches, rows, clock, client,                    \* TraceTimeline
    work, conn, wakes, merged, loop, process,        \* RuntimeProcess
    runner, inbox, sim,                              \* Simulator
    listed, sessions, walk, since,                   \* Listing
    session, narrative                               \* SessionNarrative

compareVars == <<traces, request>>
timelineVars == <<batches, rows, clock, client>>
processVars == <<work, conn, wakes, merged, loop, process>>
simulatorVars == <<runner, inbox, sim>>
listingVars == <<listed, sessions, walk, since>>
narrativeVars == <<session, narrative>>

(***************************************************************************)
(* SessionCompare: every pair of small forests, with a circle, an unknown  *)
(* parent and shared ids among them; lists of up to two events on each     *)
(* side; traces that are written meanwhile or still run; one too large.    *)
(***************************************************************************)

Spans(ids, parents, labels) ==
    [i \in DOMAIN ids |-> [id |-> ids[i], parent |-> parents[i], label |-> labels[i], shown |-> 0]]
Side(spans, events, late, status) ==
    [inSession |-> TRUE, status |-> status, spans |-> spans, events |-> events, late |-> late]
Asked(baseline, candidate, same) == [traces |-> [baseline |-> baseline, candidate |-> candidate], same |-> same]

Parents(ids) ==
    {<<p, q, r>> : p \in {None, ids[2]}, q \in {None, ids[1], ids[3]}, r \in {None, ids[1], ids[2]}}
Alike == <<"a", "a", "a">>
Forests ==
    UNION {{Asked(Side(Spans(<<1, 2, 3>>, p, Alike), <<>>, 0, "completed"),
                  Side(Spans(ids, q, labels), <<>>, 0, "completed"), FALSE) :
              p \in Parents(<<1, 2, 3>>), q \in Parents(ids), labels \in {Alike, <<"b", "a", "a">>}} :
           ids \in {<<4, 5, 6>>, <<4, 3, 2>>}}

Event(span, type, key, content) == [span |-> span, type |-> type, key |-> key, content |-> content]
EventLists(span) ==
    UNION {[1..n -> {Event(span, "decision", None, 1), Event(span, "decision", 1, 1),
                     Event(span, "decision", 1, 2), Event(7, "wait", 1, 1)}] : n \in 0..2}
Tellings ==
    {Asked(Side(Spans(<<1>>, <<None>>, <<"a">>), e, 0, "completed"),
           Side(Spans(<<4>>, <<None>>, <<"a">>), f, 0, "completed"), FALSE) :
       e \in EventLists(1), f \in EventLists(4)}

Racing ==
    {Asked(Side(Spans(<<1, 2>>, <<None, 1>>, Alike), <<Event(3, "wait", 1, 1)>>, 1, status),
           Side(Spans(<<4, 5>>, <<None, 4>>, Alike), <<>>, 1, "completed"), same) :
       status \in {"completed", "running"}, same \in BOOLEAN}
Late == {[id |-> i, parent |-> p, label |-> "a", shown |-> 0] : i \in {3, 6}, p \in {None, 1, 4}}

Compare ==
    INSTANCE SessionCompareProperties
        WITH Inputs <- Forests \cup Tellings \cup Racing, LateSpans <- Late, MaxSpans <- 3, MaxEvents <- 2

(***************************************************************************)
(* TraceTimeline: three batches; spans that end with their batch or later, *)
(* well or badly, one that is taken back to running, and an event without  *)
(* a sequence.                                                             *)
(***************************************************************************)

Written(status, spans, events) == [status |-> status, spans |-> spans, events |-> events]
SpanRow(id, status, ended) == [id |-> id, status |-> status, ended |-> ended]
EventRow(id, sequence) == [id |-> id, sequence |-> sequence]
BatchPlans ==
    {<<Written(None, {SpanRow(1, "running", FALSE), SpanRow(2, "running", FALSE)}, {EventRow(11, 1)}),
       Written(None, {SpanRow(1, "completed", TRUE)}, {}),
       Written("completed", {SpanRow(2, "failed", TRUE)}, {})>>,
     <<Written("running", {SpanRow(1, "completed", TRUE)}, {EventRow(11, None)}),
       Written("failed", {SpanRow(1, "running", FALSE), SpanRow(2, "error", TRUE)}, {EventRow(12, 1)})>>}

Timeline ==
    INSTANCE TraceTimelineProperties WITH Plans <- BatchPlans, PageLimit <- 2, MaxPolls <- 2, MaxLost <- 1

(***************************************************************************)
(* RuntimeProcess: the workflow loop under a listener that breaks; an      *)
(* activity and the maintenance loop beside two servers; and both claiming *)
(* loops with the wakes that do not come from the database.                *)
(***************************************************************************)

ProcessSetups ==
    {[servers |-> {}, loops |-> {"workflow"}, inputs |-> {"runs", "inbox"},
      work |-> 2, breaks |-> 1, errors |-> 0],
     [servers |-> {"metrics", "http"}, loops |-> {"activity", "maintenance"}, inputs |-> {"activityReady"},
      work |-> 1, breaks |-> 0, errors |-> 1],
     [servers |-> {}, loops |-> {"workflow", "activity"}, inputs |-> {"localOutcome", "runs", "localRetry"},
      work |-> 2, breaks |-> 0, errors |-> 0]}

Runtime == INSTANCE RuntimeProcessProperties WITH BufferSize <- 1, Setups <- ProcessSetups

(***************************************************************************)
(* Simulator: every function of two or three calls, with scripts that      *)
(* complete, fail or forget an activity, signals that are awaited or not,  *)
(* and a cancellation; the cap lets three activations happen.              *)
(***************************************************************************)

Cmd(op, key) == [op |-> op, key |-> key]
Calls ==
    {Cmd("activity", act), Cmd("activity", act2), Cmd("timer", tmr), Cmd("marker", mark),
     Cmd("checkCancel", None), Cmd("signal", sig)}
Functions ==
    {f \in UNION {[1..n -> Calls] : n \in 2..3} :
       \A i, j \in DOMAIN f : i < j /\ f[i] = f[j] => f[i].op \notin {"activity", "timer"}}
Activities == {act, act2}
SimulatorKeys == {act, act2, sig, sig2, tmr, mark}
Scripts ==
    {[k \in SimulatorKeys |-> CASE k = act -> first [] k = act2 -> second [] OTHER -> "none"] :
       first \in {"completed", "failed", "none"}, second \in {"completed", "failed"}}
Cases ==
    [program : Functions, script : Scripts, signals : {<<>>, <<sig>>, <<sig2, sig>>}, cancel : BOOLEAN]

Kit ==
    INSTANCE SimulatorProperties
        WITH Keys <- SimulatorKeys, Handled <- {act}, Scenarios <- Cases, ActivationCap <- 3

(***************************************************************************)
(* Listing: two traces and one to come, two sessions, pages of one row,    *)
(* every kind of list, and two upserts that insert, move, settle or take a *)
(* trace to another session.                                               *)
(***************************************************************************)

TraceRow(start, inSession) == [start |-> start, received |-> 2, session |-> inSession, status |-> "running"]
Tables ==
    {[traces |-> 1 :> TraceRow(first, 1) @@ 2 :> TraceRow(2, 2) @@ 3 :> None, sessions |-> 1 :> 1 @@ 2 :> created] :
       first \in {None, 1}, created \in {1, 2}}
ListOf(of, only, value, by, descending) ==
    [of |-> of, only |-> only, value |-> value, by |-> by, descending |-> descending]
AllLists ==
    {ListOf("traces", "none", None, "time", d) : d \in BOOLEAN} \cup
    {ListOf("sessions", "none", None, by, d) : by \in {"time", "count"}, d \in BOOLEAN} \cup
    {ListOf("traces", "session", 1, "time", TRUE), ListOf("traces", "status", "running", "time", TRUE),
     ListOf("traces", "query", None, "relevance", TRUE)}
Sent(start, inSession, status) == [start |-> start, session |-> inSession, status |-> status]

Pages ==
    INSTANCE ListingProperties
        WITH traces <- listed, Traces <- 1..3, Sessions <- 1..2, Times <- 1..2, Databases <- Tables,
             Upserts <- {Sent(1, 1, None), Sent(2, 2, None), Sent(None, None, "completed"), Sent(2, 1, "running")},
             Lists <- AllLists, Relevance <- (1 :> 1 @@ 2 :> None @@ 3 :> 0), Limit <- 1,
             MaxWrites <- 2, MaxLost <- 1

(***************************************************************************)
(* SessionNarrative: up to four traces that overlap or follow each other,  *)
(* by their own times, their spans' and their events', with links to       *)
(* earlier, later and unknown traces; three are shown.                     *)
(***************************************************************************)

Told(start, received, ended, status, parent, marks, events) ==
    [start |-> start, received |-> received, ended |-> ended, status |-> status, parent |-> parent,
     marks |-> marks \cup events, events |-> events]
Pasts ==
    {1 :> a @@ 2 :> b @@ 3 :> c @@ 4 :> d :
       a \in {None, Told(1, 2, None, "ok", None, {}, {}), Told(None, 2, None, "running", 3, {1, 5}, {})},
       b \in {None} \cup {Told(s, 3, e, "failed", p, {}, {4}) : s \in {1, 2, 5}, e \in {None, 6}, p \in {None, 1}},
       c \in {None} \cup {Told(s, 3, None, "error", p, {}, {}) : s \in {4, 7}, p \in {None, 1, 9}},
       d \in {None, Told(8, 8, None, "running", None, {}, {})}}
Sendings ==
    {[start |-> 1, ended |-> None, status |-> None, parent |-> None, marks |-> {}, events |-> {}],
     [start |-> None, ended |-> 3, status |-> "completed", parent |-> 1, marks |-> {}, events |-> {3}]}

Story ==
    INSTANCE SessionNarrativeProperties
        WITH Traces <- 1..4, Histories <- Pasts, Writes <- Sendings, Now <- 6, TraceLimit <- 3, MaxBatches <- 1

(***************************************************************************)
(* One of the six.                                                         *)
(***************************************************************************)

Init ==
    /\ component \in {"compare", "timeline", "runtime", "simulator", "listing", "narrative"}
    /\ IF component = "compare" THEN Compare!Init ELSE traces = None /\ request = None
    /\ IF component = "timeline" THEN Timeline!Init
       ELSE batches = None /\ rows = None /\ clock = None /\ client = None
    /\ IF component = "runtime" THEN Runtime!Init
       ELSE work = None /\ conn = None /\ wakes = None /\ merged = None /\ loop = None /\ process = None
    /\ IF component = "simulator" THEN Kit!Init ELSE runner = None /\ inbox = None /\ sim = None
    /\ IF component = "listing" THEN Pages!Init
       ELSE listed = None /\ sessions = None /\ walk = None /\ since = None
    /\ IF component = "narrative" THEN Story!Init ELSE session = None /\ narrative = None

notCompare == <<component, timelineVars, processVars, simulatorVars, listingVars, narrativeVars>>
notTimeline == <<component, compareVars, processVars, simulatorVars, listingVars, narrativeVars>>
notRuntime == <<component, compareVars, timelineVars, simulatorVars, listingVars, narrativeVars>>
notSimulator == <<component, compareVars, timelineVars, processVars, listingVars, narrativeVars>>
notListing == <<component, compareVars, timelineVars, processVars, simulatorVars, narrativeVars>>
notNarrative == <<component, compareVars, timelineVars, processVars, simulatorVars, listingVars>>

Next ==
    \/ component = "compare" /\ Compare!Next /\ UNCHANGED notCompare
    \/ component = "timeline" /\ Timeline!Next /\ UNCHANGED notTimeline
    \/ component = "runtime" /\ Runtime!Next /\ UNCHANGED notRuntime
    \/ component = "simulator" /\ Kit!SimulatorNext /\ UNCHANGED notSimulator
    \/ component = "listing" /\ Pages!Next /\ UNCHANGED notListing
    \/ component = "narrative" /\ Story!Next /\ UNCHANGED notNarrative

\* The fairness of RuntimeProcess, where it is the component.
Runs(action) == component = "runtime" /\ action /\ UNCHANGED notRuntime
RuntimeFairness ==
    /\ WF_processVars(Runs(Runtime!ListenerNext))
    /\ WF_processVars(Runs(Runtime!RunNext))
    /\ \A l \in Runtime!Loops : WF_processVars(Runs(Runtime!LoopNext(l)))

vars == <<component, compareVars, timelineVars, processVars, simulatorVars, listingVars, narrativeVars>>
Spec == Init /\ [][Next]_vars /\ RuntimeFairness

(***************************************************************************)
(* What each component promises, as its own properties module states it.   *)
(***************************************************************************)

\* Two spans are paired exactly if they are the same or in the same place, and every
\* span and event is reported once (SessionCompareProperties).
ComparedByPlace == component = "compare" => Compare!PairedByPlace /\ Compare!ReportedOnce

\* A timeline fetched whole has what was there all along, and one that was watched to
\* the end of its trace shows all of it (TraceTimelineProperties).
TimelineIsComplete == component = "timeline" => Timeline!SnapshotIsWhole /\ Timeline!EndIsComplete

\* A loop that waits although there is work has a wake under way (RuntimeProcessProperties).
WaitingIsWoken == component = "runtime" => Runtime!WaitingIsWoken

\* Claims are released after the last iteration, and the process answers nil exactly if
\* it was asked to stop and no loop had failed (RuntimeProcessProperties).
StopsCleanly == component = "runtime" => Runtime!StopsCleanly

\* A process that is to stop does (RuntimeProcessProperties).
StopsInTheEnd ==
    (component = "runtime" /\ process.group) ~> (component = "runtime" /\ process.stage = "returned")

\* A test sees what the function does when it is simply executed (SimulatorProperties).
SimulatedAsWritten == component = "simulator" => Kit!SimulatedAsWritten

\* A reader who turns all pages of a list has seen it (ListingProperties).
WalkIsComplete == component = "listing" => Pages!WalkIsComplete

\* Links lead back to traces that had come to rest, and the parts of a narrative agree
\* (SessionNarrativeProperties).
NarrativeIsSound == component = "narrative" => Story!NarrativeIsSound
=============================================================================
