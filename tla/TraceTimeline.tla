---------------------------- MODULE TraceTimeline ----------------------------
(***************************************************************************)
(* The timeline of a trace while batches are written into it: the merged   *)
(* entries and their cursors (internal/api/timeline.go), the statements of *)
(* a request (traces_handlers.go), and the client that fetches the whole   *)
(* timeline page by page, polls for more, and fetches it again at the end  *)
(* (web/src/pages/useTraceTimeline.ts).                                    *)
(***************************************************************************)
EXTENDS Integers, FiniteSets

CONSTANTS
    Plans,       \* [Batch names -> what that batch's transaction writes]
    PageLimit,   \* entries in a page
    MaxPolls,    \* bound: polls
    MaxLost,     \* bound: requests that fail
    None

\* A batch writes a trace status or None, spans [id, status, ended] and events
\* [id, sequence].
VARIABLES
    batches,   \* [DOMAIN plan -> [writes, stage, created]]
    rows,      \* [status, spans, events]: the trace
    clock,     \* of the database
    client

timelineVars == <<batches, rows, clock, client>>

(***************************************************************************)
(* Entries and pages.                                                      *)
(***************************************************************************)

\* buildTimelineEntries: an entry is [created, source, place, id], where source is its
\* rank, and place the sequence of an event (a missing one comes last) or the phase of a
\* marker. An entry is never without its span's start: spans always have a start time.
Explicit(event) ==
    [created |-> event.created, source |-> 0,
     place |-> IF event.sequence = None THEN <<1, 0>> ELSE <<0, event.sequence>>, id |-> <<event.id, "event">>]
Marker(span, phase, type) ==
    [created |-> span.created, source |-> 1, place |-> <<0, phase>>, id |-> <<span.id, type>>]

TerminalMarkers(span) ==
    CASE ~span.ended -> {}
      [] span.ended /\ span.status = "completed" -> {Marker(span, 1, "span_completed")}
      [] span.ended /\ span.status \in {"failed", "error"} -> {Marker(span, 1, "span_failed")}
      [] OTHER -> {}

Entries(events, spans) ==
    {Explicit(e) : e \in events} \cup
    UNION {{Marker(s, 0, "span_started")} \cup TerminalMarkers(s) : s \in spans}

\* compareTimelineEntriesByCursor
Before(a, b) ==
    \/ a.created < b.created
    \/ a.created = b.created /\ a.source < b.source
    \/ /\ a.created = b.created /\ a.source = b.source
       /\ \/ a.place[1] < b.place[1]
          \/ a.place[1] = b.place[1] /\ a.place[2] < b.place[2]
          \/ a.place = b.place /\ a.id[1] < b.id[1]

\* A cursor names one entry; it is resolved by looking for that very entry.
Cursor(entry) == [created |-> entry.created, source |-> entry.source, id |-> entry.id]
Valid(entries, after) == after = None \/ \E e \in entries : Cursor(e) = after
Rest(entries, after) ==
    IF after = None THEN entries
    ELSE LET at == CHOOSE e \in entries : Cursor(e) = after IN {e \in entries : Before(at, e)}

HasMore(rest) == Cardinality(rest) > PageLimit

\* paginateTimelineEntries; poll is timelinePollCursor.
Page(entries, after) ==
    LET rest == Rest(entries, after)
        page == {e \in rest : Cardinality({f \in rest : Before(f, e)}) < PageLimit}
    IN  [entries |-> {e.id : e \in page},
         more |-> HasMore(rest),
         poll |-> IF page = {} THEN after
                  ELSE Cursor(CHOOSE e \in page : \A f \in page : f = e \/ Before(f, e))]

(***************************************************************************)
(* Batches. A row's created_at is NOW(), the start of its transaction,     *)
(* which then waits for the lock of the trace: commits follow no order of  *)
(* their own.                                                              *)
(***************************************************************************)

Bucket(status) ==
    CASE status \in {"completed", "ok"} -> "COMPLETED"
      [] status \in {"failed", "error", "cancelled"} -> "FAILED"
      [] OTHER -> "RUNNING"

Init ==
    /\ \E plan \in Plans :
          batches = [b \in DOMAIN plan |-> [writes |-> plan[b], stage |-> "new", created |-> 0]]
    /\ rows = [status |-> "running", spans |-> {}, events |-> {}, late |-> FALSE]
    /\ clock = 0
    /\ client = [mode |-> "bootstrap", stage |-> "idle", after |-> None, seen |-> {}, since |-> {},
                 status |-> "RUNNING", view |-> {}, cursor |-> None, polled |-> FALSE, failed |-> FALSE,
                 read |-> [status |-> "RUNNING", events |-> {}], polls |-> 0, lost |-> 0]

AllEntries == Entries(rows.events, rows.spans)
Ids == {e.id : e \in AllEntries}

BeginBatch(b) ==
    /\ batches[b].stage = "new"
    /\ \E now \in {clock, clock + 1} :
          /\ clock' = now
          /\ batches' = [batches EXCEPT ![b].stage = "open", ![b].created = now]
    /\ UNCHANGED <<rows, client>>

\* UpsertSpan: a failure is never taken back, any other status is; an end time stays.
MergedSpan(old, new) ==
    [old EXCEPT !.status = IF @ \in {"failed", "error"} THEN @ ELSE new.status, !.ended = @ \/ new.ended]

WrittenSpans(b) ==
    LET new == batches[b].writes.spans
    IN  {IF \E n \in new : n.id = s.id THEN MergedSpan(s, CHOOSE n \in new : n.id = s.id) ELSE s : s \in rows.spans}
        \cup {[id |-> n.id, status |-> n.status, ended |-> n.ended, created |-> batches[b].created] :
                n \in {m \in new : \A s \in rows.spans : s.id # m.id}}

WrittenEvents(b) ==
    rows.events \cup {[id |-> e.id, sequence |-> e.sequence, created |-> batches[b].created] :
                         e \in batches[b].writes.events}

\* UpsertTrace: so is the trace's; late remembers that something was written after its end.
WrittenStatus(b) ==
    IF rows.status \in {"failed", "error"} \/ batches[b].writes.status = None
    THEN rows.status
    ELSE batches[b].writes.status

CommitBatch(b) ==
    LET spans == WrittenSpans(b)
        events == WrittenEvents(b)
    IN  /\ batches[b].stage = "open"
        /\ batches' = [batches EXCEPT ![b].stage = "committed"]
        /\ rows' = [status |-> WrittenStatus(b), spans |-> spans, events |-> events,
                    late |-> rows.late \/ Bucket(rows.status) # "RUNNING"]
        /\ client' = [client EXCEPT !.since = @ \cap {e.id : e \in Entries(events, spans)}]
        /\ UNCHANGED clock

(***************************************************************************)
(* A request: three statements, each with a snapshot of its own. The       *)
(* response is computed from the last and taken by the client.             *)
(***************************************************************************)

Fetching == client.mode \in {"bootstrap", "refresh"}

\* fetchFullTimelineSnapshot begins: since are the entries that exist all along.
BeginFetch ==
    /\ Fetching /\ client.stage = "idle"
    /\ client' = [client EXCEPT !.stage = "asked", !.after = None, !.seen = {}, !.since = Ids]
    /\ UNCHANGED <<batches, rows, clock>>

Poll ==
    /\ client.mode = "polling" /\ client.stage = "idle" /\ client.polls < MaxPolls
    /\ client' = [client EXCEPT !.stage = "asked", !.after = client.cursor, !.polls = @ + 1]
    /\ UNCHANGED <<batches, rows, clock>>

ReadTrace ==
    /\ client.stage = "asked"
    /\ client' = [client EXCEPT !.stage = "traceRead", !.read.status = Bucket(rows.status)]
    /\ UNCHANGED <<batches, rows, clock>>

ReadEvents ==
    /\ client.stage = "traceRead"
    /\ client' = [client EXCEPT !.stage = "eventsRead", !.read.events = rows.events]
    /\ UNCHANGED <<batches, rows, clock>>

Read == Entries(client.read.events, rows.spans)
Answered == client.stage = "eventsRead" /\ Valid(Read, client.after)

\* The loop goes on while there is a next cursor.
NextPage ==
    LET page == Page(Read, client.after)
    IN  /\ Answered /\ Fetching /\ page.more
        /\ client' = [client EXCEPT !.stage = "asked", !.after = page.poll, !.seen = @ \cup page.entries]
        /\ UNCHANGED <<batches, rows, clock>>

\* The snapshot replaces what was shown; its status is that of the last page.
LastPage ==
    LET page == Page(Read, client.after)
    IN  /\ Answered /\ Fetching /\ ~page.more
        /\ client' = [client EXCEPT !.stage = "idle",
              !.mode = IF client.read.status = "RUNNING" THEN "polling" ELSE "resting",
              !.status = client.read.status, !.view = client.seen \cup page.entries,
              !.cursor = page.poll, !.read.events = {}]
        /\ UNCHANGED <<batches, rows, clock>>

\* Mutated: the client stops as soon as it sees the end.
JustRests == "resting"

AtEnd == "refresh"

\* A poll takes one page and merges it into what is shown.
PollAnswered ==
    LET page == Page(Read, client.after)
    IN  /\ Answered /\ client.mode = "polling"
        /\ client' = [client EXCEPT !.stage = "idle", !.polled = TRUE,
              !.mode = IF client.read.status = "RUNNING" THEN "polling" ELSE AtEnd,
              !.status = client.read.status, !.view = @ \cup page.entries,
              !.cursor = IF page.poll = None THEN @ ELSE page.poll, !.read.events = {}]
        /\ UNCHANGED <<batches, rows, clock>>

InvalidCursor == client.stage = "eventsRead" /\ ~Valid(Read, client.after)

\* A request fails. A poll is repeated, the first fetch as well but only a few times,
\* the last fetch is not.
RequestFails(again) ==
    /\ again \in (CASE client.mode = "polling" -> {TRUE}
                    [] client.mode = "bootstrap" -> BOOLEAN
                    [] OTHER -> {FALSE})
    /\ client.stage # "idle"
    /\ InvalidCursor \/ client.lost < MaxLost
    /\ client' = [client EXCEPT !.stage = "idle", !.read.events = {},
          !.lost = IF InvalidCursor THEN @ ELSE @ + 1,
          !.mode = IF again THEN @ ELSE "resting", !.failed = ~again,
          !.since = IF Fetching THEN {} ELSE @]
    /\ UNCHANGED <<batches, rows, clock>>

Next ==
    \/ \E b \in DOMAIN batches : BeginBatch(b) \/ CommitBatch(b)
    \/ BeginFetch
    \/ Poll
    \/ ReadTrace
    \/ ReadEvents
    \/ NextPage
    \/ LastPage
    \/ PollAnswered
    \/ \E again \in BOOLEAN : RequestFails(again)

Spec == Init /\ [][Next]_timelineVars
=============================================================================
