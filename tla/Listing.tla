------------------------------- MODULE Listing -------------------------------
(***************************************************************************)
(* The lists of traces and of sessions (internal/store/search.go,          *)
(* session_search.go, traces.sql, sessions.sql and their handlers), which  *)
(* a reader of the console walks page by page, by offset                   *)
(* (web/src/components/PaginationControls.tsx), while batches insert and   *)
(* change traces.                                                          *)
(***************************************************************************)
EXTENDS Integers, Sequences, FiniteSets, SequencesExt, Functions

CONSTANTS
    Traces, Sessions,   \* ids: numbers, for id is the last sort key
    Times,              \* of insertions: numbers
    Upserts,            \* [start, session, status], each a value or None
    Databases,          \* [traces, sessions] the reader may find
    Lists,              \* [of, only, value, by, descending]: what is asked for
    Relevance,          \* [Traces -> None or Nat]: ranks of the text search
    Limit,              \* rows of a page
    MaxWrites,          \* bound: upserts
    MaxLost,            \* bound: requests that fail
    None

VARIABLES
    traces,     \* [Traces -> None or [start, received, session, status]]
    sessions,   \* [Sessions -> None or the time of creation]
    walk,       \* the reader: [list, stage, offset, rows, total, shown, lost]
    since       \* since the walk began: [rows, writes, displaced]

listingVars == <<traces, sessions, walk, since>>

(***************************************************************************)
(* Queries.                                                                *)
(***************************************************************************)

Statuses(bucket) ==
    CASE bucket = "running" -> {"running"}
      [] bucket = "completed" -> {"completed", "ok"}
      [] bucket = "failed" -> {"failed", "error", "cancelled"}

Matching(list, ts, ss) ==
    IF list.of = "sessions" THEN {s \in Sessions : ss[s] # None}
    ELSE {t \in Traces :
            /\ ts[t] # None
            /\ CASE list.only = "session" -> ts[t].session = list.value
                 [] list.only = "status" -> ts[t].status \in Statuses(list.value)
                 [] list.only = "query" -> Relevance[t] # None
                 [] OTHER -> TRUE}

\* COALESCE(start_time, server_received_at)
SortTime(trace) == IF trace.start = None THEN trace.received ELSE trace.start

TraceCount(s, ts) == Cardinality({t \in Traces : ts[t] # None /\ ts[t].session = s})

\* What the rows are sorted by, the id last; a count is followed by the newest first.
Key(list, id, ts, ss) ==
    CASE list.of = "sessions" /\ list.by = "count" ->
            <<IF list.descending THEN -TraceCount(id, ts) ELSE TraceCount(id, ts), -ss[id], -id>>
      [] list.of = "sessions" /\ list.by = "time" ->
            IF list.descending THEN <<-ss[id], -id>> ELSE <<ss[id], id>>
      [] list.of = "traces" /\ list.by = "relevance" -> <<-Relevance[id], -SortTime(ts[id]), -id>>
      [] list.of = "traces" /\ list.by = "time" ->
            IF list.descending THEN <<-SortTime(ts[id]), -id>> ELSE <<SortTime(ts[id]), id>>

Precedes(k, l) == \E n \in DOMAIN k : k[n] < l[n] /\ \A m \in 1..(n - 1) : k[m] = l[m]

\* All rows of a list, in its order.
Rows(list, ts, ss) ==
    LET ids == Matching(list, ts, ss)
        place(i) == 1 + Cardinality({j \in ids : Precedes(Key(list, j, ts, ss), Key(list, i, ts, ss))})
    IN  [n \in 1..Cardinality(ids) |-> CHOOSE i \in ids : place(i) = n]

\* LIMIT and OFFSET
Page(rows, offset) ==
    SubSeq(rows, offset + 1, IF offset + Limit < Len(rows) THEN offset + Limit ELSE Len(rows))

\* Mutated: every list is counted first.
AlwaysCounted(list) == TRUE

\* Lists that filter, search or sort are written by hand and counted before they are
\* read (ListTracesFiltered, ListSessionsFiltered); the others after it.
CountedFirst(list) ==
    \/ list.of = "traces" /\ list.only \in {"status", "query"}
    \/ list.of = "sessions" /\ (list.by # "time" \/ ~list.descending)

(***************************************************************************)
(* Writes: the upsert of one trace by a batch, which may name a start, a   *)
(* session and a status or leave them as they are.                         *)
(***************************************************************************)

Upserted(old, new, now) ==
    IF old = None
    THEN [start |-> new.start, received |-> now, session |-> new.session,
          status |-> IF new.status = None THEN "running" ELSE new.status]
    ELSE [old EXCEPT
            !.start = IF new.start # None /\ (@ # None => new.start < @) THEN new.start ELSE @,
            !.session = IF new.session = None THEN @ ELSE new.session,
            !.status = IF @ \in {"failed", "error"} \/ new.status = None THEN @ ELSE new.status]

\* A row that was there has gone, or has another place among those that were there.
Displaced(ts, ss) ==
    LET before == Rows(walk.list, traces, sessions)
    IN  SelectSeq(Rows(walk.list, ts, ss), LAMBDA i : i \in Range(before)) # before

Upsert(t, new, now) ==
    LET ts == [traces EXCEPT ![t] = Upserted(@, new, now)]
        ss == IF new.session = None THEN sessions
              ELSE [sessions EXCEPT ![new.session] = IF @ = None THEN now ELSE @]
    IN  /\ since.writes < MaxWrites
        /\ traces' = ts /\ sessions' = ss
        /\ since' = [since EXCEPT !.writes = @ + 1, !.displaced = @ \/ Displaced(ts, ss)]
        /\ UNCHANGED walk

(***************************************************************************)
(* Requests.                                                               *)
(***************************************************************************)

Init ==
    \E database \in Databases, list \in Lists :
        /\ traces = database.traces /\ sessions = database.sessions
        /\ walk = [list |-> list, stage |-> "asked", offset |-> 0, rows |-> <<>>, total |-> 0,
                   shown |-> <<>>, lost |-> 0]
        /\ since = [rows |-> Matching(list, database.traces, database.sessions),
                    writes |-> 0, displaced |-> FALSE]

Count ==
    /\ walk.stage = (IF CountedFirst(walk.list) THEN "asked" ELSE "second")
    /\ walk' = [walk EXCEPT !.stage = IF @ = "asked" THEN "second" ELSE "answered",
                            !.total = Cardinality(Matching(walk.list, traces, sessions))]
    /\ UNCHANGED <<traces, sessions, since>>

List ==
    /\ walk.stage = (IF CountedFirst(walk.list) THEN "second" ELSE "asked")
    /\ walk' = [walk EXCEPT !.stage = IF @ = "asked" THEN "second" ELSE "answered",
                            !.rows = Page(Rows(walk.list, traces, sessions), walk.offset)]
    /\ UNCHANGED <<traces, sessions, since>>

\* Either statement fails: the reader asks for the page again.
RequestFails ==
    /\ walk.stage \in {"asked", "second"} /\ walk.lost < MaxLost
    /\ walk' = [walk EXCEPT !.stage = "asked", !.rows = <<>>, !.total = 0, !.lost = @ + 1]
    /\ UNCHANGED <<traces, sessions, since>>

LastValidOffset(total) == IF total <= 0 THEN 0 ELSE ((total - 1) \div Limit) * Limit

\* An empty page behind the last one sends the reader back to that.
RepairOffset ==
    /\ walk.stage = "answered"
    /\ walk.rows = <<>> /\ walk.offset > LastValidOffset(walk.total)
    /\ walk' = [walk EXCEPT !.stage = "asked", !.offset = LastValidOffset(walk.total), !.total = 0]
    /\ UNCHANGED <<traces, sessions, since>>

\* hasNextPage
TurnPage ==
    LET last == LastValidOffset(walk.total)
        current == IF walk.offset < last THEN walk.offset ELSE last
    IN  /\ walk.stage = "answered"
        /\ walk.rows # <<>> \/ walk.offset <= last
        /\ walk' = [walk EXCEPT !.shown = @ \o walk.rows, !.rows = <<>>,
                       !.stage = IF current + Limit < walk.total THEN "asked" ELSE "ended",
                       !.offset = IF current + Limit < walk.total THEN current + Limit ELSE @]
        /\ UNCHANGED <<traces, sessions, since>>

Next ==
    \/ \E t \in Traces, new \in Upserts, now \in Times : Upsert(t, new, now)
    \/ Count
    \/ List
    \/ RequestFails
    \/ RepairOffset
    \/ TurnPage

Spec == Init /\ [][Next]_listingVars
=============================================================================
