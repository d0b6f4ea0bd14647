-------------------------- MODULE ListingProperties --------------------------
(***************************************************************************)
(* What a reader who turns all pages has seen.                             *)
(***************************************************************************)
EXTENDS Listing

\* Nothing is written: every row is shown once, in the order of the list, on pages of
\* which no two statements knew of each other, and the total is their number.
ExactWhenQuiet ==
    since.writes = 0 => walk.shown = Rows(walk.list, traces, sessions) /\ walk.total = Len(walk.shown)

\* Rows are inserted, before, between and behind those already shown: they shift the
\* pages, so that some rows are shown twice, but none that was there from the beginning
\* is missed, as long as the list is counted after it is read. A list that is counted
\* before may end a page early; and a row that takes an earlier start, another session
\* or another count moves the rows behind it forward, past the reader.
Unfiltered(list) ==
    \/ list.of = "traces" /\ list.only \in {"none", "session"}
    \/ list.of = "sessions" /\ list.by = "time" /\ list.descending
NothingMissed ==
    ~since.displaced /\ Unfiltered(walk.list) => since.rows \subseteq Range(walk.shown)

\* A reader who turns the pages of a list of traces or sessions to its end has seen it
\* (ListTraces, ListSessions: list and count are statements of their own, and so is
\* every page).
WalkIsComplete == walk.stage = "ended" => ExactWhenQuiet /\ NothingMissed
=============================================================================
