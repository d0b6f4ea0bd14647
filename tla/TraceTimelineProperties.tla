---------------------- MODULE TraceTimelineProperties ----------------------
(***************************************************************************)
(* What a reader of a timeline may rely on, and how far.                   *)
(***************************************************************************)
EXTENDS TraceTimeline

\* A timeline that was fetched whole, however many pages that took and whatever was
\* written meanwhile, has every entry that existed from its first request on: rows that
\* come in, in any order of their created_at, may be missed, but never push an older
\* entry out of the page it belongs to (paginateTimelineEntries).
SnapshotIsWhole == ~Fetching => client.since \subseteq client.view

\* A client that has watched the trace until its end shows all of it, although single
\* polls miss rows that were inserted before their cursor: if nothing is written after
\* the end, then when the client rests it shows exactly what there is
\* (useTraceTimeline.ts, needsTerminalRefresh). A first fetch of several pages that the
\* trace ends under rests as well, without a last fetch: it may miss entries.
EndIsComplete ==
    client.mode = "resting" /\ client.polled /\ ~client.failed /\ ~rows.late =>
        Bucket(rows.status) # "RUNNING" /\ client.view = Ids
=============================================================================
