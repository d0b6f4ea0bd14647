----------------------- MODULE IngestBatchesProperties -----------------------
(***************************************************************************)
(* What ingestion promises to the senders of batches and to the readers of *)
(* traces.                                                                 *)
(***************************************************************************)
EXTENDS IngestBatches

\* A batch's content is committed at most once, and exactly when the batch is
\* completed: however often a request is repeated, an attempt aborted, a job run again
\* or a commit's answer lost, nothing is ingested twice and nothing is reported that was
\* not written (ClaimBatchOrGetExisting, resolveCommitOutcome; "SDK retries are safe",
\* docs-site/concepts/ingest-lifecycle.mdx).
WrittenWithItsCompletion ==
    \A k \in Keys : batch[k].written = IF batch[k].status = "completed" THEN 1 ELSE 0

\* A batch that was accepted is never stranded: while it is not finished it has its
\* payload and a job that will run (AcceptAsync, retryBatch, CleanupExpiredPayloads).
AcceptedIsRunnable ==
    \A k \in Keys : batch[k].status \in {"queued", "processing"} => k \in payload /\ job[k] # "none"

\* "completed" and "failed" are final, although a job is run again after its batch has
\* ended (claimBatch).
FinishedIsFinal ==
    [][\A k \in Keys : batch[k].status \in Finished => batch'[k].status = batch[k].status]_vars

\* Spans are only ever written below a trace that a committed batch has defined
\* (lockTraces: "A trace referenced only by spans or events must already exist").
SpansHaveTheirTrace ==
    \A t \in Traces : trace[t].spans # {} => \E k \in trace[t].spans : t \in Defines[k]

\* A transaction never waits for a trace below one that it has locked, so batches
\* queue instead of deadlocking (ProcessBatch: "one global lock order").
BatchesLockInOrder ==
    \A p \in Processes, t \in Traces :
        tx[p].stage = "locking" /\ NextTrace(p, t) => \A s \in tx[p].locked : Rank[s] < Rank[t]

\* A rollup that stops because the version stands still has counted every span,
\* whatever was committed between its statements (TraceRollupWorker.Work).
SettledRollupIsExact ==
    [][\A t \in Traces :
         /\ rollup[t].stage = "updated" /\ rollup'[t].stage = "returning"
         /\ rollup'[t].loops < MaxRollupLoops
         => trace[t].total = trace[t].spans]_vars

\* Every accepted batch is finished in the end: written, or failed when the traces that
\* it refers to have not come in time.
AcceptedIsFinished ==
    \A k \in Keys : batch[k].status = "queued" ~> batch[k].status \in Finished

\* The aggregates reflect all spans in the end (TraceRollupWorker: "updates aren't lost
\* when uniqueness coalesces duplicate enqueues", trace_rollup.go:41).
RollupsCatchUp == <>[](\A t \in Traces : trace[t].total = trace[t].spans)
=============================================================================
