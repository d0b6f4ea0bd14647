--------------------------- MODULE MCIngestBatches ---------------------------
(* Instances of IngestBatches for TLC. *)
EXTENDS IngestBatchesProperties, TLC

CONSTANTS c1, c2, b1, b2, t1, t2

Order == t1 :> 1 @@ t2 :> 2

\* b1 brings both traces, b2 one of them and spans of the other.
Carried == b1 :> {t1, t2} @@ b2 :> {t2}
Named == b1 :> {t1, t2} @@ b2 :> {t1, t2}
Bounds(conflicts, crashes) == [kind \in BudgetKinds |-> IF kind = "crashes" THEN crashes ELSE conflicts]
Disturbed == Bounds(2, 1)

\* Two batches of one trace.
SameTrace == b1 :> {t1} @@ b2 :> {t1}
Calm == Bounds(0, 0)
=============================================================================
