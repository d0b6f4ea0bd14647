---------------------------- MODULE MCProjection ----------------------------
(* Instances of Projection for TLC. *)
EXTENDS ProjectionProperties

CONSTANTS a1, a2, p1, p2

Bounds(signals, retries, purges, repairs, crashes) ==
    [kind \in BudgetKinds |-> CASE kind = "signals" -> signals
                                [] kind = "retries" -> retries
                                [] kind = "purges" -> purges
                                [] kind = "repairs" -> repairs
                                [] kind = "crashes" -> crashes]
OneProjector == Bounds(1, 1, 2, 1, 1)
=============================================================================
