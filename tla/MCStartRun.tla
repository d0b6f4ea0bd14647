----------------------------- MODULE MCStartRun ------------------------------
(* Instances of StartRun for TLC. *)
EXTENDS StartRunProperties, TLC

CONSTANTS c1, c2, q1, q2, i1, old, new, r1, r2

\* Two requests for one instance, with the definitions of two builds.
SameInstance == q1 :> i1 @@ q2 :> i1
OldAndNew == q1 :> old @@ q2 :> new
Builds == r1 :> {old} @@ r2 :> {new}
Bounds(requests, failures, deployments, reaps) ==
    [kind \in BudgetKinds |-> CASE kind = "requests" -> requests
                                [] kind = "failures" -> failures
                                [] kind = "deployments" -> deployments
                                [] kind = "reaps" -> reaps]
Deploying == Bounds(4, 1, 2, 2)
=============================================================================
