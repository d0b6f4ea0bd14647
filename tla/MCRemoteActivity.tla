-------------------------- MODULE MCRemoteActivity --------------------------
(* Instances of RemoteActivity for TLC. *)
EXTENDS RemoteActivityProperties

CONSTANTS w1, w2, t1, t2

Limits3(failures, lateness, terminates) ==
    [kind \in BudgetKinds |-> CASE kind = "failures" -> failures
                                [] kind = "lateness" -> lateness
                                [] kind = "terminates" -> terminates]
Troubled == Limits3(1, 1, 1)
=============================================================================
