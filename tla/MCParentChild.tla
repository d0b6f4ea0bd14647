---------------------------- MODULE MCParentChild ----------------------------
(***************************************************************************)
(* Instances of ParentChild for TLC.                                       *)
(***************************************************************************)
EXTENDS ParentChildProperties, TLC

CONSTANTS root, other, kid1, kid2, w1, w2, k1, k2

Interchangeable == Permutations(Workers) \cup Permutations(Clients)

\* The ids of the runs of one depth come in the order of their instances.
Place == root :> 0 @@ other :> 1 @@ kid1 :> 2 @@ kid2 :> 3
RankByInstance == [r \in Runs |-> 2 * Place[r[1]] + r[2]]

Bounds(signals, cancels, terminates, crashes) ==
    [signals |-> signals, cancels |-> cancels, terminates |-> terminates, crashes |-> crashes]
FamilyBounds == Bounds(0, 0, 1, 1)
KeyBounds == Bounds(1, 1, 1, 0)
=============================================================================
