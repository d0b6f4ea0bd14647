SPECIFICATION Spec
CONSTANTS
    root = root
    other = other
    kid1 = kid1
    kid2 = kid2
    w1 = w1
    w2 = w2
    k1 = k1
    k2 = k2
    None = None
    Rank <- RankByInstance
    Instances = {root, kid1, kid2}
    Roots = {root}
    MaxNumber = 2
    MaxChildDepth = 2
    MaxContinuationFollowDepth = 1
    Habits = {"continues"}
    Workers = {w1, w2}
    Clients = {k1}
    Allowed <- FamilyBounds
INVARIANTS WaitsForOpenChild RelationshipFollowsChild TerminateReachesSubtree CancelIsPassedOn LocksAreOrdered
CHECK_DEADLOCK FALSE
PROPERTIES FamilyRests
