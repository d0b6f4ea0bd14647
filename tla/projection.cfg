SPECIFICATION Spec
CONSTANTS
    a1 = a1
    a2 = a2
    p1 = p1
    p2 = p2
    Activities = {a1, a2}
    Projectors = {p1}
    BuildMayMiss = TRUE
    NoRead = NoRead
    Allowed <- OneProjector
CHECK_DEADLOCK FALSE
INVARIANTS StateTellsTheTruth DetailFollowsHistory EndIsShown
PROPERTIES CatchesUp
