SPECIFICATION Spec
CONSTANTS
    root = root
    other = other
    kid1 = kid1
    kid2 = kid2
    w1 = w1
    w2 = w2
    k1 = k1
    k2 = k2
    None = None
    Rank <- RankByInstance
    Instances = {root, kid1}
    Roots = {root}
    MaxNumber = 2
    MaxChildDepth = 2
    MaxContinuationFollowDepth = 1
    Habits = {"continues", "receives", "repeatsKey", "handlesRefusal"}
    Workers = {w1, w2}
    Clients = {k1}
    Allowed <- KeyBounds
SYMMETRY Interchangeable
INVARIANTS HeardIsTheChildsEnd
CHECK_DEADLOCK FALSE
