SPECIFICATION Spec
CONSTANTS
    c1 = c1
    c2 = c2
    b1 = b1
    b2 = b2
    t1 = t1
    t2 = t2
    None = None
    Keys = {b1, b2}
    Clients = {c1}
    Traces = {t1}
    Rank <- Order
    Defines <- SameTrace
    Refers <- SameTrace
    Modes = {"sync"}
    ConflictAttempts = 2
    MaxRollupLoops = 3
    Allowed <- Calm
PROPERTIES RollupsCatchUp
CHECK_DEADLOCK FALSE
