SPECIFICATION Spec
CONSTANTS
    c1 = c1
    c2 = c2
    b1 = b1
    b2 = b2
    t1 = t1
    t2 = t2
    None = None
    Keys = {b1, b2}
    Clients = {c1, c2}
    Traces = {t1, t2}
    Rank <- Order
    Defines <- Carried
    Refers <- Named
    Modes = {"sync", "async"}
    ConflictAttempts = 2
    MaxRollupLoops = 2
    Allowed <- Disturbed
INVARIANTS WrittenWithItsCompletion AcceptedIsRunnable BatchesLockInOrder
PROPERTIES SettledRollupIsExact AcceptedIsFinished
CHECK_DEADLOCK FALSE
