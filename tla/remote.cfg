SPECIFICATION Spec
CONSTANTS
    w1 = w1
    w2 = w2
    t1 = t1
    t2 = t2
    Tasks = {t1}
    Workers = {w1, w2}
    KeepsId = FALSE
    Slots = 1
    MaxAttempts = 2
    Allowed <- Troubled
CHECK_DEADLOCK FALSE
INVARIANTS OutcomeOfCurrentClaim RetriesLeaveAnAttempt
PROPERTIES EveryTaskEnds
