SPECIFICATION FairSpec
CONSTANTS
    a1 = a1
    a2 = a2
    w1 = w1
    w2 = w2
    w3 = w3
    act = act
    act2 = act2
    sig = sig
    tmr = tmr
    mark = mark
    None = None
    Handled = {act}
    Keys = {act, tmr, mark}
    SignalNames = {}
    Workers = {w1, w2}
    Registered = {w1, w2}
    ActivityWorkers = {a1, a2}
    MaxAttempts = 2
    Deployed <- Undisturbed
    Allowed <- UndisturbedBounds
PROPERTIES ReachesRest
CHECK_DEADLOCK FALSE
