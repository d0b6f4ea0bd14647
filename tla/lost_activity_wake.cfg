SPECIFICATION FairSpec
CONSTANTS
    a1 = a1
    a2 = a2
    w1 = w1
    w2 = w2
    w3 = w3
    act = act
    act2 = act2
    sig = sig
    tmr = tmr
    mark = mark
    None = None
    Handled = {}
    Keys = {act, sig}
    SignalNames = {sig}
    Workers = {w1}
    Registered = {w1}
    ActivityWorkers = {a1}
    MaxAttempts = 1
    Deployed <- ActivityThenSignal
    Allowed <- OneSignal
PROPERTIES ReachesRest
CHECK_DEADLOCK FALSE
