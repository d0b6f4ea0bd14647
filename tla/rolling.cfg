SPECIFICATION Spec
CONSTANTS
    a1 = a1
    a2 = a2
    w1 = w1
    w2 = w2
    w3 = w3
    act = act
    act2 = act2
    sig = sig
    tmr = tmr
    mark = mark
    None = None
    Handled = {}
    Keys = {act, act2, sig, mark}
    SignalNames = {sig}
    Workers = {w1, w2, w3}
    Registered = {w1, w2}
    ActivityWorkers = {a1, a2}
    MaxAttempts = 2
    Deployed <- Rolling
    Allowed <- RollingBounds
SYMMETRY ActivityWorkersAlike
INVARIANTS ActivationFence SignalsInOrder ActivityJournal HistoryFitsABuild
PROPERTIES OutcomeDecidedByClaimant
CHECK_DEADLOCK FALSE
