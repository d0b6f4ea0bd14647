SPECIFICATION Spec
CONSTANTS
    a1 = a1
    a2 = a2
    w1 = w1
    w2 = w2
    w3 = w3
    act = act
    act2 = act2
    sig = sig
    tmr = tmr
    mark = mark
    None = None
    Handled = {}
    Keys = {act, sig, tmr}
    SignalNames = {sig}
    Workers = {w1, w2}
    Registered = {w1, w2}
    ActivityWorkers = {a1}
    MaxAttempts = 2
    Deployed <- Escalation
    Allowed <- EscalationBounds
SYMMETRY Interchangeable
INVARIANTS InboxJournal ReplayNeverDiverges EndedRunIsSettled
PROPERTIES ImplementsDurableExecution
CHECK_DEADLOCK FALSE
