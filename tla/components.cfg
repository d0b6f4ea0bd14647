SPECIFICATION Spec
CONSTANTS
    None = None
    act = act
    act2 = act2
    sig = sig
    sig2 = sig2
    tmr = tmr
    mark = mark
INVARIANTS ComparedByPlace TimelineIsComplete WaitingIsWoken StopsCleanly SimulatedAsWritten WalkIsComplete NarrativeIsSound
PROPERTIES StopsInTheEnd
CHECK_DEADLOCK FALSE
