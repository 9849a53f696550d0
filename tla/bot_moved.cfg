SPECIFICATION Spec
CONSTANTS
    e1 = e1
    e2 = e2
    e3 = e3
    routed = routed
    Main = main
    Events = {e1, e2}
    WhenBusy <- BothQueue
    Base <- AllMain
    Coalesced = {}
    PerEvent = {}
    SeenCap = 2
    RunsPerDay = 2
    MaxAttempts = 2
    MaxGen = 2
    MaxTroubles = 3
INVARIANT RunsOnce
CHECK_DEADLOCK FALSE
