SPECIFICATION Spec
CONSTANTS
    e1 = e1
    e2 = e2
    e3 = e3
    routed = routed
    Main = main
    Events = {e1, e2, e3}
    WhenBusy <- QueueSteerAppend
    Base <- AllMain
    Coalesced = {}
    PerEvent = {}
    SeenCap = 3
    RunsPerDay = 1
    MaxAttempts = 2
    MaxGen = 2
    MaxTroubles = 2
INVARIANTS EventsAccounted TerminalIsOwn ClosedSettlesAll
CHECK_DEADLOCK FALSE
