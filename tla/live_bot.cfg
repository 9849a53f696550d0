SPECIFICATION FairSpec
CONSTANTS
    e1 = e1
    e2 = e2
    e3 = e3
    routed = routed
    Main = main
    Events = {e1, e2}
    WhenBusy <- BothQueue
    Base <- MainRouted
    Coalesced = {e2}
    PerEvent = {routed}
    SeenCap = 1
    RunsPerDay = 1
    MaxAttempts = 2
    MaxGen = 2
    MaxTroubles = 1
INVARIANTS BudgetHolds
PROPERTY EventIsSettled
CHECK_DEADLOCK FALSE
