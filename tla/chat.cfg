SPECIFICATION FairSpec
CONSTANTS
    c1 = c1
    Messages = {m1}
    Kinds = {"control", "denied", "turn"}
    Direct = FALSE
    InitialMode = "mention"
    Calls = {c1}
    Sends = {c1}
    Deliveries = {d1, d2}
    Runless = {d2}
    Chunks <- LongSend
    InboxCap = 1
    CarrySeen = 1
    CarryCancels = 1
    CarryDeliveries = 1
    MaxFailures = 1
    MaxSignals = 4
    MaxRepeats = 1
    MaxContinues = 1
INVARIANT AnsweredHonestly
PROPERTIES NoUnwantedSend EverythingSettles
CHECK_DEADLOCK FALSE
