SPECIFICATION FairSpec
CONSTANTS
    Digests = {1, 2}
    Large <- OneLarge
    Contains <- Nested
    Writers = {w1}
    Sweepers = {s1}
    Grace = 1
    PageLimit = 1
    MaxTime = 2
    MaxRows = 2
    MaxFailures = 1
INVARIANT HeldIsReadable
PROPERTY GarbageIsCollected
CHECK_DEADLOCK FALSE
