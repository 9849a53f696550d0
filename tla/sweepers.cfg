SPECIFICATION Spec
CONSTANTS
    Digests = {1}
    Large <- OneLarge
    Contains <- Flat
    Writers = {w1, w2}
    Sweepers = {s1, s2}
    Grace = 1
    PageLimit = 1
    MaxTime = 2
    MaxRows = 2
    MaxFailures = 1
SYMMETRY Symmetry
INVARIANT FreshRefIsGood
CHECK_DEADLOCK FALSE
