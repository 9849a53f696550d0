CONSTANTS
  s1 = s1
  s2 = s2
  s3 = s3
  p1 = p1
  p2 = p2
  NoSession = NoSession
  Sessions = {s1, s2, s3}
  Requests = {p1, p2}
  MaxConcurrent = 1
  MaxDepth = 2
SPECIFICATION Spec
SYMMETRY Symmetry
INVARIANTS NothingOrphaned NothingDangling DelegationCapHolds
PROPERTIES ReaperRespectsRetention
CHECK_DEADLOCK FALSE
