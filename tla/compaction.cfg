CONSTANT hosted1 = hosted1
CONSTANT plain1 = plain1
CONSTANTS
  PlainCalls = {plain1}
  GatedCalls = {}
  AwaitCalls = {}
  JoinedCalls = {}
  HostedApprovals = {hosted1}
  MaxPromises = 0
  MaxRuns = 1
  MaxTurns = 4
  MaxSteers = 1
  CompactionEnabled = TRUE
  Features = {"storeRejects","manualCompaction","edits","overflow","fill"}
SPECIFICATION FairSpec
INVARIANTS CompactionAtBoundary SteeringKept
PROPERTIES RunMakesProgress CompactionAnswered
CHECK_DEADLOCK FALSE
