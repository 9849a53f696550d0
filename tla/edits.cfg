CONSTANT hosted1 = hosted1
CONSTANT hosted2 = hosted2
CONSTANT plain1 = plain1
CONSTANT gated2 = gated2
CONSTANT gated1 = gated1
CONSTANTS
  PlainCalls = {plain1}
  GatedCalls = {gated1, gated2}
  AwaitCalls = {}
  JoinedCalls = {}
  HostedApprovals = {hosted1, hosted2}
  MaxPromises = 0
  MaxRuns = 2
  MaxTurns = 3
  MaxSteers = 1
  CompactionEnabled = TRUE
  Features = {"manualCompaction","edits","forceClose","storeRejects","watermark","generationFails"}
SPECIFICATION Spec
SYMMETRY CallSymmetry
INVARIANTS PlannedRequestHolds CompactionFrozen OpenCallsAreAnswered RunsAccountedFor CompletedRunSawSteering CancelledOnRequest NoSilentStall
CHECK_DEADLOCK FALSE
