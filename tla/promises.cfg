CONSTANT joined1 = joined1
CONSTANT await1 = await1
CONSTANT gated1 = gated1
CONSTANT plain1 = plain1
CONSTANTS
  PlainCalls = {plain1}
  GatedCalls = {gated1}
  AwaitCalls = {await1}
  JoinedCalls = {joined1}
  HostedApprovals = {}
  MaxPromises = 2
  MaxRuns = 1
  MaxTurns = 2
  MaxSteers = 0
  CompactionEnabled = FALSE
  Features = {"forceClose"}
SPECIFICATION FairSpec
INVARIANTS TypeOK NoOrphanPromise NoSilentStall
PROPERTIES PromisesSettleOnce UnparksHonestly CancelledRunEnds SatisfiedWaitResumes
CHECK_DEADLOCK FALSE
