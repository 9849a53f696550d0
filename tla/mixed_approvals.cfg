CONSTANT hosted1 = hosted1
CONSTANT gated1 = gated1
CONSTANTS
  PlainCalls = {}
  GatedCalls = {gated1}
  AwaitCalls = {}
  JoinedCalls = {}
  HostedApprovals = {hosted1}
  MaxPromises = 0
  MaxRuns = 1
  MaxTurns = 2
  MaxSteers = 0
  CompactionEnabled = FALSE
  Features = {}
SPECIFICATION Spec
INVARIANT GatedCallsCanPark
CHECK_DEADLOCK FALSE
