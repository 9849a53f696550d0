CONSTANTS
  MaxRuns = 1
  MaxExecutions = 3
  ResentRunTerminals = 8
  RetainedRuns = 1
  Features = {"stop", "restart", "rollover", "park", "close", "forceClose"}
SPECIFICATION FairSpec
INVARIANTS ViewIsLog HistoryIsLegal WorkDoneOnce TerminalsKept ClosedTellsEveryone
PROPERTIES RecoveryEnds ImplementsJournal
CHECK_DEADLOCK FALSE
