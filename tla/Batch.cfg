SPECIFICATION FairSpec
CONSTANTS
  Call = {w, r}
  Risky = {w}
  MaxSessions = 2
  MaxTurns = 1
  MaxOrphans = 1
  MaxFaults = 2
  MaxModelCalls = 3
  MaxToolCalls = 3
  MaxFailureRecoveries = 1
  ReusesIds = FALSE
INVARIANTS WriteAhead EndedTurnIsPaired JournalPrefix
PROPERTY OperationEnds
CHECK_DEADLOCK FALSE
