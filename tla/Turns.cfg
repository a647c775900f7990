SPECIFICATION Spec
CONSTANTS
  Call = {v, w}
  Risky = {v, w}
  MaxSessions = 2
  MaxTurns = 2
  MaxOrphans = 1
  MaxFaults = 2
  MaxModelCalls = 1
  MaxToolCalls = 1
  MaxFailureRecoveries = 0
  ReusesIds = FALSE
INVARIANTS TypeOK EffectAccounted AtMostOnce TurnEndsOnce RecoveryTellsUnknown
CHECK_DEADLOCK FALSE
