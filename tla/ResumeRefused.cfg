\* One /compact of an idle session, which is then closed.
CONSTANTS
  MaxTurns = 2
  MaxRounds = 2
  MaxWithdrawn = 0
  MaxAsks = 1
  MaxFaults = 1
  Trigger = 5
  Limit = 6
SPECIFICATION Spec
INVARIANT ResumeClosesOneOpenTurn
CHECK_DEADLOCK FALSE
