\* Two turns of up to three answers; their statements, answers and results pass the limit.
CONSTANTS
  MaxTurns = 2
  MaxRounds = 3
  MaxWithdrawn = 1
  MaxAsks = 1
  MaxFaults = 1
  Trigger = 5
  Limit = 6
SPECIFICATION Spec
INVARIANTS StatementsKept NothingForgotten PairsWhole TriesOnce
CHECK_DEADLOCK FALSE
