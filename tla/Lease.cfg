SPECIFICATION Spec
CONSTANTS
  Process = {p1, p2}
  NoProcess = NoProcess
  MaxTurns = 3
  MaxLines = 3
  MaxFaults = 2
INVARIANTS TurnsDoNotInterleave OperationOwns
SYMMETRY Processes
CHECK_DEADLOCK FALSE
