SPECIFICATION Spec
CONSTANTS
  Process = {p1, p2}
  NoProcess = NoProcess
  MaxEvents = 3
  MaxRepairs = 2
  MaxFaults = 3
INVARIANTS OnlyTailIsTorn AcknowledgedStays
PROPERTY NothingIsErased
SYMMETRY Processes
CHECK_DEADLOCK FALSE
