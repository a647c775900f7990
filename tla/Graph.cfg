SPECIFICATION Spec
CONSTANTS
  Call = {c1, c2}
  MaxModels = 3
  MaxTools = 2
  MaxFailures = 1
  MaxCancels = 2
  MaxFaults = 1
INVARIANTS StepLimitSuffices EndIsOnFile
PROPERTY ImplementsProtocol
CHECK_DEADLOCK FALSE
