SPECIFICATION Spec
CONSTANTS
  Session = {1, 2, 3}
  Starter = {1, 2}
  Unclear = {1}
  Worker = {w1, w2}
  NoWorker = NoWorker
  NoLease = NoLease
  NoTarget = NoTarget
  Merge = Merge
  BatchSize = 1
  Retries = 2
  MaxBatches = 2
  MaxEdits = 1
  MaxFaults = 2
INVARIANTS TypeOK OneHolder NoSourceForgotten
PROPERTIES SettledIsFinal ClaimEndsWithHolder
SYMMETRY Workers
CHECK_DEADLOCK FALSE
