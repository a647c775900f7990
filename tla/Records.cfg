SPECIFICATION RecordsSpec
CONSTANTS
  Memory = {m1, m2}
  Turn = {t1, t2}
  Candidate = {c1}
  Dep = {d1}
  MaxClock = 1
  MaxChanges = 2
  MaxSearches = 2
  MaxVersions = 4
SYMMETRY Interchangeable
INVARIANTS OneMemoryPerSource DisabledStaysDown VerifiedWhenShown
CHECK_DEADLOCK FALSE
