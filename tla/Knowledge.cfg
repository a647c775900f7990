\* Two writers on one base of two files; additions may be interrupted anywhere.
CONSTANTS
  Base = {b1}
  Name = {n1, n2}
  Content = {c1, c2}
  Workspace = {w1}
  MaxOps = 3
  MaxVersions = 3
  Writer = {p1, p2}
  MaxFaults = 1
SPECIFICATION Spec
SYMMETRY WriterSymmetry
CONSTRAINT Followed
INVARIANTS EvidenceIsFrozen OriginalsKept AllOrNothing
PROPERTY RevisionsGrow
CHECK_DEADLOCK FALSE
