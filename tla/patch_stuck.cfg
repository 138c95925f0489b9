SPECIFICATION Spec
CONSTANTS
  Patches = {p1, p2}
  Jobs = {j1, j2}
  Workers = {w1}
  Callers = {c1}
  Reviewers = {v1}
  None = None
  MaxAttempts = 1
  MaxResets = 0
  MaxFaults = 0
SYMMETRY Symmetry
INVARIANTS UnfinishedIsServed
CHECK_DEADLOCK FALSE
