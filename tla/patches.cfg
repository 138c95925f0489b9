SPECIFICATION FairSpec
CONSTANTS
  Patches = {p1, p2}
  Jobs = {j1, j2}
  Workers = {w1, w2}
  Callers = {c1}
  Reviewers = {v1}
  None = None
  MaxAttempts = 1
  MaxResets = 1
  MaxFaults = 1
INVARIANTS TypeOK ActivePatchesAreFew
PROPERTIES DecidedPatchStays RequestedIsResolved
CHECK_DEADLOCK FALSE
