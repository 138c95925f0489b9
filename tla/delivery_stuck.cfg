SPECIFICATION Spec
CONSTANTS
  Jobs = {j1, j2}
  Workers = {w1}
  Callers = {c1}
  MaxAttempts = 1
  LongPullRequest = FALSE
  MaxRetries = 1
  MaxAbandons = 0
SYMMETRY Symmetry
INVARIANTS QueuedIsServed
