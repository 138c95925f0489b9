SPECIFICATION Spec
CONSTANTS
  Jobs = {j1}
  Workers = {w1, w2}
  Callers = {c1, c2}
  Keys = {k1}
  Deliveries = {}
  None = None
  MaxAttempts = 1
  LocksExpire = TRUE
  MaxManualRetries = 2
  MaxDisruptions = 0
SYMMETRY Symmetry
INVARIANTS ClaimExclusive
CHECK_DEADLOCK FALSE
