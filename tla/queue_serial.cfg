SPECIFICATION Spec
CONSTANTS
  Jobs = {j1, j2}
  Workers = {w1, w2}
  Callers = {c1}
  Keys = {k1, k2}
  Deliveries = {d1}
  None = None
  MaxAttempts = 2
  LocksExpire = TRUE
  MaxManualRetries = 1
  MaxDisruptions = 1
SYMMETRY Symmetry
INVARIANTS TypeOK ClaimExclusive RetryBudget DuplicatesAreFew
PROPERTIES CompletedIsFinal ImplementsLifecycle
CHECK_DEADLOCK FALSE
