SPECIFICATION FairSpec
CONSTANTS
  Jobs = {j1, j2}
  Workers = {w1, w2}
  Callers = {c1, c2}
  Keys = {k1}
  Deliveries = {}
  None = None
  MaxAttempts = 1
  LocksExpire = FALSE
  MaxManualRetries = 2
  MaxDisruptions = 0
INVARIANTS RunningIsExecuted WaitingIsNotified LockIsInUse HolderKeepsLock
PROPERTIES EventuallySettled
CHECK_DEADLOCK FALSE
