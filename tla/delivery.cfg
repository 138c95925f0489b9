SPECIFICATION FairSpec
CONSTANTS
  Jobs = {j1, j2}
  Workers = {w1, w2}
  Callers = {c1}
  MaxAttempts = 2
  LongPullRequest = FALSE
  MaxRetries = 2
  MaxAbandons = 1
INVARIANTS TypeOK CommentsAreFew DeliveredMeansPosted CompletedJobSettlesDelivery
PROPERTIES DeliveredIsKept EventuallyResolved
CHECK_DEADLOCK FALSE
