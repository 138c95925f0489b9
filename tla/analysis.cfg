SPECIFICATION FairSpec
CONSTANTS
  Jobs = {j1, j2}
  Workers = {w1, w2}
  API = {a1}
  Runs = {r1, r2}
  None = None
  MaxAttempts = 1
  MaxWebhooks = 3
  MaxResets = 1
  MaxFaults = 1
INVARIANTS TypeOK AnalysesAreFew CompletedIsAnalyzed OccurrencesAreSeen
PROPERTIES RunIsSettled
CHECK_DEADLOCK FALSE
