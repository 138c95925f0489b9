SPECIFICATION Spec
CONSTANTS
  Jobs = {j1}
  Workers = {w1}
  API = {a1}
  Runs = {r1}
  None = None
  MaxAttempts = 1
  MaxWebhooks = 1
  MaxResets = 0
  MaxFaults = 1
SYMMETRY Symmetry
INVARIANTS AnalysisHasDelivery
CHECK_DEADLOCK FALSE
