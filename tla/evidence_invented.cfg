SPECIFICATION Spec
CONSTANTS
  Tabs = {a1, a2}
  Calls = {b1, b2}
  NoTab = nil
  MaxTokens = 3
  Accounts = {a1, a2}
  Identities = {b1, b2}
  Mails = {c1, c2}
  LoginStates = {s1, s2}
  Callbacks = {e1, e2}
  Nobody = nil
  Installs = {a1, a2}
  Orgs = {b1, b2}
  Repos = {c1}
  SetupStates = {s1, s2}
  Setups = {e1}
  Connects = {e2, e3}
  Nil = nil
  Users = {g1, g2}
  Invitations = {b1, b2}
  Managers = {m1}
  Guests = {g1, g2}
  OtherRoles = {}
  KeyRoles = {"OWNER"}
  None = nil
  Processes = {p1}
  Requests = {b1, b2}
  NoProcess = nil
  Limit = 2
  Window = 2
  MaxTime = 3
  MaxJobs = 2
  InlineWorkers = {p1, p2}
  MaxAttempts = 4
  MaxResets = 1
  LogLines <- SomeLines
  MaxLog = 4
  MaxEvidence = 3
  MaxExcerpt = 3
  MaxQuoted = 1
  MaxAnswer = 2
  AnswerCategories = {"UNKNOWN", "DEPLOYMENT_ERROR"}
  AnswerConfidences = {34, 35}
SYMMETRY Symmetry
INVARIANTS EvidenceIsNotInvented
CHECK_DEADLOCK FALSE
