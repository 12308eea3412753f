\* A decrypted tunnel outlives the budget.
CONSTANTS
  Conns = {c1}
  Hosts = {h1, h2}
  NoHost = NoHost
  Allowed = {h1}
  MITMHosts = {h1}
  MaxRequests = 0
  RateLimited = FALSE
  MaxTokens = 2
  MaxUsage = 2
  FileMode = TRUE
  Interrupted = {}
  Redirects = FALSE
  MaxCalls = 3
SPECIFICATION Spec
INVARIANT OverBudgetDenied
CHECK_DEADLOCK FALSE
