\* Opaque tunnels and plain HTTP only, every limit on.  Four calls on two
\* connections: enough to exhaust the request cap of three, and to race the
\* last token of the budget with two responses that each use it up.
CONSTANTS
  Conns = {c1, c2}
  Hosts = {h1, h2}
  NoHost = NoHost
  Allowed = {h1}
  MITMHosts = {}
  MaxRequests = 3
  RateLimited = TRUE
  MaxTokens = 2
  MaxUsage = 2
  FileMode = TRUE
  Interrupted = {"plain"}
  Redirects = FALSE
  MaxCalls = 4
SPECIFICATION Spec
INVARIANTS
  TypeOK
  ServedWithinCap
  OverBudgetDenied
  OvershootBounded
CHECK_DEADLOCK FALSE
