\* One host is decrypted, the other is not in the allowlist.  Decrypted
\* responses may break off; no redirects.  With fairness of the shutdown alone.
CONSTANTS
  Conns = {c1, c2}
  Hosts = {h1, h2}
  NoHost = NoHost
  Allowed = {h1}
  MITMHosts = {h1}
  MaxRequests = 0
  RateLimited = FALSE
  MaxTokens = 2
  MaxUsage = 1
  FileMode = TRUE
  Interrupted = {"decrypted"}
  Redirects = FALSE
  MaxCalls = 4
SPECIFICATION FairSpec
INVARIANTS
  EveryDecisionAudited
  EgressOnlyAllowed
PROPERTY ShutdownCompletes
CHECK_DEADLOCK FALSE
