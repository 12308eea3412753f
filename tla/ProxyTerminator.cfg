\* One request in flight when the signal comes.
CONSTANTS
  Conns = {c1}
  Hosts = {h1, h2}
  NoHost = NoHost
  Allowed = {h1}
  MITMHosts = {}
  MaxRequests = 0
  RateLimited = FALSE
  MaxTokens = 2
  MaxUsage = 2
  FileMode = TRUE
  Interrupted = {}
  Redirects = FALSE
  MaxCalls = 3
SPECIFICATION Spec
INVARIANT ShutdownIsTerminator
CHECK_DEADLOCK FALSE
